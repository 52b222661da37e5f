--------------------------- MODULE SessionProjects ---------------------------
(***************************************************************************)
(* The session manager (projectexplorer/session.cpp): the open projects,    *)
(* the dependencies between them that order a build, and the session files  *)
(* from which they are restored.                                            *)
(*                                                                          *)
(* Everything runs in the main thread.  A session is switched in one step:  *)
(* loadSession processes no user input before its last line, where it asks  *)
(* what to do with projects that could not be opened.  The session dialog   *)
(* is modal (pc = "dialog"), and so is the loop that orders the projects    *)
(* for a build (pc = "ordering").  m_projects is kept as a set: its order   *)
(* decides only which project becomes active when the active one goes, and  *)
(* the model leaves that choice open.                                       *)
(***************************************************************************)
EXTENDS Naturals, FiniteSets

CONSTANTS
  Project,      (* project files                                           *)
  Session,      (* session names                                           *)
  Default,      (* the name "default"                                      *)
  None          (* no active project                                       *)

ASSUME NamesAssumption == Default \in Session /\ None \notin Project

VARIABLES
  projects,     (* m_projects                                              *)
  deps,         (* m_depMap, no entry being the empty set                  *)
  failed,       (* m_failedProjects                                        *)
  startup,      (* m_startupProject                                        *)
  session,      (* m_sessionName                                           *)
  virgin,       (* m_virginSession                                         *)
  sessions,     (* m_sessions                                              *)
  onDisk,       (* the sessions that have a file                           *)
  file,         (* what the file of a session holds                        *)
  pc,           (* where the main thread is                                *)
  ordered,      (* the local of dependenciesOrder, as a set                *)
  want,         (* history: the projects the user has put in each session  *)
  nameless      (* history: the active session has lost its name and file  *)
                (*   in a rename that was cut short, and was not saved since *)

store == <<onDisk, file>>
names == <<session, sessions, nameless>>
order == <<pc, ordered>>
open  == <<projects, deps, failed, startup>>
vars  == <<projects, deps, failed, startup, session, virgin, sessions, onDisk, file,
           pc, ordered, want, nameless>>

Graph == [Project -> SUBSET Project]
NoDeps == [p \in Project |-> {}]
SavedSession == [list : SUBSET Project, deps : Graph, startup : Project \cup {None}]
NoFile == [list |-> {}, deps |-> NoDeps, startup |-> None]

DefaultVirgin == session = Default /\ virgin

(* No set of projects in which each one waits for another of the set.      *)
Acyclic(g) == \A S \in SUBSET Project : S # {} => \E p \in S : g[p] \cap S = {}

(* A graph that has an order: no cycle, and every arc within the set S.     *)
OrderableOver(g, S) ==
  /\ Acyclic(g)
  /\ \A p \in Project : g[p] # {} => p \in S /\ g[p] \subseteq S

(* p is found by following the dependencies from q: it is in every set that *)
(* holds q and all dependencies of its members.                             *)
Reaches(g, q, p) ==
  \A S \in SUBSET Project : q \in S /\ (\A x \in S : g[x] \subseteq S) => p \in S

(* removeProjects refreshes m_depMap to what stays open.                   *)
Unrefreshed(g, stay) == g
Refreshed(g, stay) == [p \in Project |-> IF p \in stay THEN g[p] \cap stay ELSE {}]

(* The active project after a removal: itself, or any other (the first).   *)
KeepsActive(active, stay) == {active}
ActiveAmong(active, stay) ==
  IF active \in stay THEN {active} ELSE IF stay = {} THEN {None} ELSE stay

(* What save() writes.                                                     *)
ListSaved == projects \cup failed
Saved == [list |-> ListSaved, deps |-> deps, startup |-> startup]

Init ==
  /\ projects = {} /\ deps = NoDeps /\ failed = {} /\ startup = None
  /\ session = Default /\ virgin = TRUE /\ sessions = {Default}
  /\ onDisk = {} /\ file = [s \in Session |-> NoFile]
  /\ pc = "idle" /\ ordered = {}
  /\ want = [s \in Session |-> {}] /\ nameless = FALSE

-----------------------------------------------------------------------------
(* The user's operations on the open session.  With the first of them a new *)
(* default session replaces what an earlier one has left in its file.       *)
Wanted == IF DefaultVirgin THEN {} ELSE want[session]

Touched == FALSE                   (* addProjects, removeProject: m_virginSession = false *)

OpenProject(p) ==
  /\ pc = "idle" /\ p \notin projects
  /\ projects' = projects \cup {p}
  /\ startup' = p
  /\ virgin' = Touched
  /\ want' = [want EXCEPT ![session] = Wanted \cup {p}]
  /\ UNCHANGED <<deps, failed, names, store, order>>

CloseProject(p) ==
  /\ pc = "idle" /\ p \in projects
  /\ projects' = projects \ {p}
  /\ deps' = Refreshed(deps, projects')
  /\ startup' \in ActiveAmong(startup, projects')
  /\ virgin' = Touched
  /\ want' = [want EXCEPT ![session] = @ \ {p}]
  /\ UNCHANGED <<failed, names, store, order>>

CloseAllProjects ==
  /\ pc = "idle"
  /\ projects' = {}
  /\ deps' = Refreshed(deps, {})
  /\ startup' = None
  /\ want' = [want EXCEPT ![session] = @ \ projects]
  /\ UNCHANGED <<failed, virgin, names, store, order>>

SetStartupProject(p) ==
  /\ pc = "idle" /\ p \in projects
  /\ startup' = p
  /\ UNCHANGED <<projects, deps, failed, virgin, names, store, order, want>>

DirectOnly(p, q) == p \notin deps[q]
MayDependOn(p, q) == ~Reaches(deps, q, p)   (* recursiveDependencyCheck(p, q) *)

AddDependency(p, q) ==
  /\ pc = "idle" /\ p \in projects /\ q \in projects /\ p # q
  /\ MayDependOn(p, q)
  /\ deps' = [deps EXCEPT ![p] = @ \cup {q}]
  /\ UNCHANGED <<projects, failed, startup, virgin, names, store, order, want>>

RemoveDependency(p, q) ==
  /\ pc = "idle" /\ p \in projects /\ q \in deps[p]
  /\ deps' = [deps EXCEPT ![p] = @ \ {q}]
  /\ UNCHANGED <<projects, failed, startup, virgin, names, store, order, want>>

(* A document was opened or a cascading switch set.                        *)
MarkSessionFileDirty ==
  /\ pc = "idle"
  /\ virgin' = FALSE
  /\ want' = [want EXCEPT ![session] = Wanted]
  /\ UNCHANGED <<open, names, store, order>>

(* savePersistentSettings; a save that fails leaves the old file.          *)
Save ==
  /\ pc # "ordering" /\ ~DefaultVirgin
  /\ onDisk' = onDisk \cup {session}
  /\ file' = [file EXCEPT ![session] = Saved]
  /\ nameless' = FALSE
  /\ UNCHANGED <<open, virgin, session, sessions, order, want>>

-----------------------------------------------------------------------------
(* loadSession.  The file of the new session was read before the old        *)
(* session is saved into its own.                                           *)
SavedOnLeave == IF DefaultVirgin THEN file ELSE [file EXCEPT ![session] = Saved]

Unfiltered(g, bad) == g
RestoredDeps(g, bad) == [p \in Project |-> IF p \in bad THEN {} ELSE g[p] \ bad]

(* From setStartupProject(0) to askUserAboutFailedProjects, for the content *)
(* rec of the file of s: opened are the projects that could be opened.      *)
Switch(s, rec, exists, wanted) ==
  \E opened \in SUBSET (rec.list \ projects) :
    LET kept == projects \cap rec.list
        bad  == rec.list \ (projects \cup opened)
    IN  /\ projects' = kept \cup opened
        /\ deps' = RestoredDeps(rec.deps, bad)
        /\ startup' \in IF rec.startup \in projects' THEN {rec.startup}
                        ELSE ActiveAmong(None, IF kept # {} THEN kept ELSE opened)
        /\ session' = s
        /\ virgin' = (virgin /\ ~exists)
        /\ \/ failed' = bad /\ want' = wanted
           \/ failed' = {}  /\ want' = [wanted EXCEPT ![s] = @ \ bad]

LoadSession(s) ==
  /\ pc \in {"idle", "dialog"}
  /\ s # session \/ DefaultVirgin
  /\ s \in sessions
  /\ file' = SavedOnLeave
  /\ onDisk' = IF DefaultVirgin THEN onDisk ELSE onDisk \cup {session}
  /\ Switch(s, file[s], s \in onDisk, want)
  /\ pc' = "idle" /\ nameless' = FALSE
  /\ UNCHANGED <<sessions, ordered>>

(* An editor with unsaved changes refuses to be closed: only the save is left. *)
LoadCancelled(s) ==
  /\ pc \in {"idle", "dialog"}
  /\ s # session /\ s \in sessions
  /\ file' = SavedOnLeave
  /\ onDisk' = IF DefaultVirgin THEN onDisk ELSE onDisk \cup {session}
  /\ pc' = "idle" /\ nameless' = FALSE
  /\ UNCHANGED <<open, virgin, session, sessions, ordered, want>>

-----------------------------------------------------------------------------
(* The session dialog, opened by showSessionManager after a save.          *)
NotSaved == file
SavedForDialog == IF DefaultVirgin THEN file ELSE [file EXCEPT ![session] = Saved]

OpenDialog ==
  /\ pc = "idle"
  /\ pc' = "dialog" /\ nameless' = FALSE
  /\ file' = SavedForDialog
  /\ onDisk' = IF DefaultVirgin THEN onDisk ELSE onDisk \cup {session}
  /\ UNCHANGED <<open, virgin, session, sessions, ordered, want>>

CloseDialog ==
  /\ pc = "dialog"
  /\ pc' = "idle"
  /\ UNCHANGED <<open, virgin, names, store, ordered, want>>

CreateSession(s) ==
  /\ pc = "dialog" /\ s \notin sessions
  /\ sessions' = sessions \cup {s}
  /\ UNCHANGED <<open, virgin, session, nameless, store, order, want>>

(* QFile::copy refuses an existing file; without a file only the name is new. *)
CanClone(from, to) ==
  from \in sessions /\ to \notin sessions /\ (from \in onDisk => to \notin onDisk)

(* A copy is to hold all the user has put into the original, whatever is in *)
(* the file.  Except after a rename that was cut short: the name and the     *)
(* file of the active session are gone, and what is now created, copied or   *)
(* renamed under its name is another session, which gives way to the active  *)
(* one when that is saved.                                                   *)
WantedCopy(from, to, w) ==
  IF to = session \/ (from = session /\ nameless) THEN w
  ELSE [w EXCEPT ![to] = want[from]]

CloneSession(from, to) ==
  /\ pc = "dialog" /\ CanClone(from, to)
  /\ sessions' = sessions \cup {to}
  /\ IF from \in onDisk
     THEN /\ onDisk' = onDisk \cup {to}
          /\ file' = [file EXCEPT ![to] = file[from]]
     ELSE UNCHANGED <<onDisk, file>>
  /\ want' = WantedCopy(from, to, want)
  /\ UNCHANGED <<open, virgin, session, nameless, order>>

DeleteSession(s) ==
  /\ pc = "dialog"
  /\ s \in sessions \ {session, Default}
  /\ sessions' = sessions \ {s}
  /\ onDisk' = onDisk \ {s}
  /\ file' = [file EXCEPT ![s] = NoFile]
  /\ want' = [want EXCEPT ![s] = {}]
  /\ UNCHANGED <<open, virgin, session, nameless, order>>

(* renameSession: clone, load the clone when the session is the active one, *)
(* and delete the original, whatever loadSession has returned.              *)
RenamedFile(from, to) ==
  [file EXCEPT ![to] = IF from \in onDisk THEN file[from] ELSE @, ![from] = NoFile]

RenameOther(from, to) ==
  /\ from # session
  /\ want' = WantedCopy(from, to, [want EXCEPT ![from] = {}])
  /\ UNCHANGED <<open, session, nameless, virgin>>

RenameActive(from, to) ==
  /\ from = session
  /\ Switch(to, RenamedFile(from, to)[to], {from, to} \cap onDisk # {},
            WantedCopy(from, to, [want EXCEPT ![from] = {}]))
  /\ nameless' = FALSE

RenameCancelled(from, to) ==
  /\ from = session
  /\ want' = WantedCopy(from, to, want)
  /\ nameless' = TRUE
  /\ UNCHANGED <<open, session, virgin>>

RenameSession(from, to) ==
  /\ pc = "dialog" /\ from # Default /\ CanClone(from, to)
  /\ sessions' = (sessions \cup {to}) \ {from}
  /\ onDisk' = (IF from \in onDisk THEN onDisk \cup {to} ELSE onDisk) \ {from}
  /\ file' = RenamedFile(from, to)
  /\ RenameOther(from, to) \/ RenameActive(from, to) \/ RenameCancelled(from, to)
  /\ UNCHANGED order

-----------------------------------------------------------------------------
(* dependenciesOrder: each round takes the projects that wait for none but  *)
(* already ordered ones.                                                    *)
StartOrdering ==
  /\ pc = "idle"
  /\ pc' = "ordering" /\ ordered' = {}
  /\ UNCHANGED <<open, virgin, names, store, want>>

Unordered == projects \ ordered
Waits(p) == deps[p] \ ordered

OrderingRound ==
  /\ pc = "ordering" /\ Unordered # {}
  /\ ordered' = ordered \cup {p \in Unordered : Waits(p) = {}}
  /\ UNCHANGED <<open, virgin, names, store, pc, want>>

EndOrdering ==
  /\ pc = "ordering" /\ Unordered = {}
  /\ pc' = "idle" /\ ordered' = {}
  /\ UNCHANGED <<open, virgin, names, store, want>>

(* The program ends, in whatever way, and is started again.                *)
Restart ==
  /\ pc # "ordering"
  /\ projects' = {} /\ deps' = NoDeps /\ failed' = {} /\ startup' = None
  /\ session' = Default /\ virgin' = TRUE /\ sessions' = {Default} \cup onDisk
  /\ pc' = "idle" /\ nameless' = FALSE
  /\ want' = [want EXCEPT ![session] = file[session].list]
  /\ UNCHANGED <<store, ordered>>

EditProjects ==
  \/ \E p \in Project : OpenProject(p) \/ CloseProject(p) \/ SetStartupProject(p)
  \/ \E p, q \in Project : AddDependency(p, q) \/ RemoveDependency(p, q)
  \/ CloseAllProjects \/ MarkSessionFileDirty

ChangeSession ==
  \/ Save \/ OpenDialog \/ CloseDialog \/ Restart
  \/ \E s \in Session : LoadSession(s) \/ LoadCancelled(s) \/ CreateSession(s) \/ DeleteSession(s)
  \/ \E s, t \in Session : CloneSession(s, t) \/ RenameSession(s, t)

OrderProjects == StartOrdering \/ OrderingRound \/ EndOrdering

Next == EditProjects \/ ChangeSession \/ OrderProjects
Spec == Init /\ [][Next]_vars

-----------------------------------------------------------------------------
(* What each variable holds. *)
TypeOK ==
  /\ projects \subseteq Project /\ failed \subseteq Project
  /\ deps \in Graph
  /\ startup \in projects \cup {None}
  /\ session \in Session /\ sessions \subseteq Session
  /\ virgin \in BOOLEAN
  /\ onDisk \subseteq Session /\ file \in [Session -> SavedSession]
  /\ pc \in {"idle", "dialog", "ordering"}
  /\ ordered \subseteq Project
  /\ want \in [Session -> SUBSET Project] /\ nameless \in BOOLEAN

(* The dependencies are among the open projects and without a cycle, so that *)
(* there is an order to build them in.                                      *)
DependenciesBuildable == OrderableOver(deps, projects)

(* So are those of every session file, whatever was open, failed or closed  *)
(* when it was written; and its active project is one of its list.          *)
FilesConsistent ==
  \A s \in Session :
    /\ OrderableOver(file[s].deps, file[s].list)
    /\ file[s].startup \in file[s].list \cup {None}

(* Whenever a project is open there is an active project. *)
StartupIsOpen == projects # {} => startup # None

(* No project is lost from a session: what the user has put in and not      *)
(* taken out is open, or kept as failed, or in the file of the session,     *)
(* through every switch, clone, rename, failed open and cancelled switch.   *)
NothingLost ==
  \A s \in Session :
    want[s] \subseteq IF s = session /\ ~DefaultVirgin THEN projects \cup failed
                      ELSE file[s].list

(* The loop that orders the projects never spins: every round finds one     *)
(* that waits for no other.                                                 *)
RoundProgresses ==
  pc = "ordering" /\ Unordered # {} => \E p \in Unordered : Waits(p) = {}
=============================================================================
