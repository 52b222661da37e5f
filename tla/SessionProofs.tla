---------------------------- MODULE SessionProofs ----------------------------
(***************************************************************************)
(* Proofs about SessionProjects.                                            *)
(*                                                                          *)
(* The dependencies of the open projects stay orderable because every       *)
(* operation either shrinks the graph (closing, unchecking, the restore     *)
(* without the failed projects) or adds an arc that the search of           *)
(* recursiveDependencyCheck has allowed.  The files have to be part of the  *)
(* invariant: what is restored is what an earlier session has saved.        *)
(***************************************************************************)
EXTENDS SessionProjects, TLAPS

FileOK(r) ==
  /\ OrderableOver(r.deps, r.list)
  /\ r.startup \in r.list \cup {None}

(* The one session that is left without being saved has nothing to save. *)
UnsavedIsEmpty == DefaultVirgin => projects = {} /\ failed = {}

(* The sessions without a file, and the default session, which always exists. *)
NamesOK ==
  /\ Default \in sessions
  /\ \A s \in Session : s \notin onDisk => file[s] = NoFile

(* In the dialog the file of the active session holds what is wanted of it,  *)
(* but after a rename that was cut short; and that alone takes the name of    *)
(* the active session from the list.                                         *)
DialogOK ==
  /\ pc = "dialog" /\ ~nameless => want[session] \subseteq file[session].list
  /\ session \notin sessions => nameless \/ session \in onDisk

IInv ==
  /\ TypeOK /\ DependenciesBuildable /\ FilesConsistent /\ StartupIsOpen
  /\ NamesOK /\ UnsavedIsEmpty /\ NothingLost /\ DialogOK

-----------------------------------------------------------------------------
(* A part of a graph without cycles has none. *)
LEMMA SubgraphAcyclic ==
  ASSUME NEW g \in Graph, NEW h \in Graph, Acyclic(g), \A p \in Project : h[p] \subseteq g[p]
  PROVE  Acyclic(h)
<1> SUFFICES ASSUME NEW S \in SUBSET Project, S # {} PROVE \E p \in S : h[p] \cap S = {}
  BY DEF Acyclic
<1>1. PICK p \in S : g[p] \cap S = {} BY DEF Acyclic
<1>2. h[p] \cap S = {} BY <1>1
<1> QED BY <1>2

(* removeProjects: what stays of the dependencies is orderable over the     *)
(* projects that stay.                                                      *)
LEMMA RefreshedOrderable ==
  ASSUME NEW g \in Graph, NEW S, NEW stay \in SUBSET Project, OrderableOver(g, S)
  PROVE  /\ Refreshed(g, stay) \in Graph
         /\ OrderableOver(Refreshed(g, stay), stay)
<1> DEFINE h == Refreshed(g, stay)
<1>1. h \in Graph BY DEF Graph, Refreshed
<1>2. \A p \in Project : h[p] \subseteq g[p] BY DEF Refreshed
<1>3. Acyclic(h) BY <1>1, <1>2, SubgraphAcyclic DEF OrderableOver
<1>4. \A p \in Project : h[p] # {} => p \in stay /\ h[p] \subseteq stay BY DEF Refreshed
<1> QED BY <1>1, <1>3, <1>4 DEF OrderableOver

(* restoreDependencies: without the failed projects, the saved dependencies *)
(* are orderable over the projects that were opened.                        *)
LEMMA RestoredOrderable ==
  ASSUME NEW g \in Graph, NEW S \in SUBSET Project, NEW bad \in SUBSET Project, OrderableOver(g, S)
  PROVE  /\ RestoredDeps(g, bad) \in Graph
         /\ OrderableOver(RestoredDeps(g, bad), S \ bad)
<1> DEFINE h == RestoredDeps(g, bad)
<1>1. h \in Graph BY DEF Graph, RestoredDeps
<1>2. \A p \in Project : h[p] \subseteq g[p] BY DEF RestoredDeps
<1>3. Acyclic(h) BY <1>1, <1>2, SubgraphAcyclic DEF OrderableOver
<1>4. \A p \in Project : h[p] # {} => p \in S \ bad /\ h[p] \subseteq S \ bad
  BY DEF RestoredDeps, OrderableOver, Graph
<1> QED BY <1>1, <1>3, <1>4 DEF OrderableOver

(* addDependency: an arc from p to q closes no cycle when following the     *)
(* dependencies from q does not lead to p.                                  *)
LEMMA ArcOrderable ==
  ASSUME NEW g \in Graph, NEW S \in SUBSET Project, OrderableOver(g, S),
         NEW p \in S, NEW q \in S, ~Reaches(g, q, p)
  PROVE  /\ [g EXCEPT ![p] = @ \cup {q}] \in Graph
         /\ OrderableOver([g EXCEPT ![p] = @ \cup {q}], S)
<1> DEFINE h == [g EXCEPT ![p] = @ \cup {q}]
<1>1. h \in Graph BY DEF Graph
<1>2. \A x \in Project : h[x] = IF x = p THEN g[x] \cup {q} ELSE g[x] BY DEF Graph
<1>3. PICK C \in SUBSET Project : /\ q \in C /\ p \notin C
                                  /\ \A x \in C : g[x] \subseteq C
  BY DEF Reaches
<1>4. ASSUME NEW T \in SUBSET Project, T # {} PROVE \E x \in T : h[x] \cap T = {}
  <2>1. CASE T \cap C # {}
    <3>1. PICK x \in T \cap C : g[x] \cap (T \cap C) = {} BY <2>1 DEF OrderableOver, Acyclic
    <3>2. x # p /\ h[x] = g[x] /\ g[x] \subseteq C BY <1>2, <1>3, <3>1
    <3> QED BY <3>1, <3>2
  <2>2. CASE T \cap C = {}
    <3>1. PICK x \in T : g[x] \cap T = {} BY <1>4 DEF OrderableOver, Acyclic
    <3>2. q \notin T BY <2>2, <1>3
    <3>3. h[x] \cap T = {} BY <3>1, <3>2, <1>2
    <3> QED BY <3>3
  <2> QED BY <2>1, <2>2
<1>5. Acyclic(h) BY <1>4 DEF Acyclic
<1>6. \A x \in Project : h[x] # {} => x \in S /\ h[x] \subseteq S BY <1>2 DEF OrderableOver
<1> QED BY <1>1, <1>5, <1>6 DEF OrderableOver

(* An empty graph is orderable. *)
LEMMA EmptyOrderable ==
  NoDeps \in Graph /\ Acyclic(NoDeps) /\ \A S : OrderableOver(NoDeps, S)
BY DEF NoDeps, Graph, Acyclic, OrderableOver

(* What save() writes is a consistent file. *)
LEMMA SavedOK ==
  ASSUME TypeOK, DependenciesBuildable PROVE Saved \in SavedSession /\ FileOK(Saved)
<1>1. Saved \in SavedSession BY DEF Saved, SavedSession, ListSaved, TypeOK
<1>2. OrderableOver(Saved.deps, Saved.list)
  BY DEF Saved, ListSaved, DependenciesBuildable, OrderableOver
<1>3. Saved.startup \in Saved.list \cup {None} BY DEF Saved, ListSaved, TypeOK
<1> QED BY <1>1, <1>2, <1>3 DEF FileOK

(* The file of a session that has none. *)
LEMMA NoFileOK == NoFile \in SavedSession /\ FileOK(NoFile) /\ NoFile.list = {}
BY EmptyOrderable DEF NoFile, SavedSession, FileOK

(* The active project after a removal. *)
LEMMA ActiveOK ==
  ASSUME NEW stay \in SUBSET Project, NEW active, NEW x \in ActiveAmong(active, stay)
  PROVE  x \in stay \cup {None} /\ (stay # {} => x \in stay /\ x # None)
BY NamesAssumption DEF ActiveAmong

(* Switching to a consistent file gives a consistent session, in which      *)
(* every project of the file is open or kept as failed or given up.         *)
LEMMA SwitchOK ==
  ASSUME TypeOK, NEW s \in Session, NEW rec \in SavedSession, FileOK(rec),
         NEW exists \in BOOLEAN, NEW w \in [Session -> SUBSET Project],
         Switch(s, rec, exists, w)
  PROVE  /\ projects' \subseteq Project /\ failed' \subseteq Project /\ deps' \in Graph
         /\ startup' \in projects' \cup {None} /\ session' = s /\ virgin' \in BOOLEAN
         /\ virgin' = (virgin /\ ~exists)
         /\ want' \in [Session -> SUBSET Project]
         /\ DependenciesBuildable' /\ StartupIsOpen'
         /\ \A t \in Session : t # s => want'[t] = w[t]
         /\ want'[s] \subseteq w[s]
         /\ w[s] \subseteq rec.list => want'[s] \subseteq projects' \cup failed'
<1>1. PICK opened \in SUBSET (rec.list \ projects) :
        LET kept == projects \cap rec.list
            bad  == rec.list \ (projects \cup opened)
        IN  /\ projects' = kept \cup opened
            /\ deps' = RestoredDeps(rec.deps, bad)
            /\ startup' \in IF rec.startup \in projects' THEN {rec.startup}
                            ELSE ActiveAmong(None, IF kept # {} THEN kept ELSE opened)
            /\ session' = s
            /\ virgin' = (virgin /\ ~exists)
            /\ \/ failed' = bad /\ want' = w
               \/ failed' = {}  /\ want' = [w EXCEPT ![s] = @ \ bad]
  BY DEF Switch
<1> DEFINE kept == projects \cap rec.list
           bad  == rec.list \ (projects \cup opened)
           stay == IF kept # {} THEN kept ELSE opened
<1>2. rec.list \in SUBSET Project /\ rec.deps \in Graph BY DEF SavedSession
<1>3. /\ projects' = kept \cup opened /\ projects' = rec.list \ bad
      /\ projects' \subseteq Project /\ bad \in SUBSET Project /\ stay \in SUBSET Project
      /\ stay \subseteq projects' /\ (projects' # {} => stay # {})
  BY <1>1, <1>2
<1>4. deps' \in Graph /\ OrderableOver(deps', projects')
  <2>1. OrderableOver(rec.deps, rec.list) BY DEF FileOK
  <2>2. /\ RestoredDeps(rec.deps, bad) \in Graph
        /\ OrderableOver(RestoredDeps(rec.deps, bad), rec.list \ bad)
    BY <1>2, <1>3, <2>1, RestoredOrderable
  <2>3. deps' = RestoredDeps(rec.deps, bad) BY <1>1
  <2> QED BY <1>3, <2>2, <2>3
<1>5. /\ startup' \in projects' \cup {None}
      /\ projects' # {} => startup' # None
  <2>1. CASE rec.startup \in projects' BY <2>1, <1>1, <1>3, NamesAssumption
  <2>2. CASE rec.startup \notin projects'
    <3>1. startup' \in ActiveAmong(None, stay) BY <2>2, <1>1
    <3> QED BY <3>1, <1>3, ActiveOK
  <2> QED BY <2>1, <2>2
<1>6. failed' \subseteq Project /\ want' \in [Session -> SUBSET Project] BY <1>1, <1>3
<1>7. session' = s /\ virgin' = (virgin /\ ~exists) BY <1>1
<1>8. virgin' \in BOOLEAN BY <1>7 DEF TypeOK
<1>9. \A t \in Session : t # s => want'[t] = w[t] BY <1>1
<1>10. want'[s] \subseteq w[s] BY <1>1
<1>11. w[s] \subseteq rec.list => want'[s] \subseteq projects' \cup failed' BY <1>1, <1>3
<1>12. DependenciesBuildable' /\ StartupIsOpen' BY <1>4, <1>5 DEF DependenciesBuildable, StartupIsOpen
<1>13. projects' \subseteq Project BY <1>3
<1>14. deps' \in Graph BY <1>4
<1>15. startup' \in projects' \cup {None} BY <1>5
<1> HIDE DEF kept, bad, stay
<1> QED BY <1>6, <1>7, <1>8, <1>9, <1>10, <1>11, <1>12, <1>13, <1>14, <1>15, Zenon

LEMMA InitInv == Init => IInv
<1> SUFFICES ASSUME Init PROVE IInv OBVIOUS
<1>1. TypeOK BY NoFileOK, EmptyOrderable, NamesAssumption DEF Init, TypeOK
<1>2. DependenciesBuildable BY EmptyOrderable DEF Init, DependenciesBuildable
<1>3. FilesConsistent BY NoFileOK DEF Init, FilesConsistent, FileOK
<1>4. StartupIsOpen BY DEF Init, StartupIsOpen
<1>5. NamesOK BY DEF Init, NamesOK
<1>6. NothingLost BY DEF Init, NothingLost
<1>7. UnsavedIsEmpty BY DEF Init, UnsavedIsEmpty
<1>8. DialogOK BY NamesAssumption DEF Init, DialogOK
<1> QED BY <1>1, <1>2, <1>3, <1>4, <1>5, <1>6, <1>7, <1>8 DEF IInv

-----------------------------------------------------------------------------
(* The files are as they were. *)
LEMMA FilesKept ==
  ASSUME FilesConsistent, UNCHANGED file PROVE FilesConsistent'
BY DEF FilesConsistent

(* Only the file of s changes, to a consistent one. *)
LEMMA FileReplaced ==
  ASSUME FilesConsistent, file \in [Session -> SavedSession], NEW s \in Session,
         NEW r \in SavedSession, FileOK(r), file' = [file EXCEPT ![s] = r]
  PROVE  FilesConsistent' /\ file' \in [Session -> SavedSession]
<1>1. file' \in [Session -> SavedSession] BY Zenon
<1>2. ASSUME NEW t \in Session PROVE FileOK(file'[t])
  <2>1. CASE t = s
    <3>1. file'[t] = r BY <2>1
    <3> QED BY <3>1
  <2>2. CASE t # s
    <3>1. file'[t] = file[t] BY <2>2
    <3> QED BY <3>1 DEF FilesConsistent, FileOK
  <2> QED BY <2>1, <2>2
<1> QED BY <1>1, <1>2 DEF FilesConsistent, FileOK

(* Outside of the dialog it is only the names that matter. *)
LEMMA OutsideDialog ==
  ASSUME DialogOK, pc' # "dialog", UNCHANGED <<names, store>> PROVE DialogOK'
BY DEF DialogOK, names, store

LEMMA OpenInv == ASSUME IInv, NEW p \in Project, OpenProject(p) PROVE IInv'
<1> USE DEF IInv
<1>1. TypeOK' BY DEF OpenProject, Touched, TypeOK, names, store, order, Wanted, DefaultVirgin
<1>2. DependenciesBuildable' BY DEF OpenProject, DependenciesBuildable, OrderableOver
<1>3. FilesConsistent' BY FilesKept DEF OpenProject, store
<1>4. StartupIsOpen' BY NamesAssumption DEF OpenProject, StartupIsOpen
<1>5. NamesOK' BY DEF OpenProject, NamesOK, names, store
<1>6. NothingLost'
  BY DEF OpenProject, Touched, NothingLost, TypeOK, Wanted, DefaultVirgin, names, store
<1>7. UnsavedIsEmpty' BY DEF OpenProject, Touched, UnsavedIsEmpty, DefaultVirgin
<1>8. DialogOK' BY OutsideDialog DEF OpenProject, order
<1> QED BY <1>1, <1>2, <1>3, <1>4, <1>5, <1>6, <1>7, <1>8

LEMMA CloseInv == ASSUME IInv, NEW p \in Project, CloseProject(p) PROVE IInv'
<1> USE DEF IInv
<1>1. projects' \in SUBSET Project BY DEF CloseProject, TypeOK
<1>2. startup' \in projects' \cup {None} /\ (projects' # {} => startup' # None)
  BY <1>1, ActiveOK DEF CloseProject
<1>3. deps' \in Graph /\ OrderableOver(deps', projects')
  BY <1>1, RefreshedOrderable DEF CloseProject, TypeOK, DependenciesBuildable
<1>4. TypeOK' BY <1>1, <1>2, <1>3 DEF CloseProject, Touched, TypeOK, names, store, order
<1>5. DependenciesBuildable' BY <1>3 DEF DependenciesBuildable
<1>6. FilesConsistent' BY FilesKept DEF CloseProject, store
<1>7. StartupIsOpen' BY <1>2 DEF StartupIsOpen
<1>8. NamesOK' BY DEF CloseProject, NamesOK, names, store
<1>9. ~DefaultVirgin BY DEF CloseProject, UnsavedIsEmpty
<1>10. NothingLost'
  BY <1>9 DEF CloseProject, Touched, NothingLost, TypeOK, DefaultVirgin, names, store
<1>11. UnsavedIsEmpty' BY DEF CloseProject, Touched, UnsavedIsEmpty, DefaultVirgin
<1>12. DialogOK' BY OutsideDialog DEF CloseProject, order
<1> QED BY <1>4, <1>5, <1>6, <1>7, <1>8, <1>10, <1>11, <1>12

LEMMA CloseAllInv == ASSUME IInv, CloseAllProjects PROVE IInv'
<1> USE DEF IInv
<1>1. deps' \in Graph /\ OrderableOver(deps', {})
  BY RefreshedOrderable DEF CloseAllProjects, TypeOK, DependenciesBuildable
<1>2. TypeOK' BY <1>1 DEF CloseAllProjects, TypeOK, names, store, order
<1>3. DependenciesBuildable' BY <1>1 DEF CloseAllProjects, DependenciesBuildable
<1>4. FilesConsistent' BY FilesKept DEF CloseAllProjects, store
<1>5. StartupIsOpen' BY DEF CloseAllProjects, StartupIsOpen
<1>6. NamesOK' BY DEF CloseAllProjects, NamesOK, names, store
<1>7. UnsavedIsEmpty' BY DEF CloseAllProjects, UnsavedIsEmpty, DefaultVirgin, names
<1>8. NothingLost'
  BY DEF CloseAllProjects, NothingLost, TypeOK, DefaultVirgin, names, store
<1>9. DialogOK' BY OutsideDialog DEF CloseAllProjects, order
<1> QED BY <1>1, <1>2, <1>3, <1>4, <1>5, <1>6, <1>7, <1>8, <1>9

LEMMA AddDependencyInv ==
  ASSUME IInv, NEW p \in Project, NEW q \in Project, AddDependency(p, q) PROVE IInv'
<1> USE DEF IInv
<1>1. deps' \in Graph /\ OrderableOver(deps', projects)
  BY ArcOrderable DEF AddDependency, MayDependOn, TypeOK, DependenciesBuildable
<1>2. TypeOK' BY <1>1 DEF AddDependency, TypeOK, names, store, order
<1>3. DependenciesBuildable' BY <1>1 DEF AddDependency, DependenciesBuildable
<1>4. FilesConsistent' BY FilesKept DEF AddDependency, store
<1>5. StartupIsOpen' BY DEF AddDependency, StartupIsOpen
<1>6. NamesOK' BY DEF AddDependency, NamesOK, names, store
<1>7. UnsavedIsEmpty' BY DEF AddDependency, UnsavedIsEmpty, DefaultVirgin, names
<1>8. NothingLost' BY DEF AddDependency, NothingLost, DefaultVirgin, names, store
<1>9. DialogOK' BY OutsideDialog DEF AddDependency, order
<1> QED BY <1>2, <1>3, <1>4, <1>5, <1>6, <1>7, <1>8, <1>9

LEMMA RemoveDependencyInv ==
  ASSUME IInv, NEW p \in Project, NEW q \in Project, RemoveDependency(p, q) PROVE IInv'
<1> USE DEF IInv
<1>1. deps' \in Graph /\ \A x \in Project : deps'[x] \subseteq deps[x]
  BY DEF RemoveDependency, TypeOK, Graph
<1>2. Acyclic(deps') BY <1>1, SubgraphAcyclic DEF TypeOK, DependenciesBuildable, OrderableOver
<1>3. DependenciesBuildable'
  BY <1>1, <1>2 DEF RemoveDependency, DependenciesBuildable, OrderableOver
<1>4. TypeOK' BY <1>1 DEF RemoveDependency, TypeOK, names, store, order
<1>5. FilesConsistent' BY FilesKept DEF RemoveDependency, store
<1>6. StartupIsOpen' BY DEF RemoveDependency, StartupIsOpen
<1>7. NamesOK' BY DEF RemoveDependency, NamesOK, names, store
<1>8. UnsavedIsEmpty' BY DEF RemoveDependency, UnsavedIsEmpty, DefaultVirgin, names
<1>9. NothingLost' BY DEF RemoveDependency, NothingLost, DefaultVirgin, names, store
<1>10. DialogOK' BY OutsideDialog DEF RemoveDependency, order
<1> QED BY <1>3, <1>4, <1>5, <1>6, <1>7, <1>8, <1>9, <1>10

LEMMA SetStartupInv == ASSUME IInv, NEW p \in Project, SetStartupProject(p) PROVE IInv'
<1> USE DEF IInv
<1>1. TypeOK' BY DEF SetStartupProject, TypeOK, names, store, order
<1>2. DependenciesBuildable' BY DEF SetStartupProject, DependenciesBuildable
<1>3. FilesConsistent' BY FilesKept DEF SetStartupProject, store
<1>4. StartupIsOpen' BY NamesAssumption DEF SetStartupProject, StartupIsOpen
<1>5. NamesOK' BY DEF SetStartupProject, NamesOK, names, store
<1>6. UnsavedIsEmpty' BY DEF SetStartupProject, UnsavedIsEmpty, DefaultVirgin, names
<1>7. NothingLost' BY DEF SetStartupProject, NothingLost, DefaultVirgin, names, store
<1>8. DialogOK' BY OutsideDialog DEF SetStartupProject, order
<1> QED BY <1>1, <1>2, <1>3, <1>4, <1>5, <1>6, <1>7, <1>8

LEMMA DirtyInv == ASSUME IInv, MarkSessionFileDirty PROVE IInv'
<1> USE DEF IInv
<1>1. TypeOK' BY DEF MarkSessionFileDirty, TypeOK, open, names, store, order, Wanted
<1>2. DependenciesBuildable' BY DEF MarkSessionFileDirty, open, DependenciesBuildable
<1>3. FilesConsistent' BY FilesKept DEF MarkSessionFileDirty, store
<1>4. StartupIsOpen' BY DEF MarkSessionFileDirty, open, StartupIsOpen
<1>5. NamesOK' BY DEF MarkSessionFileDirty, NamesOK, names, store
<1>6. UnsavedIsEmpty' BY DEF MarkSessionFileDirty, UnsavedIsEmpty, DefaultVirgin
<1>7. NothingLost'
  BY DEF MarkSessionFileDirty, NothingLost, TypeOK, Wanted, DefaultVirgin, open, names, store
<1>8. DialogOK' BY OutsideDialog DEF MarkSessionFileDirty, order
<1> QED BY <1>1, <1>2, <1>3, <1>4, <1>5, <1>6, <1>7, <1>8

(* A save, alone or with the dialog or a cancelled switch, touches only the *)
(* file of the active session.                                              *)
LEMMA SaveInv ==
  ASSUME IInv, file' = SavedOnLeave,
         onDisk' = IF DefaultVirgin THEN onDisk ELSE onDisk \cup {session},
         UNCHANGED <<open, virgin, session, sessions, ordered, want>>, nameless' = FALSE,
         pc' \in {"idle", "dialog", "ordering"}
  PROVE  IInv'
<1> USE DEF IInv
<1>1. FilesConsistent' /\ file' \in [Session -> SavedSession]
  BY SavedOK, FileReplaced, FilesKept DEF SavedOnLeave, TypeOK
<1>2. TypeOK' BY <1>1 DEF TypeOK, open
<1>3. DependenciesBuildable' BY DEF open, DependenciesBuildable
<1>4. StartupIsOpen' BY DEF open, StartupIsOpen
<1>5. NamesOK' BY DEF NamesOK, SavedOnLeave, TypeOK
<1>6. UnsavedIsEmpty' BY DEF UnsavedIsEmpty, DefaultVirgin, open
<1>7. NothingLost'
  BY DEF NothingLost, SavedOnLeave, TypeOK, DefaultVirgin, open
<1>8. DialogOK' 
  <2>1. CASE DefaultVirgin
    BY <2>1 DEF DialogOK, DefaultVirgin, NamesOK, NothingLost, SavedOnLeave, TypeOK
  <2>2. CASE ~DefaultVirgin
    <3>1. file'[session] = Saved /\ session \in onDisk' BY <2>2 DEF SavedOnLeave, TypeOK
    <3>2. want[session] \subseteq Saved.list BY <2>2 DEF NothingLost, TypeOK, Saved, ListSaved
    <3> QED BY <3>1, <3>2 DEF DialogOK
  <2> QED BY <2>1, <2>2
<1> QED BY <1>1, <1>2, <1>3, <1>4, <1>5, <1>6, <1>7, <1>8

LEMMA LoadInv == ASSUME IInv, NEW s \in Session, LoadSession(s) PROVE IInv'
<1> USE DEF IInv
<1>1. FilesConsistent' /\ file' \in [Session -> SavedSession]
  BY SavedOK, FileReplaced, FilesKept DEF LoadSession, SavedOnLeave, TypeOK
<1>2. Switch(s, file[s], s \in onDisk, want) BY DEF LoadSession
<1>3. file[s] \in SavedSession /\ FileOK(file[s]) BY DEF TypeOK, FilesConsistent, FileOK
<1>4. (s \in onDisk) \in BOOLEAN /\ want \in [Session -> SUBSET Project] BY DEF TypeOK
<1>5. /\ projects' \subseteq Project /\ failed' \subseteq Project /\ deps' \in Graph
      /\ startup' \in projects' \cup {None} /\ session' = s /\ virgin' \in BOOLEAN
      /\ virgin' = (virgin /\ ~(s \in onDisk))
      /\ want' \in [Session -> SUBSET Project]
      /\ DependenciesBuildable' /\ StartupIsOpen'
      /\ \A t \in Session : t # s => want'[t] = want[t]
      /\ want'[s] \subseteq want[s]
      /\ want[s] \subseteq file[s].list => want'[s] \subseteq projects' \cup failed'
  BY <1>2, <1>3, <1>4, SwitchOK
<1>6. TypeOK' BY <1>1, <1>5 DEF LoadSession, TypeOK
<1>7. NamesOK' BY DEF NamesOK, LoadSession, SavedOnLeave, TypeOK
<1>8. UnsavedIsEmpty'
  <2> SUFFICES ASSUME s = Default, virgin' PROVE projects' = {} /\ failed' = {}
    BY <1>5 DEF UnsavedIsEmpty, DefaultVirgin
  <2>1. s \notin onDisk BY <1>5
  <2>2. file[s].list = {} BY <2>1 DEF NamesOK, NoFile
  <2> QED BY <2>2, <1>2 DEF Switch
<1>9. NothingLost'
  <2> SUFFICES ASSUME NEW t \in Session
               PROVE  want'[t] \subseteq IF t = session' /\ ~DefaultVirgin' THEN projects' \cup failed'
                                         ELSE file'[t].list
    BY DEF NothingLost
  <2>1. s # session \/ DefaultVirgin BY DEF LoadSession
  <2>2. want[s] \subseteq file[s].list BY <2>1 DEF NothingLost
  <2>3. CASE t = s
    <3>1. file'[s] = file[s] BY <2>1 DEF LoadSession, SavedOnLeave, TypeOK
    <3> QED BY <1>5, <2>2, <2>3, <3>1
  <2>4. CASE t # s
    <3>1. want'[t] = want[t] /\ t # session' BY <1>5, <2>4
    <3>2. CASE t = session /\ ~DefaultVirgin
      <4>1. file'[t] = Saved BY <3>2 DEF LoadSession, SavedOnLeave, TypeOK
      <4>2. want[t] \subseteq Saved.list BY <3>2 DEF NothingLost, Saved, ListSaved
      <4> QED BY <3>1, <4>1, <4>2
    <3>3. CASE ~(t = session /\ ~DefaultVirgin)
      <4>1. file'[t] = file[t] BY <3>3 DEF LoadSession, SavedOnLeave, TypeOK
      <4>2. want[t] \subseteq file[t].list BY <3>3 DEF NothingLost
      <4> QED BY <3>1, <4>1, <4>2
    <3> QED BY <3>2, <3>3
  <2> QED BY <2>3, <2>4
<1>10. DialogOK' BY <1>5 DEF LoadSession, DialogOK
<1> QED BY <1>1, <1>5, <1>6, <1>7, <1>8, <1>9, <1>10

(* Steps that change neither the projects nor a file. *)
LEMMA BystandersInv ==
  ASSUME IInv, UNCHANGED <<open, virgin, session, store, want>>,
         Default \in sessions', sessions' \subseteq Session, sessions \subseteq sessions',
         nameless' = nameless, pc' = "dialog" => pc = "dialog",
         pc' \in {"idle", "dialog", "ordering"}, ordered' \subseteq Project
  PROVE  IInv'
<1> USE DEF IInv
<1>1. TypeOK' BY DEF TypeOK, open, store
<1>2. DependenciesBuildable' BY DEF open, DependenciesBuildable
<1>3. FilesConsistent' BY FilesKept DEF store
<1>4. StartupIsOpen' BY DEF open, StartupIsOpen
<1>5. NamesOK' BY DEF NamesOK, store
<1>6. UnsavedIsEmpty' BY DEF UnsavedIsEmpty, DefaultVirgin, open
<1>7. NothingLost' BY DEF NothingLost, DefaultVirgin, open, store
<1>8. DialogOK' BY DEF DialogOK, store
<1> QED BY <1>1, <1>2, <1>3, <1>4, <1>5, <1>6, <1>7, <1>8

LEMMA DeleteInv == ASSUME IInv, NEW s \in Session, DeleteSession(s) PROVE IInv'
<1> USE DEF IInv
<1>1. FilesConsistent' /\ file' \in [Session -> SavedSession]
  BY NoFileOK, FileReplaced DEF DeleteSession, TypeOK
<1>2. TypeOK' BY <1>1 DEF DeleteSession, TypeOK, open, order
<1>3. DependenciesBuildable' BY DEF DeleteSession, open, DependenciesBuildable
<1>4. StartupIsOpen' BY DEF DeleteSession, open, StartupIsOpen
<1>5. NamesOK' BY DEF DeleteSession, NamesOK, TypeOK
<1>6. UnsavedIsEmpty' BY DEF DeleteSession, UnsavedIsEmpty, DefaultVirgin, open
<1>7. NothingLost' BY DEF DeleteSession, NothingLost, TypeOK, DefaultVirgin, open
<1>8. DialogOK' BY DEF DeleteSession, DialogOK, TypeOK, order
<1> QED BY <1>1, <1>2, <1>3, <1>4, <1>5, <1>6, <1>7, <1>8

(* What is copied holds what is wanted of it. *)
LEMMA OriginalIsComplete ==
  ASSUME IInv, pc = "dialog", NEW from \in Session, ~(from = session /\ nameless)
  PROVE  want[from] \subseteq file[from].list
BY DEF IInv, DialogOK, NothingLost

LEMMA CloneInv ==
  ASSUME IInv, NEW from \in Session, NEW to \in Session, CloneSession(from, to) PROVE IInv'
<1> USE DEF IInv
<1>1. /\ to # from /\ to # Default /\ to \notin sessions /\ pc = "dialog"
      /\ want' = WantedCopy(from, to, want) /\ sessions' = sessions \cup {to}
      /\ UNCHANGED <<open, virgin, session, nameless, order>>
  BY DEF CloneSession, CanClone, NamesOK
<1>2. /\ FilesConsistent' /\ file' \in [Session -> SavedSession]
      /\ onDisk \subseteq onDisk' /\ onDisk' \subseteq Session /\ NamesOK'
      /\ file[from].list \subseteq file'[to].list
      /\ \A t \in Session : t # to => file'[t] = file[t]
      /\ to \in onDisk => file' = file
  <2>1. CASE from \notin onDisk
    <3>1. UNCHANGED <<file, onDisk>> /\ file[from].list = {}
      BY <2>1, NoFileOK DEF CloneSession, NamesOK
    <3> QED BY <1>1, <3>1, FilesKept DEF TypeOK, NamesOK
  <2>2. CASE from \in onDisk
    <3>1. /\ file' = [file EXCEPT ![to] = file[from]] /\ onDisk' = onDisk \cup {to}
          /\ to \notin onDisk
      BY <2>2 DEF CloneSession, CanClone
    <3>2. file[from] \in SavedSession /\ FileOK(file[from]) BY DEF TypeOK, FilesConsistent, FileOK
    <3>3. FilesConsistent' /\ file' \in [Session -> SavedSession]
      BY <3>1, <3>2, FileReplaced DEF TypeOK
    <3> QED BY <1>1, <3>1, <3>3 DEF TypeOK, NamesOK
  <2> QED BY <2>1, <2>2
<1>3. TypeOK' BY <1>1, <1>2 DEF TypeOK, WantedCopy, open, order
<1>4. DependenciesBuildable' BY <1>1 DEF open, DependenciesBuildable
<1>5. StartupIsOpen' BY <1>1 DEF open, StartupIsOpen
<1>6. UnsavedIsEmpty' BY <1>1 DEF UnsavedIsEmpty, DefaultVirgin, open
<1>7. /\ \A t \in Session : t # to \/ t = session => want'[t] = want[t]
      /\ to # session => want'[to] \subseteq file'[to].list
  <2>1. CASE to = session \/ (from = session /\ nameless)
    <3>1. to # session => want[to] \subseteq file[to].list BY DEF NothingLost
    <3>2. to \notin onDisk => file[to].list = {} BY NoFileOK DEF NamesOK
    <3> QED BY <1>1, <1>2, <2>1, <3>1, <3>2 DEF WantedCopy
  <2>2. CASE ~(to = session \/ (from = session /\ nameless))
    <3>1. want[from] \subseteq file[from].list BY <1>1, <2>2, OriginalIsComplete
    <3> QED BY <1>1, <1>2, <2>2, <3>1 DEF WantedCopy, TypeOK
  <2> QED BY <2>1, <2>2
<1>8. NothingLost'
  <2> SUFFICES ASSUME NEW t \in Session
               PROVE  want'[t] \subseteq IF t = session' /\ ~DefaultVirgin' THEN projects' \cup failed'
                                         ELSE file'[t].list
    BY DEF NothingLost
  <2>1. UNCHANGED <<projects, failed, session, DefaultVirgin>> BY <1>1 DEF open, DefaultVirgin
  <2>2. CASE t = to /\ t # session BY <1>7, <2>1, <2>2
  <2>3. CASE t # to \/ t = session
    <3>1. t = to => ~DefaultVirgin BY <1>1, <2>3 DEF DefaultVirgin
    <3> QED BY <1>2, <1>7, <2>1, <2>3, <3>1 DEF NothingLost
  <2> QED BY <2>2, <2>3
<1>9. DialogOK'
  <2>1. to # session \/ nameless \/ to \in onDisk BY <1>1 DEF DialogOK
  <2> QED BY <1>1, <1>2, <1>7, <2>1 DEF DialogOK, TypeOK
<1> QED BY <1>2, <1>3, <1>4, <1>5, <1>6, <1>8, <1>9

(* The files after a rename, and what is expected of them. *)
LEMMA RenameFacts ==
  ASSUME IInv, NEW from \in Session, NEW to \in Session, RenameSession(from, to)
  PROVE  /\ to # from /\ to # Default /\ from # Default
         /\ FilesConsistent' /\ file' \in [Session -> SavedSession]
         /\ onDisk' \subseteq Session /\ sessions' \subseteq Session
         /\ pc' \in {"idle", "dialog", "ordering"} /\ ordered' \subseteq Project
         /\ NamesOK'
         /\ file[from].list \subseteq file'[to].list
         /\ \A t \in Session : t # from /\ t # to => file'[t] = file[t]
         /\ to \in onDisk => file'[to] = file[to] /\ to \in onDisk'
         /\ pc = "dialog" /\ to \notin sessions /\ sessions' = (sessions \cup {to}) \ {from}
         /\ file[to].list \subseteq file'[to].list
<1> USE DEF IInv
<1>1. to # from /\ to # Default /\ from # Default BY DEF RenameSession, CanClone, NamesOK
<1>2. /\ file' = RenamedFile(from, to)
      /\ onDisk' = (IF from \in onDisk THEN onDisk \cup {to} ELSE onDisk) \ {from}
      /\ sessions' = (sessions \cup {to}) \ {from}
      /\ UNCHANGED <<pc, ordered>>
  BY DEF RenameSession, order
<1> DEFINE r == IF from \in onDisk THEN file[from] ELSE file[to]
           mid == [file EXCEPT ![to] = r]
<1>3. file \in [Session -> SavedSession] BY DEF TypeOK
<1>4. file' \in [Session -> SavedSession] BY <1>2, <1>3, NoFileOK DEF RenamedFile
<1>5. ASSUME NEW t \in Session
      PROVE file'[t] = IF t = from THEN NoFile ELSE IF t = to THEN r ELSE file[t]
  BY <1>1, <1>2, <1>3 DEF RenamedFile
<1>6. \A t \in Session : FileOK(file[t]) BY DEF FilesConsistent, FileOK
<1>7. \A t \in Session : FileOK(file'[t]) BY <1>5, <1>6, NoFileOK
<1>8. FilesConsistent' BY <1>7 DEF FilesConsistent, FileOK
<1>9. NamesOK'
  <2>1. Default \in sessions' BY <1>1, <1>2 DEF NamesOK
  <2>2. ASSUME NEW t \in Session, t \notin onDisk' PROVE file'[t] = NoFile
    BY <1>1, <1>2, <1>5, <2>2 DEF NamesOK
  <2> QED BY <2>1, <2>2 DEF NamesOK
<1>10. file[from].list \subseteq file'[to].list BY <1>1, <1>5, NoFileOK DEF NamesOK
<1>11. /\ onDisk' \subseteq Session /\ sessions' \subseteq Session
       /\ pc' \in {"idle", "dialog", "ordering"} /\ ordered' \subseteq Project
  BY <1>2 DEF TypeOK
<1>12. \A t \in Session : t # from /\ t # to => file'[t] = file[t] BY <1>5
<1>13. to \in onDisk => file'[to] = file[to] /\ to \in onDisk'
  BY <1>1, <1>2, <1>5 DEF RenameSession, CanClone
<1>14. pc = "dialog" /\ to \notin sessions BY DEF RenameSession, CanClone
<1>15. file[to].list \subseteq file'[to].list BY <1>13, NoFileOK DEF NamesOK
<1> QED BY <1>1, <1>2, <1>4, <1>8, <1>9, <1>10, <1>11, <1>12, <1>13, <1>14, <1>15

LEMMA RenameInv ==
  ASSUME IInv, NEW from \in Session, NEW to \in Session, RenameSession(from, to) PROVE IInv'
<1> USE DEF IInv
<1>1. /\ to # from /\ to # Default /\ from # Default
      /\ FilesConsistent' /\ file' \in [Session -> SavedSession]
      /\ onDisk' \subseteq Session /\ sessions' \subseteq Session
      /\ pc' \in {"idle", "dialog", "ordering"} /\ ordered' \subseteq Project
      /\ NamesOK'
      /\ file[from].list \subseteq file'[to].list
      /\ \A t \in Session : t # from /\ t # to => file'[t] = file[t]
      /\ to \in onDisk => file'[to] = file[to] /\ to \in onDisk'
      /\ pc = "dialog" /\ to \notin sessions /\ sessions' = (sessions \cup {to}) \ {from}
      /\ file[to].list \subseteq file'[to].list
  BY RenameFacts
<1>2. ASSUME UNCHANGED <<open, session, virgin>>,
             \E w : /\ w \in [Session -> SUBSET Project] /\ want' = WantedCopy(from, to, w)
                    /\ \A t \in Session \ {from} : w[t] = want[t]
                    /\ w[from] = {} \/ (from = session /\ w[from] = want[from])
                    /\ nameless' = (nameless \/ from = session)
      PROVE  IInv'
  <2>1. PICK w : /\ w \in [Session -> SUBSET Project] /\ want' = WantedCopy(from, to, w)
                 /\ \A t \in Session \ {from} : w[t] = want[t]
                 /\ w[from] = {} \/ (from = session /\ w[from] = want[from])
                 /\ nameless' = (nameless \/ from = session)
    BY <1>2
  <2>2. want' \in [Session -> SUBSET Project] BY <2>1 DEF WantedCopy, TypeOK
  <2>3. TypeOK' BY <1>1, <1>2, <2>1, <2>2 DEF TypeOK, open
  <2>4. DependenciesBuildable' BY <1>2 DEF open, DependenciesBuildable
  <2>5. StartupIsOpen' BY <1>2 DEF open, StartupIsOpen
  <2>6. UnsavedIsEmpty' BY <1>2 DEF UnsavedIsEmpty, DefaultVirgin, open
  <2>7. UNCHANGED <<projects, failed, session, DefaultVirgin>> BY <1>2 DEF open, DefaultVirgin
  <2>8. ASSUME NEW t \in Session
        PROVE want'[t] \subseteq IF t = session /\ ~DefaultVirgin THEN projects \cup failed ELSE file'[t].list
    <3>1. CASE t = from
      <4>1. want'[t] = w[from] BY <1>1, <2>1, <3>1 DEF WantedCopy
      <4>2. CASE w[from] = {} BY <4>1, <4>2
      <4>3. CASE from = session /\ w[from] = want[from]
        <5>1. ~DefaultVirgin BY <1>1, <4>3 DEF DefaultVirgin
        <5> QED BY <3>1, <4>1, <4>3, <5>1 DEF NothingLost
      <4> QED BY <2>1, <4>2, <4>3
    <3>2. CASE t = to /\ to = session
      <4>1. want'[t] = want[to] /\ ~DefaultVirgin
        BY <1>1, <2>1, <3>2 DEF WantedCopy, DefaultVirgin
      <4> QED BY <3>2, <4>1 DEF NothingLost
    <3>3. CASE t = to /\ to # session
      <4>1. CASE from = session /\ nameless
        <5>1. want'[t] = want[to] BY <1>1, <2>1, <3>3, <4>1 DEF WantedCopy
        <5>2. want[to] \subseteq file[to].list BY <3>3 DEF NothingLost
        <5> QED BY <1>1, <3>3, <5>1, <5>2
      <4>2. CASE ~(from = session /\ nameless)
        <5>1. want'[t] = want[from] BY <2>1, <3>3, <4>2 DEF WantedCopy
        <5>2. want[from] \subseteq file[from].list BY <1>1, <4>2, OriginalIsComplete
        <5> QED BY <1>1, <3>3, <5>1, <5>2
      <4> QED BY <4>1, <4>2
    <3>4. CASE t # from /\ t # to
      <4>1. want'[t] = want[t] BY <2>1, <3>4 DEF WantedCopy
      <4> QED BY <1>1, <3>4, <4>1 DEF NothingLost
    <3> QED BY <3>1, <3>2, <3>3, <3>4
  <2>9. NothingLost' BY <2>7, <2>8 DEF NothingLost
  <2>10. DialogOK'
    <3>1. CASE from = session BY <2>1, <3>1 DEF DialogOK
    <3>2. CASE from # session /\ to = session
      <4>1. want'[session] = want[session] BY <1>1, <2>1, <3>2 DEF WantedCopy
      <4>2. nameless \/ session \in onDisk BY <1>1, <3>2 DEF DialogOK
      <4> QED BY <1>1, <1>2, <2>1, <3>2, <4>1, <4>2 DEF DialogOK
    <3>3. CASE from # session /\ to # session
      <4>1. want'[session] = want[session] BY <2>1, <3>3 DEF WantedCopy, TypeOK
      <4>2. file'[session] = file[session] BY <1>1, <3>3 DEF TypeOK
      <4>3. session \in sessions' <=> session \in sessions BY <1>1, <3>3
      <4>4. session \in onDisk => session \in onDisk' BY <3>3 DEF RenameSession
      <4> QED BY <1>1, <1>2, <2>1, <4>1, <4>2, <4>3, <4>4 DEF DialogOK
    <3> QED BY <3>1, <3>2, <3>3
  <2> QED BY <1>1, <2>3, <2>4, <2>5, <2>6, <2>9, <2>10
<1>3. CASE RenameOther(from, to)
  <2> DEFINE w == [want EXCEPT ![from] = {}]
  <2>1. /\ w \in [Session -> SUBSET Project] /\ w[from] = {}
        /\ \A t \in Session \ {from} : w[t] = want[t]
    BY DEF TypeOK
  <2>2. /\ want' = WantedCopy(from, to, w) /\ UNCHANGED <<open, session, virgin>>
        /\ nameless' = (nameless \/ from = session)
    BY <1>3 DEF RenameOther, TypeOK
  <2> QED BY <1>2, <2>1, <2>2
<1>4. CASE RenameCancelled(from, to)
  <2>1. /\ from = session /\ want' = WantedCopy(from, to, want)
        /\ UNCHANGED <<open, session, virgin>> /\ nameless' = (nameless \/ from = session)
    BY <1>4 DEF RenameCancelled
  <2>2. want \in [Session -> SUBSET Project] BY DEF TypeOK
  <2> QED BY <1>2, <2>1, <2>2
<1>5. CASE RenameActive(from, to)
  <2> DEFINE w == WantedCopy(from, to, [want EXCEPT ![from] = {}])
             rec == RenamedFile(from, to)[to]
  <2>1. from = session /\ Switch(to, rec, {from, to} \cap onDisk # {}, w) /\ nameless' = FALSE
    BY <1>5 DEF RenameActive
  <2>2. rec = file'[to] BY DEF RenameSession
  <2>3. rec \in SavedSession /\ FileOK(rec) BY <1>1, <2>2 DEF FilesConsistent, FileOK
  <2>4. /\ w \in [Session -> SUBSET Project]
        /\ w[from] = {} /\ w[to] \subseteq rec.list
        /\ \A t \in Session \ {from, to} : w[t] = want[t]
    <3>1. CASE nameless
      <4>1. want[to] \subseteq file[to].list BY <1>1, <2>1 DEF NothingLost
      <4> QED BY <1>1, <2>1, <2>2, <3>1, <4>1 DEF WantedCopy, TypeOK
    <3>2. CASE ~nameless
      <4>1. want[from] \subseteq file[from].list BY <1>1, <3>2, OriginalIsComplete
      <4> QED BY <1>1, <2>1, <2>2, <3>2, <4>1 DEF WantedCopy, TypeOK
    <3> QED BY <3>1, <3>2
  <2>5. ({from, to} \cap onDisk # {}) \in BOOLEAN OBVIOUS
  <2> HIDE DEF w, rec
  <2>6. /\ projects' \subseteq Project /\ failed' \subseteq Project /\ deps' \in Graph
        /\ startup' \in projects' \cup {None} /\ session' = to /\ virgin' \in BOOLEAN
        /\ want' \in [Session -> SUBSET Project]
        /\ DependenciesBuildable' /\ StartupIsOpen'
        /\ \A t \in Session : t # to => want'[t] = w[t]
        /\ want'[to] \subseteq w[to]
        /\ w[to] \subseteq rec.list => want'[to] \subseteq projects' \cup failed'
    BY <2>1, <2>3, <2>4, <2>5, SwitchOK
  <2>7. TypeOK' BY <1>1, <2>1, <2>6 DEF TypeOK
  <2>8. ~DefaultVirgin' BY <1>1, <2>6 DEF DefaultVirgin
  <2>9. UnsavedIsEmpty' BY <2>8 DEF UnsavedIsEmpty
  <2>10. ASSUME NEW t \in Session
         PROVE want'[t] \subseteq IF t = session' /\ ~DefaultVirgin' THEN projects' \cup failed' ELSE file'[t].list
    <3>1. CASE t = to BY <1>1, <2>2, <2>4, <2>6, <2>8, <3>1
    <3>2. CASE t = from BY <1>1, <2>4, <2>6, <3>2
    <3>3. CASE t # to /\ t # from
      <4>1. want'[t] = want[t] /\ t # session /\ file'[t] = file[t] BY <1>1, <2>1, <2>4, <2>6, <3>3
      <4> QED BY <2>6, <3>3, <4>1 DEF NothingLost
    <3> QED BY <3>1, <3>2, <3>3
  <2>11. NothingLost' BY <2>10 DEF NothingLost
  <2>12. DialogOK' BY <1>1, <2>2, <2>4, <2>6 DEF DialogOK
  <2> QED BY <1>1, <2>6, <2>7, <2>9, <2>11, <2>12
<1> QED BY <1>3, <1>4, <1>5 DEF RenameSession

LEMMA RestartInv == ASSUME IInv, Restart PROVE IInv'
<1> USE DEF IInv
<1>1. TypeOK' BY EmptyOrderable, NamesAssumption DEF Restart, TypeOK, store, SavedSession
<1>2. DependenciesBuildable' BY EmptyOrderable DEF Restart, DependenciesBuildable
<1>3. FilesConsistent' BY FilesKept DEF Restart, store
<1>4. StartupIsOpen' BY DEF Restart, StartupIsOpen
<1>5. NamesOK' BY DEF Restart, NamesOK, store
<1>6. UnsavedIsEmpty' BY DEF Restart, UnsavedIsEmpty
<1>7. NothingLost' BY DEF Restart, NothingLost, TypeOK, DefaultVirgin, store
<1>8. DialogOK' BY DEF Restart, DialogOK
<1> QED BY <1>1, <1>2, <1>3, <1>4, <1>5, <1>6, <1>7, <1>8

(* Every operation of the session manager keeps the invariant.              *)
LEMMA NextInv == ASSUME IInv, [Next]_vars PROVE IInv'
<1>1. /\ Default \in sessions /\ sessions \subseteq Session
      /\ pc \in {"idle", "dialog", "ordering"} /\ ordered \subseteq Project
      /\ projects \subseteq Project
  BY DEF IInv, NamesOK, TypeOK
<1>2. CASE UNCHANGED vars
  <2>1. /\ UNCHANGED <<open, virgin, session, nameless, store, want>>
        /\ UNCHANGED <<sessions, pc, ordered>>
    BY <1>2 DEF vars, open, store
  <2> QED BY <1>1, <2>1, BystandersInv
<1>3. CASE EditProjects
  BY <1>3, OpenInv, CloseInv, SetStartupInv, AddDependencyInv, RemoveDependencyInv,
     CloseAllInv, DirtyInv DEF EditProjects
<1>4. ASSUME NEW s \in Session, CreateSession(s) PROVE IInv'
  <2>1. /\ UNCHANGED <<open, virgin, session, nameless, store, want>> /\ UNCHANGED <<pc, ordered>>
        /\ sessions' = sessions \cup {s}
    BY <1>4 DEF CreateSession, order
  <2> QED BY <1>1, <2>1, BystandersInv
<1>5. CASE CloseDialog
  <2>1. /\ UNCHANGED <<open, virgin, session, nameless, store, want>> /\ UNCHANGED <<sessions, ordered>>
        /\ pc' = "idle"
    BY <1>5 DEF CloseDialog, names
  <2> QED BY <1>1, <2>1, BystandersInv
<1>6. CASE OrderProjects
  <2>1. /\ UNCHANGED <<open, virgin, session, nameless, store, want>> /\ UNCHANGED sessions
        /\ pc' \in {"idle", "ordering"} /\ ordered' \subseteq Project
    BY <1>1, <1>6 DEF OrderProjects, StartOrdering, OrderingRound, EndOrdering, names, Unordered
  <2> QED BY <1>1, <2>1, BystandersInv
<1>7. CASE Save
  <2>1. /\ file' = SavedOnLeave
        /\ onDisk' = IF DefaultVirgin THEN onDisk ELSE onDisk \cup {session}
        /\ UNCHANGED <<open, virgin, session, sessions, ordered, want>> /\ UNCHANGED pc
        /\ nameless' = FALSE
    BY <1>7 DEF Save, SavedOnLeave, order
  <2> QED BY <1>1, <2>1, SaveInv
<1>8. CASE OpenDialog BY <1>8, SaveInv DEF OpenDialog, SavedForDialog, SavedOnLeave
<1>9. ASSUME NEW s \in Session, LoadCancelled(s) PROVE IInv' BY <1>9, SaveInv DEF LoadCancelled
<1>10. CASE ChangeSession
  BY <1>4, <1>5, <1>7, <1>8, <1>9, <1>10, RestartInv, LoadInv, DeleteInv, CloneInv, RenameInv
     DEF ChangeSession
<1> QED BY <1>2, <1>3, <1>6, <1>10 DEF Next

(* The inductive invariant: types, orderable dependencies in memory and in   *)
(* the files, an active project, and no project lost, hold together.         *)
THEOREM Invariance == Spec => []IInv
<1>1. Init => IInv BY InitInv
<1>2. IInv /\ [Next]_vars => IInv' BY NextInv
<1> QED BY <1>1, <1>2, PTL DEF Spec

(* Every variable keeps its type, and the active project is an open one.     *)
THEOREM TypeCorrect == Spec => []TypeOK
<1>1. IInv => TypeOK BY DEF IInv
<1> QED BY <1>1, Invariance, PTL

(* The dependencies of the open projects are among them and without a cycle, *)
(* which is what AddDependency, CloseProject and loading must keep together. *)
THEOREM DependenciesStayOrderable == Spec => []DependenciesBuildable
<1>1. IInv => DependenciesBuildable BY DEF IInv
<1> QED BY <1>1, Invariance, PTL

(* So are those of every session file, whichever session is saved, cloned or *)
(* given a new name and whatever is lost in between: a file is only written  *)
(* from a state that can be ordered.                                         *)
THEOREM SavedSessionsStayOrderable == Spec => []FilesConsistent
<1>1. IInv => FilesConsistent BY DEF IInv
<1> QED BY <1>1, Invariance, PTL

(* Each round of dependenciesOrder takes a project, so the loop ends after   *)
(* at most as many rounds as there are projects.                             *)
THEOREM OrderingNeverSpins == Spec => []RoundProgresses
<1>1. IInv => RoundProgresses
  <2> SUFFICES ASSUME IInv, Unordered # {} PROVE \E p \in Unordered : Waits(p) = {}
    BY DEF RoundProgresses
  <2>1. Unordered \in SUBSET Project BY DEF IInv, TypeOK, Unordered
  <2>2. PICK p \in Unordered : deps[p] \cap Unordered = {}
    BY <2>1 DEF IInv, DependenciesBuildable, OrderableOver, Acyclic
  <2>3. deps[p] \subseteq projects BY <2>1 DEF IInv, DependenciesBuildable, OrderableOver
  <2>4. Waits(p) = {} BY <2>2, <2>3 DEF Waits, Unordered
  <2> QED BY <2>4
<1> QED BY <1>1, Invariance, PTL

(* With a project open there is always an active project.                    *)
THEOREM AlwaysAnActiveProject == Spec => []StartupIsOpen
<1>1. IInv => StartupIsOpen BY DEF IInv
<1> QED BY <1>1, Invariance, PTL

(* No sequence of switches, saves, clones, renames, failed loads and         *)
(* restarts loses a project the user has put into a session.                 *)
THEOREM ProjectsAreKept == Spec => [](NothingLost /\ UnsavedIsEmpty)
<1>1. IInv => NothingLost /\ UnsavedIsEmpty BY DEF IInv
<1> QED BY <1>1, Invariance, PTL
=============================================================================
