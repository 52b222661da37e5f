--------------------------- MODULE DependencyTable ---------------------------
(***************************************************************************)
(* Which file depends on which: a snapshot of the code model               *)
(* (cplusplus/CppDocument.cpp) and the table it caches                     *)
(* (cplusplus/DependencyTable.cpp), which the builder asks for newer       *)
(* headers and the editor for the files to parse again.                    *)
(*                                                                         *)
(* A row of the table is named by its file.  `files` holds the order of    *)
(* the rows, which is the arbitrary order of a hash, and an empty `files`  *)
(* means that the next access builds the table.  One step of a sweep is    *)
(* one row, for the rows are changed in place.                             *)
(***************************************************************************)
EXTENDS Naturals, FiniteSets

CONSTANT File

ASSUME FileAssumption == IsFiniteSet(File)

VARIABLES
  documents,       (* the files of the snapshot                             *)
  includedFiles,   (* [File -> SUBSET File]: the includes of each document  *)
  files,           (* the rows, in their order                              *)
  includes,        (* the direct includes of each row                       *)
  includeMap,      (* the bits of each row                                  *)
  pc,              (* "ready", or "sweeping" in the do loop of build        *)
  next,            (* the loop's index                                      *)
  changed          (* of the sweep                                          *)

snapshot == <<documents, includedFiles>>
table    == <<files, includes, includeMap>>
loop     == <<pc, next, changed>>
vars     == <<snapshot, table, loop>>

Empty == [f \in File |-> {}]
NoRows == [i \in 1..0 |-> {}]

(* A row needs two positions only if a hash held a key twice.              *)
Orders(S) == {o \in [1..Cardinality(S) -> S] : \A f \in S : \E i \in DOMAIN o : o[i] = f}

Rows == {files[i] : i \in DOMAIN files}
Built == files # NoRows

Init ==
  /\ documents = {} /\ includedFiles = Empty
  /\ files = NoRows /\ includes = Empty /\ includeMap = Empty
  /\ pc = "ready" /\ next = 1 /\ changed = FALSE

-----------------------------------------------------------------------------
(* Snapshot::insert: a new document, or a new parse of a known one.         *)
KeepsTable == files
Invalidated == NoRows

Insert(f, incs) ==
  /\ pc = "ready"
  /\ documents' = documents \cup {f}
  /\ includedFiles' = [includedFiles EXCEPT ![f] = incs]
  /\ files' = Invalidated
  /\ UNCHANGED <<includes, includeMap, loop>>

(* Snapshot::remove: the table is not told.                                 *)
Remove(f) ==
  /\ pc = "ready" /\ f \in documents
  /\ documents' = documents \ {f}
  /\ includedFiles' = [includedFiles EXCEPT ![f] = {}]
  /\ UNCHANGED <<table, loop>>

(* updateDependencyTable on an empty table: the rows of build.  A file that *)
(* is not in the snapshot has no index; value() answers 0, the first row.   *)
NoIndex(order, g) == g
Index(order, g) == IF g \in documents THEN g ELSE order[1]

Direct(order, f) ==
  IF f \in documents THEN {Index(order, g) : g \in includedFiles[f]} ELSE {}

NotCleared(rows) == [f \in File |-> includeMap[f] \cup rows[f]]
Cleared(rows) == rows

Build ==
  /\ pc = "ready" /\ ~Built /\ documents # {}
  /\ \E order \in Orders(documents) :
       /\ files' = order
       /\ includes' = [f \in File |-> Direct(order, f)]
  /\ includeMap' = Cleared(includes')
  /\ pc' = "sweeping" /\ next' = 1 /\ changed' = FALSE
  /\ UNCHANGED snapshot

Widened(f) == includeMap[f] \cup UNION {includeMap[g] : g \in includes[f]}

AnyRow(f) == changed \/ Widened(f) # includeMap[f]

SweepRow ==
  /\ pc = "sweeping" /\ next \in DOMAIN files
  /\ LET f == files[next]
     IN  /\ includeMap' = [includeMap EXCEPT ![f] = Widened(f)]
         /\ changed' = AnyRow(f)
  /\ next' = next + 1
  /\ UNCHANGED <<snapshot, files, includes, pc>>

KeepsChanged == changed
NotChanged == FALSE

SweepAgain ==
  /\ pc = "sweeping" /\ next \notin DOMAIN files /\ changed
  /\ next' = 1 /\ changed' = NotChanged
  /\ UNCHANGED <<snapshot, table, pc>>

SweepDone ==
  /\ pc = "sweeping" /\ next \notin DOMAIN files /\ ~changed
  /\ pc' = "ready"
  /\ UNCHANGED <<snapshot, table, next, changed>>

Sweep == SweepRow \/ SweepAgain \/ SweepDone

Next ==
  \/ \E f \in File, incs \in SUBSET File : Insert(f, incs)
  \/ \E f \in File : Remove(f)
  \/ Build
  \/ Sweep

Spec == Init /\ [][Next]_vars
FairSpec == Spec /\ WF_vars(Sweep)

(* What an access to the table returns.                                     *)
Answers == pc = "ready" /\ Built
FilesDependingOn(g) == IF g \in Rows THEN {f \in Rows : g \in includeMap[f]} ELSE {}

-----------------------------------------------------------------------------
(* What each variable holds.  Every index, and so every bit that is set,   *)
(* is one of a row.                                                         *)
TypeOK ==
  /\ documents \subseteq File
  /\ includedFiles \in [File -> SUBSET File]
  /\ \E n \in 0..Cardinality(File) : files \in [1..n -> File]
  /\ includes \in [File -> SUBSET File]
  /\ includeMap \in [File -> SUBSET File]
  /\ pc \in {"ready", "sweeping"}
  /\ next \in Nat \ {0}
  /\ changed \in BOOLEAN
  /\ Built => \A f \in File : includes[f] \cup includeMap[f] \subseteq Rows

(* The loop leaves no row behind: a row has the bits of all the rows it      *)
(* includes, although a sweep changes rows that others have read already    *)
(* and only `changed` remembers it.                                          *)
RowsAreClosed ==
  Answers => \A f \in Rows : \A g \in includes[f] :
                g \in includeMap[f] /\ includeMap[g] \subseteq includeMap[f]

(* The loop sets no bit too many: the bits of a row are in every set that    *)
(* holds the row's includes and the includes of its members.  With           *)
(* RowsAreClosed, a row is exactly what the direct includes reach.           *)
RowsAreLeast ==
  Built => \A f \in Rows, S \in SUBSET File :
             (/\ includes[f] \subseteq S
              /\ \A g \in S : includes[g] \subseteq S)  =>  includeMap[f] \subseteq S

(* No dependent is missed, however the snapshot was changed between two      *)
(* accesses: a document that includes g, or includes a document that         *)
(* depends on g, is among the files that depend on g.  Without it a build    *)
(* takes an object file for up to date that is not.                          *)
NoDependentMissed ==
  Answers => \A g \in documents, f \in documents :
    includedFiles[f] \cap documents \cap ({g} \cup FilesDependingOn(g)) # {}
      => f \in FilesDependingOn(g)

(* The loop ends: bits are only set.                                         *)
SweepEnds == pc = "sweeping" ~> pc = "ready"
=============================================================================
