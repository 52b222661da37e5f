--------------------------- MODULE DependencyProofs ---------------------------
(* Proofs about DependencyTable, for every finite set of files.             *)
EXTENDS DependencyTable, FiniteSetTheorems, TLAPS

(* Within a sweep that has set nothing yet, the rows it has passed already  *)
(* have the bits of the rows they include; that is what the loop's exit      *)
(* turns into RowsAreClosed.                                                 *)
Passed ==
  pc = "sweeping" /\ ~changed =>
    \A i \in DOMAIN files : i < next =>
      \A g \in includes[files[i]] : includeMap[g] \subseteq includeMap[files[i]]

DirectBitsSet == Built => \A f \in File : includes[f] \subseteq includeMap[f]

(* While a table is kept the snapshot only loses documents.                  *)
RowsCoverSnapshot ==
  Built => /\ documents \subseteq Rows
           /\ \A f \in documents : includedFiles[f] \cap documents \subseteq includes[f]

LoopNeedsRows == pc = "sweeping" => Built

IInv == /\ TypeOK /\ Passed /\ DirectBitsSet /\ RowsCoverSnapshot /\ LoopNeedsRows
        /\ RowsAreClosed /\ RowsAreLeast

(* A hash has finitely many keys, so an order of them is a row each.         *)
LEMMA OrdersOfDocuments ==
  ASSUME NEW S \in SUBSET File, NEW o \in Orders(S)
  PROVE  /\ \E n \in 0..Cardinality(File) : o \in [1..n -> File] /\ DOMAIN o = 1..n
         /\ {o[i] : i \in DOMAIN o} = S
         /\ S # {} => o # NoRows /\ o[1] \in S
<1>1. IsFiniteSet(S) /\ Cardinality(S) <= Cardinality(File)
  BY FileAssumption, FS_Subset
<1>2. Cardinality(S) \in Nat /\ Cardinality(File) \in Nat
  BY <1>1, FileAssumption, FS_CardinalityType
<1>3. o \in [1..Cardinality(S) -> S] /\ \A f \in S : \E i \in DOMAIN o : o[i] = f
  BY DEF Orders
<1>4. o \in [1..Cardinality(S) -> File] /\ DOMAIN o = 1..Cardinality(S)
  BY <1>3
<1>5. Cardinality(S) \in 0..Cardinality(File)
  BY <1>1, <1>2
<1>6. {o[i] : i \in DOMAIN o} = S
  BY <1>3
<1>7. ASSUME S # {} PROVE o # NoRows /\ o[1] \in S
  <2>1. PICK f \in S : TRUE
    BY <1>7
  <2>2. PICK i \in DOMAIN o : o[i] = f
    BY <1>3
  <2>3. 1 \in DOMAIN o
    BY <2>2, <1>4, <1>2
  <2>4. DOMAIN NoRows = {}
    BY DEF NoRows
  <2> QED BY <2>3, <2>4, <1>3
<1> QED BY <1>4, <1>5, <1>6, <1>7

(* No table is built in the initial state.                                  *)
LEMMA InitHolds == Init => IInv
<1> SUFFICES ASSUME Init PROVE IInv
  OBVIOUS
<1>1. ~Built /\ pc = "ready"
  BY DEF Init, Built
<1>2. Cardinality(File) \in Nat
  BY FileAssumption, FS_CardinalityType
<1>3. files \in [1..0 -> File]
  BY DEF Init, NoRows
<1>4. \E n \in 0..Cardinality(File) : files \in [1..n -> File]
  BY <1>2, <1>3
<1>5. TypeOK
  <2>1. pc \in {"ready", "sweeping"} /\ next \in Nat \ {0}
    BY DEF Init
  <2>2. changed \in BOOLEAN
    BY DEF Init
  <2>3. /\ documents \subseteq File /\ includedFiles \in [File -> SUBSET File]
        /\ includes \in [File -> SUBSET File] /\ includeMap \in [File -> SUBSET File]
    BY DEF Init, Empty
  <2> QED BY <1>1, <1>4, <2>1, <2>2, <2>3 DEF TypeOK
<1> QED
  BY <1>1, <1>5 DEF IInv, Passed, DirectBitsSet, RowsCoverSnapshot, LoopNeedsRows,
                    RowsAreClosed, RowsAreLeast, Answers

(* Dropping the table leaves nothing to be right about.                      *)
LEMMA InsertPreserves ==
  ASSUME IInv, NEW f \in File, NEW incs \in SUBSET File, Insert(f, incs)
  PROVE  IInv'
<1>1. ~Built' /\ pc' = "ready"
  BY DEF Insert, Invalidated, Built, loop, NoRows
<1>2. Cardinality(File) \in Nat
  BY FileAssumption, FS_CardinalityType
<1>3. files' \in [1..0 -> File]
  BY DEF Insert, Invalidated, NoRows
<1>4. \E n \in 0..Cardinality(File) : files' \in [1..n -> File]
  BY <1>2, <1>3
<1>5. TypeOK'
  BY <1>1, <1>4 DEF IInv, Insert, loop, TypeOK
<1> QED
  BY <1>1, <1>5 DEF IInv, Passed, DirectBitsSet, RowsCoverSnapshot, LoopNeedsRows,
                    RowsAreClosed, RowsAreLeast, Answers

(* Removing a document takes nothing from the table, which may then name    *)
(* more files than the snapshot.                                             *)
LEMMA RemovePreserves ==
  ASSUME IInv, NEW f \in File, Remove(f)
  PROVE  IInv'
<1>1. UNCHANGED <<table, loop>> /\ Built' = Built /\ Rows' = Rows /\ Answers' = Answers
  BY DEF Remove, table, loop, Built, Rows, Answers
<1>2. documents' = documents \ {f} /\ \A g \in File : includedFiles'[g] \subseteq includedFiles[g]
  BY DEF Remove, IInv, TypeOK
<1>3. TypeOK'
  BY <1>1 DEF Remove, IInv, TypeOK, table, loop
<1>4. RowsCoverSnapshot'
  BY <1>1, <1>2 DEF IInv, TypeOK, RowsCoverSnapshot, table
<1> QED
  BY <1>1, <1>3, <1>4 DEF IInv, Passed, DirectBitsSet, LoopNeedsRows, RowsAreClosed,
                          RowsAreLeast, table, loop

(* Every index is one of a row, and a known file has its own.                *)
LEMMA BuildPreserves ==
  ASSUME IInv, Build
  PROVE  IInv'
<1>1. PICK order \in Orders(documents) : /\ files' = order
                                         /\ includes' = [f \in File |-> Direct(order, f)]
  BY DEF Build
<1>2. /\ documents \in SUBSET File /\ documents # {}
      /\ includedFiles \in [File -> SUBSET File]
  BY DEF IInv, TypeOK, Build
<1>3. /\ \E n \in 0..Cardinality(File) : files' \in [1..n -> File]
      /\ Built' /\ Rows' = documents /\ order[1] \in documents
  BY <1>1, <1>2, OrdersOfDocuments DEF Built, Rows
<1>4. \A f \in File : includes'[f] \subseteq documents
  BY <1>1, <1>2, <1>3 DEF Direct, Index
<1>5. /\ includeMap' = includes' /\ UNCHANGED snapshot
      /\ pc' = "sweeping" /\ next' = 1 /\ changed' = FALSE
  BY DEF Build, Cleared
<1>6. includes' \in [File -> SUBSET File]
  BY <1>1, <1>2, <1>4
<1>7. TypeOK'
  <2>1. /\ documents' \subseteq File /\ includedFiles' \in [File -> SUBSET File]
        /\ includeMap' \in [File -> SUBSET File]
    BY <1>2, <1>5, <1>6 DEF snapshot
  <2>2. pc' \in {"ready", "sweeping"} /\ next' \in Nat \ {0}
    BY <1>5
  <2>3. changed' \in BOOLEAN
    BY <1>5
  <2>4. \A f \in File : includes'[f] \cup includeMap'[f] \subseteq Rows'
    BY <1>3, <1>4, <1>5
  <2> QED BY <1>3, <1>6, <2>1, <2>2, <2>3, <2>4 DEF TypeOK
<1>8. Passed'
  <2> SUFFICES ASSUME NEW i \in DOMAIN files', i < 1 PROVE FALSE
    BY <1>5 DEF Passed
  <2> QED BY <1>3
<1>9. RowsCoverSnapshot'
  <2>1. ASSUME NEW f \in documents PROVE includedFiles[f] \cap documents \subseteq includes'[f]
    BY <1>1, <1>2 DEF Direct, Index
  <2> QED BY <1>3, <1>5, <2>1 DEF RowsCoverSnapshot, snapshot
<1>10. DirectBitsSet' /\ LoopNeedsRows' /\ RowsAreClosed' /\ RowsAreLeast'
  BY <1>3, <1>5 DEF DirectBitsSet, LoopNeedsRows, RowsAreClosed, RowsAreLeast, Answers
<1> QED BY <1>7, <1>8, <1>9, <1>10 DEF IInv

(* A row gets the bits of the rows it includes, and no others.               *)
LEMMA SweepRowPreserves ==
  ASSUME IInv, SweepRow
  PROVE  IInv'
<1> DEFINE f == files[next]
<1>1. f \in File /\ f \in Rows
  BY DEF IInv, TypeOK, SweepRow, Rows
<1>2. /\ includeMap' = [includeMap EXCEPT ![f] = Widened(f)]
      /\ changed' = (changed \/ Widened(f) # includeMap[f])
      /\ next' = next + 1
      /\ UNCHANGED <<snapshot, files, includes, pc>>
      /\ pc = "sweeping" /\ Built
  BY DEF SweepRow, AnyRow, IInv, LoopNeedsRows
<1>3. /\ includes \in [File -> SUBSET File] /\ includeMap \in [File -> SUBSET File]
      /\ \A g \in File : includes[g] \cup includeMap[g] \subseteq Rows
      /\ Rows \subseteq File
  BY <1>2 DEF IInv, TypeOK, Rows
<1>4. Widened(f) \subseteq Rows /\ includeMap[f] \subseteq Widened(f)
  BY <1>1, <1>3 DEF Widened
<1>5. /\ includeMap' \in [File -> SUBSET File] /\ includeMap'[f] = Widened(f)
      /\ \A g \in File : g # f => includeMap'[g] = includeMap[g]
      /\ \A g \in File : includeMap[g] \subseteq includeMap'[g] /\ includeMap'[g] \subseteq Rows
  BY <1>1, <1>2, <1>3, <1>4
<1>6. Rows' = Rows /\ Built' = Built
  BY <1>2 DEF Rows, Built
<1>7. TypeOK'
  <2>1. next' \in Nat \ {0} /\ changed' \in BOOLEAN
    BY <1>2 DEF IInv, TypeOK
  <2>2. Built' => \A g \in File : includes'[g] \cup includeMap'[g] \subseteq Rows'
    BY <1>2, <1>3, <1>5, <1>6
  <2> QED BY <1>2, <1>5, <2>1, <2>2 DEF IInv, TypeOK, snapshot
<1>8. Passed'
  <2> SUFFICES ASSUME ~changed', NEW i \in DOMAIN files, i < next + 1, NEW g \in includes[files[i]]
               PROVE  includeMap'[g] \subseteq includeMap'[files[i]]
    BY <1>2 DEF Passed
  <2>1. ~changed /\ Widened(f) = includeMap[f]
    BY <1>2 DEF IInv, TypeOK
  <2>2. includeMap' = includeMap
    BY <1>1, <1>2, <1>3, <2>1
  <2>3. CASE i = next
    BY <2>1, <2>2, <2>3 DEF Widened
  <2>4. CASE i # next
    <3>1. i < next
      BY <2>4 DEF IInv, TypeOK
    <3> QED BY <1>2, <2>1, <2>2, <3>1 DEF IInv, Passed
  <2> QED BY <2>3, <2>4
<1>9. DirectBitsSet'
  BY <1>2, <1>5, <1>6 DEF IInv, DirectBitsSet
<1>10. RowsCoverSnapshot'
  BY <1>2, <1>6 DEF IInv, RowsCoverSnapshot, snapshot
<1>11. LoopNeedsRows' /\ RowsAreClosed'
  BY <1>2, <1>6 DEF LoopNeedsRows, RowsAreClosed, Answers
<1>12. RowsAreLeast'
  <2> SUFFICES ASSUME NEW h \in Rows, NEW S \in SUBSET File,
                      includes[h] \subseteq S, \A g \in S : includes[g] \subseteq S
               PROVE  includeMap'[h] \subseteq S
    BY <1>2, <1>6 DEF RowsAreLeast
  <2>1. includeMap[h] \subseteq S
    BY <1>2 DEF IInv, RowsAreLeast
  <2>2. CASE h # f
    BY <1>3, <1>5, <2>1, <2>2
  <2>3. CASE h = f
    <3>1. \A g \in includes[f] : g \in Rows /\ includes[g] \subseteq S
      BY <1>1, <1>3, <2>3
    <3>2. \A g \in includes[f] : includeMap[g] \subseteq S
      BY <1>2, <3>1 DEF IInv, RowsAreLeast
    <3> QED BY <1>5, <2>1, <2>3, <3>2 DEF Widened
  <2> QED BY <2>2, <2>3
<1> QED BY <1>7, <1>8, <1>9, <1>10, <1>11, <1>12 DEF IInv

(* A sweep that set something is followed by another. *)
LEMMA SweepAgainPreserves ==
  ASSUME IInv, SweepAgain
  PROVE  IInv'
<1>1. /\ UNCHANGED <<snapshot, table, pc>> /\ next' = 1 /\ changed' = FALSE
      /\ Built' = Built /\ Rows' = Rows /\ Answers' = Answers
  BY DEF SweepAgain, NotChanged, table, Built, Rows, Answers
<1>2. TypeOK'
  <2>1. next' \in Nat \ {0}
    BY <1>1
  <2>2. changed' \in BOOLEAN
    BY <1>1
  <2> QED BY <1>1, <2>1, <2>2 DEF IInv, TypeOK, snapshot, table
<1>3. Passed'
  <2> SUFFICES ASSUME NEW i \in DOMAIN files, i < 1 PROVE FALSE
    BY <1>1 DEF Passed, table
  <2> QED BY DEF IInv, TypeOK
<1> QED
  BY <1>1, <1>2, <1>3 DEF IInv, DirectBitsSet, RowsCoverSnapshot, LoopNeedsRows,
                          RowsAreClosed, RowsAreLeast, snapshot, table

(* The loop is left after a sweep that has passed every row.                 *)
LEMMA SweepDonePreserves ==
  ASSUME IInv, SweepDone
  PROVE  IInv'
<1>1. /\ UNCHANGED <<snapshot, table, next, changed>> /\ pc' = "ready"
      /\ Built' = Built /\ Rows' = Rows
      /\ pc = "sweeping" /\ next \notin DOMAIN files /\ ~changed /\ Built
  BY DEF SweepDone, table, Built, Rows, IInv, LoopNeedsRows
<1>2. TypeOK'
  BY <1>1 DEF IInv, TypeOK, snapshot, table
<1>3. PICK n \in Nat : files \in [1..n -> File]
  BY FileAssumption, FS_CardinalityType DEF IInv, TypeOK
<1>4. \A i \in DOMAIN files : i < next
  BY <1>1, <1>3 DEF IInv, TypeOK
<1>5. ASSUME NEW f \in Rows, NEW g \in includes[f]
      PROVE  g \in includeMap[f] /\ includeMap[g] \subseteq includeMap[f]
  <2>1. PICK i \in DOMAIN files : files[i] = f
    BY DEF Rows
  <2>2. f \in File
    BY <1>3, <2>1
  <2>3. includeMap[g] \subseteq includeMap[f]
    BY <1>1, <1>4, <2>1 DEF IInv, Passed
  <2> QED BY <1>1, <2>2, <2>3 DEF IInv, DirectBitsSet
<1>6. RowsAreClosed'
  BY <1>1, <1>5 DEF RowsAreClosed, table
<1> QED
  BY <1>1, <1>2, <1>6 DEF IInv, Passed, DirectBitsSet, RowsCoverSnapshot, LoopNeedsRows,
                          RowsAreLeast, snapshot, table

(* The inductive invariant of the table holds throughout.                   *)
THEOREM Invariance == Spec => []IInv
<1>1. Init => IInv
  BY InitHolds
<1>2. IInv /\ [Next]_vars => IInv'
  <2> SUFFICES ASSUME IInv, [Next]_vars PROVE IInv'
    OBVIOUS
  <2>1. CASE \E f \in File, incs \in SUBSET File : Insert(f, incs)
    BY <2>1, InsertPreserves
  <2>2. CASE \E f \in File : Remove(f)
    BY <2>2, RemovePreserves
  <2>3. CASE Build
    BY <2>3, BuildPreserves
  <2>4. CASE SweepRow
    BY <2>4, SweepRowPreserves
  <2>5. CASE SweepAgain
    BY <2>5, SweepAgainPreserves
  <2>6. CASE SweepDone
    BY <2>6, SweepDonePreserves
  <2>7. CASE UNCHANGED vars
    BY <2>7 DEF IInv, TypeOK, Passed, DirectBitsSet, RowsCoverSnapshot, LoopNeedsRows,
                RowsAreClosed, RowsAreLeast, Answers, Built, Rows, vars, snapshot, table, loop
  <2> QED BY <2>1, <2>2, <2>3, <2>4, <2>5, <2>6, <2>7 DEF Next, Sweep
<1> QED BY <1>1, <1>2, PTL DEF Spec

(* Every bit the table ever sets is one of a row.                            *)
THEOREM TypeCorrect == Spec => []TypeOK
<1>1. IInv => TypeOK
  BY DEF IInv
<1> QED BY <1>1, Invariance, PTL

(* No include is missed: when DependencyTable::build leaves its loop the     *)
(* rows are closed, for every snapshot and every order of the rows.          *)
THEOREM TableIsComplete == Spec => []RowsAreClosed
<1>1. IInv => RowsAreClosed
  BY DEF IInv
<1> QED BY <1>1, Invariance, PTL

(* And none is made up: no bit is ever set that closure does not need, so    *)
(* the table is exactly what the direct includes reach.                      *)
THEOREM TableIsReachability == Spec => []RowsAreLeast
<1>1. IInv => RowsAreLeast
  BY DEF IInv
<1> QED BY <1>1, Invariance, PTL

(* Whatever was inserted and removed since the table was built, an access    *)
(* misses no document that depends on a document.                            *)
THEOREM DependentsAreFound == Spec => []NoDependentMissed
<1>1. IInv => NoDependentMissed
  <2> SUFFICES ASSUME IInv, Answers, NEW g \in documents, NEW f \in documents,
                      NEW h \in includedFiles[f] \cap documents,
                      h \in {g} \cup FilesDependingOn(g)
               PROVE  f \in FilesDependingOn(g)
    BY DEF NoDependentMissed
  <2>1. documents \subseteq Rows /\ h \in includes[f]
    BY DEF IInv, RowsCoverSnapshot, Answers
  <2>2. h \in includeMap[f] /\ includeMap[h] \subseteq includeMap[f]
    BY <2>1 DEF IInv, RowsAreClosed
  <2>3. g \in includeMap[f]
    BY <2>1, <2>2 DEF FilesDependingOn
  <2> QED BY <2>1, <2>3 DEF FilesDependingOn
<1> QED BY <1>1, Invariance, PTL
=============================================================================
