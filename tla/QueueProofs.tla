----------------------------- MODULE QueueProofs -----------------------------
(* Proofs about BuildQueue and RunAfterBuild, for all steps, projects and    *)
(* step lists: first the counters, which hold whatever the steps are; then   *)
(* removal and the delayed run, for steps that run in the GUI thread.        *)
EXTENDS RunAfterBuild, FiniteSetTheorems, SequenceTheorems, TLAPS

(* The counters speak of the entries as a sequence, and every path of the    *)
(* code takes entries off its front or puts some at its end.  So the lemmas  *)
(* are about concatenation: the three counts of a queue are sums.            *)
ShiftedBy(m, T) == {m + j : j \in T}

(* A set of positions and one moved behind it are disjoint.                 *)
LEMMA SizeOfUnionWithShifted ==
  ASSUME NEW m \in Nat, NEW n \in Nat,
         NEW S \in SUBSET (1..m), NEW T \in SUBSET (1..n)
  PROVE  /\ Cardinality(S) \in Nat /\ Cardinality(T) \in Nat
         /\ Cardinality(S \cup ShiftedBy(m, T)) = Cardinality(S) + Cardinality(T)
<1>1. IsFiniteSet(1..m) /\ IsFiniteSet(1..n)
  BY FS_Interval
<1>2. IsFiniteSet(S) /\ IsFiniteSet(T)
  BY <1>1, FS_Subset
<1>3. Cardinality(S) \in Nat /\ Cardinality(T) \in Nat
  BY <1>2, FS_CardinalityType
<1> DEFINE U == ShiftedBy(m, T)
           shift == [j \in T |-> m + j]
<1>4. ExistsBijection(T, U)
  <2>1. shift \in [T -> U]
    BY DEF ShiftedBy
  <2>2. \A i, j \in T : shift[i] = shift[j] => i = j
    OBVIOUS
  <2>3. \A u \in U : \E j \in T : shift[j] = u
    BY DEF ShiftedBy
  <2>4. shift \in Bijection(T, U)
    BY <2>1, <2>2, <2>3 DEF Bijection, Injection, IsInjective, Surjection
  <2> QED BY <2>4 DEF ExistsBijection
<1>5. IsFiniteSet(U) /\ Cardinality(U) = Cardinality(T)
  BY <1>2, <1>4, FS_Bijection
<1>6. S \cap U = {}
  BY DEF ShiftedBy
<1>7. Cardinality(S \cap U) = 0
  BY <1>6, FS_EmptySet
<1>8. Cardinality(S \cup U) = Cardinality(S) + Cardinality(U) - Cardinality(S \cap U)
  BY <1>2, <1>5, FS_Union
<1> QED BY <1>3, <1>5, <1>7, <1>8

(* What is counted of a concatenation is what is counted of its parts.       *)
LEMMA CountsOfConcatenation ==
  ASSUME NEW a \in Seq(Entry), NEW c \in Seq(Entry)
  PROVE  /\ \A p : /\ Cardinality(Of(a, p)) \in Nat /\ Cardinality(Of(c, p)) \in Nat
                   /\ Cardinality(Of(a \o c, p))
                        = Cardinality(Of(a, p)) + Cardinality(Of(c, p))
         /\ EnabledOf(a) \in Nat /\ EnabledOf(c) \in Nat
         /\ EnabledOf(a \o c) = EnabledOf(a) + EnabledOf(c)
<1>1. Len(a) \in Nat /\ Len(c) \in Nat /\ Len(a \o c) = Len(a) + Len(c)
  BY ConcatProperties
<1>2. \A i \in 1..(Len(a) + Len(c)) :
        (a \o c)[i] = IF i <= Len(a) THEN a[i] ELSE c[i - Len(a)]
  BY ConcatProperties
<1>3. /\ \A i \in 1..Len(a) : i \in 1..Len(a \o c) /\ (a \o c)[i] = a[i]
      /\ \A j \in 1..Len(c) : Len(a) + j \in 1..Len(a \o c) /\ (a \o c)[Len(a) + j] = c[j]
  BY <1>1, <1>2
<1>4. \A i \in 1..Len(a \o c) : i \in 1..Len(a) \/ \E j \in 1..Len(c) : i = Len(a) + j
  <2> SUFFICES ASSUME NEW i \in 1..Len(a \o c), i \notin 1..Len(a)
               PROVE  \E j \in 1..Len(c) : i = Len(a) + j
    OBVIOUS
  <2>1. i - Len(a) \in 1..Len(c) /\ i = Len(a) + (i - Len(a))
    BY <1>1
  <2> QED BY <2>1
<1>5. ASSUME NEW p
      PROVE  /\ Cardinality(Of(a, p)) \in Nat /\ Cardinality(Of(c, p)) \in Nat
             /\ Cardinality(Of(a \o c, p)) = Cardinality(Of(a, p)) + Cardinality(Of(c, p))
  <2>1. Of(a \o c, p) = Of(a, p) \cup ShiftedBy(Len(a), Of(c, p))
    <3>1. \A i \in Of(a \o c, p) :
            i \in Of(a, p) \/ \E j \in Of(c, p) : i = Len(a) + j
      BY <1>3, <1>4 DEF Of
    <3>2. \A i \in Of(a, p) : i \in Of(a \o c, p)
      BY <1>3 DEF Of
    <3>3. \A j \in Of(c, p) : Len(a) + j \in Of(a \o c, p)
      BY <1>3 DEF Of
    <3> QED BY <3>1, <3>2, <3>3 DEF ShiftedBy
  <2>2. Of(a, p) \in SUBSET (1..Len(a)) /\ Of(c, p) \in SUBSET (1..Len(c))
    BY DEF Of
  <2> DEFINE A == Of(a, p)
             C == Of(c, p)
  <2> HIDE DEF A, C
  <2>3. A \in SUBSET (1..Len(a)) /\ C \in SUBSET (1..Len(c))
    BY <2>2 DEF A, C
  <2>4. /\ Cardinality(A) \in Nat /\ Cardinality(C) \in Nat
        /\ Cardinality(A \cup ShiftedBy(Len(a), C)) = Cardinality(A) + Cardinality(C)
    BY <1>1, <2>3, SizeOfUnionWithShifted
  <2> QED BY <2>1, <2>4 DEF A, C
<1>6. /\ EnabledOf(a) \in Nat /\ EnabledOf(c) \in Nat
      /\ EnabledOf(a \o c) = EnabledOf(a) + EnabledOf(c)
  <2> DEFINE A == {i \in 1..Len(a) : a[i].enabled}
             C == {i \in 1..Len(c) : c[i].enabled}
             AC == {i \in 1..Len(a \o c) : (a \o c)[i].enabled}
  <2>1. AC = A \cup ShiftedBy(Len(a), C)
    <3>1. \A i \in AC : i \in A \/ \E j \in C : i = Len(a) + j
      BY <1>3, <1>4
    <3>2. \A i \in A : i \in AC
      BY <1>3
    <3>3. \A j \in C : Len(a) + j \in AC
      BY <1>3
    <3> HIDE DEF A, C, AC
    <3> QED BY <3>1, <3>2, <3>3 DEF ShiftedBy
  <2>2. A \in SUBSET (1..Len(a)) /\ C \in SUBSET (1..Len(c))
    OBVIOUS
  <2>3. /\ Cardinality(A) \in Nat /\ Cardinality(C) \in Nat
        /\ Cardinality(AC) = Cardinality(A) + Cardinality(C)
    <3> HIDE DEF A, C, AC
    <3> QED BY <1>1, <2>1, <2>2, SizeOfUnionWithShifted
  <2> QED BY <2>3 DEF EnabledOf
<1> QED BY <1>5, <1>6

(* The steps and the requests of a concatenation.                           *)
LEMMA MembersOfConcatenation ==
  ASSUME NEW a \in Seq(Entry), NEW c \in Seq(Entry)
  PROVE  /\ Steps(a \o c) = Steps(a) \cup Steps(c)
         /\ Reqs(a \o c) = Reqs(a) \cup Reqs(c)
<1>1. Len(a) \in Nat /\ Len(c) \in Nat /\ Len(a \o c) = Len(a) + Len(c)
  BY ConcatProperties
<1>2. \A i \in 1..(Len(a) + Len(c)) :
        (a \o c)[i] = IF i <= Len(a) THEN a[i] ELSE c[i - Len(a)]
  BY ConcatProperties
<1>3. /\ \A i \in 1..Len(a) : i \in 1..Len(a \o c) /\ (a \o c)[i] = a[i]
      /\ \A j \in 1..Len(c) : Len(a) + j \in 1..Len(a \o c) /\ (a \o c)[Len(a) + j] = c[j]
  BY <1>1, <1>2
<1>4. \A i \in 1..Len(a \o c) :
        \/ i \in 1..Len(a) /\ (a \o c)[i] = a[i]
        \/ i - Len(a) \in 1..Len(c) /\ (a \o c)[i] = c[i - Len(a)]
  BY <1>1, <1>2
<1>5. Steps(a) \subseteq Steps(a \o c) /\ Steps(c) \subseteq Steps(a \o c)
  BY <1>3 DEF Steps
<1>6. Steps(a \o c) \subseteq Steps(a) \cup Steps(c)
  BY <1>4 DEF Steps
<1>7. Reqs(a) \subseteq Reqs(a \o c) /\ Reqs(c) \subseteq Reqs(a \o c)
  BY <1>3 DEF Reqs
<1>8. Reqs(a \o c) \subseteq Reqs(a) \cup Reqs(c)
  BY <1>4 DEF Reqs
<1> QED BY <1>5, <1>6, <1>7, <1>8

(* An empty queue has no steps, no requests and counts nothing.             *)
LEMMA CountsOfNothing ==
  /\ <<>> \in Seq(Entry)
  /\ Steps(<<>>) = {} /\ Reqs(<<>>) = {}
  /\ \A p : Cardinality(Of(<<>>, p)) = 0
<1>1. <<>> \in Seq(Entry) /\ Len(<<>>) = 0
  BY EmptySeq
<1>2. 1..0 = {}
  OBVIOUS
<1>3. \A p : Of(<<>>, p) = {}
  BY <1>1, <1>2 DEF Of
<1>4. Steps(<<>>) = {} /\ Reqs(<<>>) = {}
  BY <1>1, <1>2 DEF Steps, Reqs
<1> QED BY <1>1, <1>3, <1>4, FS_EmptySet

(* One enabled entry counts once, disabled ones do not count.                *)
LEMMA CountsOfOne ==
  ASSUME NEW e \in Entry
  PROVE  /\ <<e>> \in Seq(Entry) /\ Len(<<e>>) = 1 /\ <<e>> # <<>> /\ <<e>>[1] = e
         /\ e.enabled => EnabledOf(<<e>>) = 1
<1>1. <<e>> \in Seq(Entry) /\ Len(<<e>>) = 1 /\ <<e>> # <<>> /\ <<e>>[1] = e
  OBVIOUS
<1>2. 1..1 = {1}
  OBVIOUS
<1>3. Cardinality(1..1) = 1
  BY <1>2, FS_Singleton
<1>4. ASSUME e.enabled PROVE {i \in 1..Len(<<e>>) : <<e>>[i].enabled} = 1..1
  BY <1>1, <1>2, <1>4
<1> QED BY <1>1, <1>3, <1>4 DEF EnabledOf

(* Disabled entries are not counted in the maximum.                         *)
LEMMA CountsOfDisabled ==
  ASSUME NEW a \in Seq(Entry), \A i \in 1..Len(a) : ~a[i].enabled
  PROVE  EnabledOf(a) = 0
<1>1. {i \in 1..Len(a) : a[i].enabled} = {}
  OBVIOUS
<1> QED BY <1>1, FS_EmptySet DEF EnabledOf

-----------------------------------------------------------------------------
(* The books: what the slots do to them, whatever they are at the time.      *)
Books == [active : [Project -> Nat], output : [Step -> Nat], done : Nat, max : Nat,
          lost : SUBSET (1..MaxRequests)]

(* The book speaks of exactly the entries e.                                 *)
Tallies(b, e) ==
  /\ \A p \in Project : b.active[p] = Cardinality(Of(e, p))
  /\ \A s \in Step : b.output[s] > 0 => s \in Steps(e)

(* The counters of a well-typed state form a book.                          *)
LEMMA BookIsABook ==
  TypeOK => /\ Book \in Books
            /\ Book.active = active /\ Book.output = output /\ Book.done = progress
            /\ Book.max = maxProgress /\ Book.lost = failed
<1> SUFFICES ASSUME TypeOK PROVE Book \in Books
  BY DEF Book
<1>1. failed \subseteq 1..MaxRequests
  BY BoundAssumption DEF TypeOK
<1> QED BY <1>1 DEF TypeOK, Book, Books

(* Forgetting the entries at the front leaves the book of the rest.         *)
LEMMA ForgetKeepsTally ==
  ASSUME NEW b \in Books, NEW a \in Seq(Entry), NEW c \in Seq(Entry),
         Tallies(b, a \o c)
  PROVE  /\ Forget(b, a) \in Books
         /\ Tallies(Forget(b, a), c)
         /\ Forget(b, a).done = b.done /\ Forget(b, a).max = b.max
         /\ Forget(b, a).lost = b.lost
<1> DEFINE left == [p \in Project |-> b.active[p] - Cardinality(Of(a, p))]
           open == [s \in Step |-> IF s \in Steps(a) THEN 0 ELSE b.output[s]]
<1>1. Forget(b, a) = [b EXCEPT !.active = left, !.output = open]
  BY DEF Forget
<1>2. ASSUME NEW p \in Project
      PROVE  left[p] \in Nat /\ left[p] = Cardinality(Of(c, p))
  <2>1. /\ Cardinality(Of(a, p)) \in Nat /\ Cardinality(Of(c, p)) \in Nat
        /\ Cardinality(Of(a \o c, p)) = Cardinality(Of(a, p)) + Cardinality(Of(c, p))
    BY CountsOfConcatenation
  <2>2. b.active[p] = Cardinality(Of(a \o c, p))
    BY DEF Tallies
  <2> QED BY <2>1, <2>2
<1>3. left \in [Project -> Nat]
  BY <1>2
<1>4. open \in [Step -> Nat]
  BY DEF Books
<1>5. \A s \in Step : open[s] > 0 => s \in Steps(c)
  BY MembersOfConcatenation DEF Tallies
<1> HIDE DEF left, open
<1>6. /\ Forget(b, a) \in Books
      /\ Forget(b, a).active = left /\ Forget(b, a).output = open
      /\ Forget(b, a).done = b.done /\ Forget(b, a).max = b.max
      /\ Forget(b, a).lost = b.lost
  BY <1>1, <1>3, <1>4 DEF Books
<1> QED BY <1>2, <1>5, <1>6 DEF Tallies

(* buildQueueAppend: the new entries are added at the end of the book.      *)
LEMMA RememberKeepsTally ==
  ASSUME NEW b \in Books, NEW e \in Seq(Entry), NEW new \in Seq(Entry),
         Tallies(b, e)
  PROVE  /\ Remember(b, new) \in Books
         /\ Tallies(Remember(b, new), e \o new)
         /\ Remember(b, new).done = b.done
         /\ Remember(b, new).max = b.max + EnabledOf(new)
         /\ Remember(b, new).lost = b.lost
<1> DEFINE uses(s) == {i \in 1..Len(new) : new[i].step = s}
           more == [p \in Project |-> b.active[p] + Cardinality(Of(new, p))]
           open == [s \in Step |-> b.output[s] + Cardinality(uses(s))]
<1>1. Remember(b, new) = [b EXCEPT !.active = more, !.output = open,
                                   !.max = b.max + EnabledOf(new)]
  BY DEF Remember
<1>2. ASSUME NEW p \in Project
      PROVE  more[p] \in Nat /\ more[p] = Cardinality(Of(e \o new, p))
  <2>1. /\ Cardinality(Of(e, p)) \in Nat /\ Cardinality(Of(new, p)) \in Nat
        /\ Cardinality(Of(e \o new, p)) = Cardinality(Of(e, p)) + Cardinality(Of(new, p))
    BY CountsOfConcatenation
  <2>2. b.active[p] = Cardinality(Of(e, p))
    BY DEF Tallies
  <2> QED BY <2>1, <2>2
<1>3. more \in [Project -> Nat]
  BY <1>2
<1>4. ASSUME NEW s \in Step
      PROVE  open[s] \in Nat /\ (open[s] > 0 => s \in Steps(e \o new))
  <2>1. Len(new) \in Nat
    OBVIOUS
  <2>2. IsFiniteSet(1..Len(new)) /\ uses(s) \in SUBSET (1..Len(new))
    BY <2>1, FS_Interval
  <2>3. IsFiniteSet(uses(s))
    <3> HIDE DEF uses
    <3> QED BY <2>2, FS_Subset
  <2>4. Cardinality(uses(s)) \in Nat /\ (Cardinality(uses(s)) = 0 <=> uses(s) = {})
    <3> HIDE DEF uses
    <3> QED BY <2>3, FS_CardinalityType, FS_EmptySet
  <2>5. uses(s) # {} => s \in Steps(new)
    BY DEF Steps
  <2>6. Steps(e \o new) = Steps(e) \cup Steps(new)
    BY MembersOfConcatenation
  <2>7. b.output[s] \in Nat /\ (b.output[s] > 0 => s \in Steps(e))
    BY DEF Books, Tallies
  <2>8. open[s] = b.output[s] + Cardinality(uses(s))
    OBVIOUS
  <2> HIDE DEF uses, open
  <2> QED BY <2>4, <2>5, <2>6, <2>7, <2>8
<1>5. open \in [Step -> Nat]
  BY <1>4
<1>6. b.max + EnabledOf(new) \in Nat
  BY CountsOfConcatenation DEF Books
<1> HIDE DEF more, open
<1>7. /\ Remember(b, new) \in Books
      /\ Remember(b, new).active = more /\ Remember(b, new).output = open
      /\ Remember(b, new).done = b.done
      /\ Remember(b, new).max = b.max + EnabledOf(new)
      /\ Remember(b, new).lost = b.lost
  BY <1>1, <1>3, <1>5, <1>6 DEF Books
<1> QED BY <1>2, <1>4, <1>7 DEF Tallies

(* Losing requests and counting progress leave the tallies alone.           *)
LEMMA LoseAndCountOne ==
  ASSUME NEW b \in Books, NEW e \in Seq(Entry)
  PROVE  /\ Lose(b, e) \in Books /\ CountOne(b) \in Books
         /\ \A f : Tallies(Lose(b, e), f) <=> Tallies(b, f)
         /\ \A f : Tallies(CountOne(b), f) <=> Tallies(b, f)
         /\ Lose(b, e).lost = b.lost \cup Reqs(e)
         /\ Lose(b, e).done = b.done /\ Lose(b, e).max = b.max
         /\ CountOne(b).done = b.done + 1
         /\ CountOne(b).max = b.max /\ CountOne(b).lost = b.lost
<1>1. Reqs(e) \subseteq 1..MaxRequests
  <2>1. \A i \in 1..Len(e) : e[i] \in Entry
    OBVIOUS
  <2> QED BY <2>1 DEF Reqs, Entry
<1>2. /\ Lose(b, e) \in Books /\ Lose(b, e).active = b.active /\ Lose(b, e).output = b.output
      /\ Lose(b, e).lost = b.lost \cup Reqs(e)
      /\ Lose(b, e).done = b.done /\ Lose(b, e).max = b.max
  BY <1>1 DEF Lose, Books
<1>a. b.done + 1 \in Nat
  BY DEF Books
<1>3. /\ CountOne(b) \in Books /\ CountOne(b).active = b.active
      /\ CountOne(b).output = b.output /\ CountOne(b).done = b.done + 1
      /\ CountOne(b).max = b.max /\ CountOne(b).lost = b.lost
  BY <1>a DEF CountOne, Books
<1> QED BY <1>2, <1>3 DEF Tallies

-----------------------------------------------------------------------------
(* The inductive invariant.  Only an enabled step is ever current, which is  *)
(* why its end may count one unit of progress; and the entries come from     *)
(* accepted requests, which is why a new request is none of the failed ones. *)
CurrentIsEnabled == \A i \in 1..Len(current) : current[i].enabled
RequestsKnown == Reqs(current \o queue) \subseteq 1..requests

(* The part that nextStep() and clearBuildQueue() settle.                    *)
QueueTypes ==
  /\ queue \in Seq(Entry)
  /\ current \in Seq(Entry) /\ Len(current) <= 1
  /\ work \in {"none", "running", "ended"}
  /\ posted \in Seq(BOOLEAN)
  /\ active \in [Project -> Nat] /\ output \in [Step -> Nat]
  /\ progress \in Nat /\ maxProgress \in Nat

RunningIsBoolean == running \in BOOLEAN

StepOfRunning ==
  /\ running <=> current # <<>>
  /\ work # "none" <=> current # <<>>
  /\ ~running => queue = <<>>

Consistent ==
  /\ QueueTypes /\ RunningIsBoolean /\ StepOfRunning /\ CurrentIsEnabled
  /\ ActiveCountsExact /\ ProgressExact /\ NoStrayOutput /\ NoStepAfterFailure

Flags == stepOk \in BOOLEAN /\ canceling \in BOOLEAN

History ==
  /\ removing \in Project \cup {NoProject} /\ removed \subseteq Project
  /\ requests \in 0..MaxRequests
  /\ failed \subseteq 1..requests /\ RequestsKnown

QInv == Consistent /\ Flags /\ History /\ (~running => ~canceling)

(* The invariant is the stated properties and what they need.                *)
LEMMA InvariantImplies ==
  QInv => /\ TypeOK /\ RunningHasStep
          /\ ActiveCountsExact /\ ProgressExact /\ NoStrayOutput /\ NoStepAfterFailure
<1> SUFFICES ASSUME QInv PROVE TypeOK /\ RunningHasStep
  BY DEF QInv, Consistent
<1>1. RunningHasStep
  BY DEF QInv, Consistent, StepOfRunning, RunningHasStep
<1>2. stepOk \in BOOLEAN /\ running \in BOOLEAN /\ canceling \in BOOLEAN
  BY DEF QInv, Consistent, RunningIsBoolean, Flags
<1>3. QueueTypes /\ History
  BY DEF QInv, Consistent
<1> QED BY <1>1, <1>2, <1>3 DEF TypeOK, QueueTypes, History

(* The book of an invariant state speaks of what runs and what is queued.    *)
LEMMA BookTallies ==
  Consistent => /\ current \o queue \in Seq(Entry)
                /\ Tallies(Book, current \o queue)
                /\ running => maxProgress = progress + EnabledOf(current \o queue)
                /\ ~running => current = <<>> /\ queue = <<>> /\ maxProgress = 0
<1> SUFFICES ASSUME Consistent
             PROVE  /\ current \o queue \in Seq(Entry)
                    /\ Tallies(Book, current \o queue)
                    /\ running => maxProgress = progress + EnabledOf(current \o queue)
                    /\ ~running => current = <<>> /\ queue = <<>> /\ maxProgress = 0
  OBVIOUS
<1>1. queue \in Seq(Entry) /\ current \in Seq(Entry)
  BY DEF Consistent, QueueTypes
<1>2. current \o queue \in Seq(Entry)
  BY <1>1, ConcatProperties
<1>3. Book.active = active /\ Book.output = output
  BY DEF Book
<1>4. Tallies(Book, current \o queue)
  BY <1>3 DEF Consistent, ActiveCountsExact, NoStrayOutput, Tallies
<1>5. ASSUME running PROVE maxProgress = progress + EnabledOf(current \o queue)
  BY <1>5 DEF Consistent, ProgressExact, EnabledOf
<1>6. ASSUME ~running PROVE current = <<>> /\ queue = <<>> /\ maxProgress = 0
  BY <1>6 DEF Consistent, ProgressExact, StepOfRunning
<1> QED BY <1>2, <1>4, <1>5, <1>6

(* An idle queue with all counters at zero is consistent.                    *)
LEMMA IdleIsConsistent ==
  ASSUME NEW b \in Books, Tallies(b, <<>>),
         Idle, Booked([b EXCEPT !.max = 0]), posted' \in Seq(BOOLEAN)
  PROVE  /\ Consistent' /\ ~running'
         /\ current' \o queue' = <<>> /\ failed' = b.lost /\ current' = <<>>
<1>1. /\ queue' = <<>> /\ current' = <<>> /\ work' = "none" /\ ~running'
      /\ running' \in BOOLEAN
  BY DEF Idle
<1>2. /\ active' = b.active /\ output' = b.output /\ progress' = b.done
      /\ maxProgress' = 0 /\ failed' = b.lost
  BY DEF Booked, Books
<1>3. <<>> \in Seq(Entry) /\ Len(<<>>) = 0
  BY EmptySeq
<1>4. (current \o queue)' = <<>>
  BY <1>1
<1>5. QueueTypes'
  BY <1>1, <1>2, <1>3 DEF QueueTypes, Books
<1>6. RunningIsBoolean' /\ StepOfRunning'
  BY <1>1 DEF RunningIsBoolean, StepOfRunning
<1>7. CurrentIsEnabled'
  BY <1>1, <1>3 DEF CurrentIsEnabled
<1>8. ActiveCountsExact' /\ NoStrayOutput'
  BY <1>2, <1>4 DEF ActiveCountsExact, NoStrayOutput, Tallies
<1>9. ProgressExact'
  BY <1>1, <1>2 DEF ProgressExact
<1>10. NoStepAfterFailure'
  BY <1>4, CountsOfNothing DEF NoStepAfterFailure
<1> QED BY <1>1, <1>2, <1>4, <1>5, <1>6, <1>7, <1>8, <1>9, <1>10 DEF Consistent

(* clearBuildQueue() forgets all the entries and leaves a consistent queue.  *)
LEMMA ClearedIsConsistent ==
  ASSUME NEW b \in Books, NEW e \in Seq(Entry), Tallies(b, e),
         Cleared(b, e), posted \in Seq(BOOLEAN)
  PROVE  /\ Consistent' /\ ~running'
         /\ current' \o queue' = <<>> /\ failed' = b.lost \cup Reqs(e)
         /\ current' = <<>>
<1> DEFINE f == Forget(b, e)
           l == Lose(f, e)
<1>1. <<>> \in Seq(Entry) /\ e \o <<>> = e
  BY CountsOfNothing, ConcatEmptySeq
<1>2. Tallies(b, e \o <<>>)
  BY <1>1
<1>3. f \in Books /\ Tallies(f, <<>>) /\ f.lost = b.lost
  BY <1>1, <1>2, ForgetKeepsTally
<1>4. l \in Books /\ Tallies(l, <<>>) /\ l.lost = b.lost \cup Reqs(e)
  <2> HIDE DEF f
  <2>1. /\ Lose(f, e) \in Books /\ (Tallies(Lose(f, e), <<>>) <=> Tallies(f, <<>>))
        /\ Lose(f, e).lost = f.lost \cup Reqs(e)
    BY <1>3, LoseAndCountOne
  <2> QED BY <1>3, <2>1
<1>5. Idle /\ Booked([l EXCEPT !.max = 0]) /\ posted' = Append(posted, FALSE)
  BY DEF Cleared
<1>6. posted' \in Seq(BOOLEAN)
  BY <1>5
<1> HIDE DEF f, l
<1> QED BY <1>4, <1>5, <1>6, IdleIsConsistent

(* Starting the first entry moves it from the queue to the current step.     *)
LEMMA StartedIsConsistent ==
  ASSUME NEW b \in Books, NEW q \in Seq(Entry), q # <<>>, q[1].enabled,
         Tallies(b, q), b.max = b.done + EnabledOf(q), Reqs(q) \cap b.lost = {},
         Started(b, q), posted \in Seq(BOOLEAN)
  PROVE  Consistent' /\ running' /\ current' \o queue' = q /\ failed' = b.lost
<1>1. /\ Head(q) \in Entry /\ Head(q) = q[1] /\ Tail(q) \in Seq(Entry)
      /\ q = <<Head(q)>> \o Tail(q)
  BY HeadTailProperties
<1>2. /\ current' = <<Head(q)>> /\ queue' = Tail(q) /\ work' = "running"
      /\ posted' = posted /\ running' /\ running' \in BOOLEAN
  BY DEF Started
<1>3. /\ active' = b.active /\ output' = b.output /\ progress' = b.done
      /\ maxProgress' = b.max /\ failed' = b.lost
  BY DEF Started, Booked
<1>4. <<Head(q)>> \in Seq(Entry) /\ Len(<<Head(q)>>) = 1 /\ <<Head(q)>> # <<>>
      /\ <<Head(q)>>[1] = Head(q)
  BY <1>1, CountsOfOne
<1>5. (current \o queue)' = q
  BY <1>1, <1>2
<1>6. QueueTypes'
  BY <1>1, <1>2, <1>3, <1>4 DEF QueueTypes, Books
<1>7. current' # <<>>
  BY <1>2, <1>4
<1>8. RunningIsBoolean' /\ StepOfRunning'
  BY <1>2, <1>7 DEF RunningIsBoolean, StepOfRunning
<1>9. CurrentIsEnabled'
  BY <1>1, <1>2, <1>4 DEF CurrentIsEnabled
<1>10. ActiveCountsExact' /\ NoStrayOutput'
  BY <1>3, <1>5 DEF ActiveCountsExact, NoStrayOutput, Tallies
<1>11. ProgressExact'
  BY <1>2, <1>3, <1>5 DEF ProgressExact, EnabledOf
<1>12. NoStepAfterFailure'
  BY <1>3, <1>5 DEF NoStepAfterFailure
<1> QED BY <1>2, <1>3, <1>5, <1>6, <1>8, <1>9, <1>10, <1>11, <1>12 DEF Consistent

(* nextStep(): skip the disabled steps, then stop, start or fail.            *)
LEMMA NextStepIsConsistent ==
  ASSUME NEW b \in Books, NEW q \in Seq(Entry), Tallies(b, q),
         b.max = b.done + EnabledOf(q), Reqs(q) \cap b.lost = {},
         NextStep(b, q), posted \in Seq(BOOLEAN)
  PROVE  /\ Consistent'
         /\ failed' \subseteq b.lost \cup Reqs(q)
         /\ Reqs(current' \o queue') \subseteq Reqs(q)
<1>1. PICK n \in 0..Len(q) :
        LET b1   == Forget(b, SubSeq(q, 1, n))
            rest == SubSeq(q, n + 1, Len(q))
        IN  /\ Leading(q, n)
            /\ \/ rest = <<>> /\ Drained(b1)
               \/ rest # <<>> /\ Started(b1, rest)
               \/ /\ rest # <<>> /\ Head(rest).step \in GuiStep
                  /\ Cleared(CountOne(b1), rest)
  BY DEF NextStep
<1> DEFINE skipped == SubSeq(q, 1, n)
           rest == SubSeq(q, n + 1, Len(q))
           b1 == Forget(b, skipped)
<1>2. Len(q) \in Nat /\ \A i \in 1..Len(q) : q[i] \in Entry
  OBVIOUS
<1>3. /\ skipped \in Seq(Entry) /\ Len(skipped) = n
      /\ \A i \in 1..n : skipped[i] = q[i]
  BY <1>2, SubSeqProperties
<1>4. /\ rest \in Seq(Entry) /\ Len(rest) = Len(q) - n
      /\ n < Len(q) => rest[1] = q[n + 1]
  BY <1>2, SubSeqProperties
<1>5. skipped \o rest = q
  <2>1. 1 \in 1..(Len(q) + 1) /\ n \in (1 - 1)..Len(q) /\ Len(q) \in n..Len(q)
    BY <1>2
  <2>2. skipped \o rest = SubSeq(q, 1, Len(q))
    BY <2>1, ConcatAdjacentSubSeq
  <2>3. SubSeq(q, 1, Len(q)) = q
    BY SubSeqFull
  <2> QED BY <2>2, <2>3
<1>6. Leading(q, n)
  BY <1>1
<1>7. EnabledOf(skipped) = 0
  <2>1. \A i \in 1..Len(skipped) : ~skipped[i].enabled
    BY <1>3, <1>6 DEF Leading
  <2> HIDE DEF skipped
  <2> QED BY <1>3, <2>1, CountsOfDisabled
<1>8. EnabledOf(rest) = EnabledOf(q) /\ Reqs(rest) \subseteq Reqs(q)
  <2> HIDE DEF skipped, rest
  <2>1. EnabledOf(rest) \in Nat /\ EnabledOf(skipped \o rest) = EnabledOf(skipped) + EnabledOf(rest)
    BY <1>3, <1>4, CountsOfConcatenation
  <2>2. Reqs(skipped \o rest) = Reqs(skipped) \cup Reqs(rest)
    BY <1>3, <1>4, MembersOfConcatenation
  <2> QED BY <1>5, <1>7, <2>1, <2>2
<1>9. /\ b1 \in Books /\ Tallies(b1, rest)
      /\ b1.done = b.done /\ b1.max = b.max /\ b1.lost = b.lost
  <2> HIDE DEF skipped, rest
  <2>1. Tallies(b, skipped \o rest)
    BY <1>5
  <2> QED BY <1>3, <1>4, <2>1, ForgetKeepsTally
<1>10. ASSUME rest # <<>> PROVE rest[1].enabled
  <2>1. Len(rest) # 0
    BY <1>4, <1>10, EmptySeq
  <2>2. n < Len(q)
    BY <1>2, <1>4, <2>1
  <2> QED BY <1>4, <1>6, <2>2 DEF Leading
<1>11. \/ rest = <<>> /\ Drained(b1)
       \/ rest # <<>> /\ Started(b1, rest)
       \/ rest # <<>> /\ Cleared(CountOne(b1), rest)
  BY <1>1
<1> HIDE DEF skipped, rest, b1
<1>12. CASE rest = <<>> /\ Drained(b1)
  <2>1. Idle /\ Booked([b1 EXCEPT !.max = 0]) /\ posted' = Append(posted, TRUE)
    BY <1>12 DEF Drained
  <2>2. posted' \in Seq(BOOLEAN)
    BY <2>1
  <2>3. Tallies(b1, <<>>)
    BY <1>9, <1>12
  <2>4. Consistent' /\ current' \o queue' = <<>> /\ failed' = b1.lost
    BY <1>9, <2>1, <2>2, <2>3, IdleIsConsistent
  <2> QED BY <1>9, <2>4, CountsOfNothing
<1>13. CASE rest # <<>> /\ Started(b1, rest)
  <2>1. b1.max = b1.done + EnabledOf(rest) /\ Reqs(rest) \cap b1.lost = {}
    BY <1>8, <1>9
  <2>2. Consistent' /\ current' \o queue' = rest /\ failed' = b1.lost
    BY <1>4, <1>9, <1>10, <1>13, <2>1, StartedIsConsistent
  <2> QED BY <1>8, <1>9, <2>2
<1>14. CASE rest # <<>> /\ Cleared(CountOne(b1), rest)
  <2> DEFINE b2 == CountOne(b1)
  <2>1. b2 \in Books /\ (Tallies(b2, rest) <=> Tallies(b1, rest)) /\ b2.lost = b1.lost
    BY <1>4, <1>9, LoseAndCountOne
  <2>2. Cleared(b2, rest)
    BY <1>14
  <2> HIDE DEF b2
  <2>3. /\ Consistent' /\ current' \o queue' = <<>>
        /\ failed' = b2.lost \cup Reqs(rest)
    BY <1>4, <1>9, <2>1, <2>2, ClearedIsConsistent
  <2> QED BY <1>8, <1>9, <2>1, <2>3, CountsOfNothing
<1> QED BY <1>11, <1>12, <1>13, <1>14

-----------------------------------------------------------------------------
(* What nextStep() and clearBuildQueue() touch, seen from the requests.      *)
Known == failed \subseteq 1..requests /\ RequestsKnown

(* nextBuildQueue(): a cancelled, a successful and a failed end of a step.  *)
LEMMA NextBuildQueueIsConsistent ==
  ASSUME QInv, current # <<>>, NEW ok \in BOOLEAN, NextBuildQueue(ok)
  PROVE  Consistent' /\ Known' /\ stepOk' = FALSE /\ canceling' = FALSE
<1> DEFINE all == current \o queue
           b == IF ok THEN Book ELSE Lose(Book, current)
<1>1. /\ Consistent /\ running /\ current \in Seq(Entry) /\ queue \in Seq(Entry)
      /\ Len(current) <= 1 /\ posted \in Seq(BOOLEAN)
      /\ \A i \in 1..Len(current) : current[i].enabled
  BY DEF QInv, Consistent, QueueTypes, StepOfRunning, CurrentIsEnabled
<1>2. Book \in Books /\ Book.lost = failed /\ Book.max = maxProgress /\ Book.done = progress
  BY InvariantImplies, BookIsABook
<1>3. /\ all \in Seq(Entry) /\ Tallies(Book, all)
      /\ maxProgress = progress + EnabledOf(all)
  BY <1>1, BookTallies
<1>4. /\ failed \subseteq 1..requests /\ Reqs(all) \subseteq 1..requests
      /\ Reqs(all) \cap failed = {}
  BY <1>1 DEF QInv, History, RequestsKnown, Consistent, NoStepAfterFailure
<1>5. Reqs(all) = Reqs(current) \cup Reqs(queue)
  BY <1>1, MembersOfConcatenation
<1>6. EnabledOf(all) = 1 + EnabledOf(queue) /\ EnabledOf(queue) \in Nat
  <2>1. Len(current) = 1
    <3>1. current \in Seq(Entry) /\ Len(current) <= 1
      BY <1>1
    <3>2. \A q \in Seq(Entry) : q # <<>> => Len(q) \in Nat \ {0}
      BY EmptySeq
    <3> HIDE DEF all, b
    <3>3. Len(current) \in Nat /\ Len(current) # 0
      BY <3>1, <3>2
    <3>4. \A n \in Nat : n # 0 /\ n <= 1 => n = 1
      OBVIOUS
    <3> QED BY <3>1, <3>3, <3>4
  <2>2. current = <<current[1]>> /\ current[1] \in Entry /\ current[1].enabled
    BY <1>1, <2>1
  <2>3. EnabledOf(current) = 1
    <3> DEFINE e == current[1]
    <3>1. e \in Entry /\ e.enabled /\ current = <<e>>
      BY <2>2
    <3> HIDE DEF e
    <3> QED BY <3>1, CountsOfOne
  <2>4. EnabledOf(all) = EnabledOf(current) + EnabledOf(queue) /\ EnabledOf(queue) \in Nat
    BY <1>1, CountsOfConcatenation
  <2> QED BY <2>3, <2>4
<1>7. /\ Lose(Book, current) \in Books
      /\ (Tallies(Lose(Book, current), all) <=> Tallies(Book, all))
      /\ Lose(Book, current).lost = failed \cup Reqs(current)
  BY <1>1, <1>2, LoseAndCountOne
<1>8. b \in Books /\ Tallies(b, all) /\ b.lost \subseteq 1..requests
  <2>1. CASE ok
    BY <1>2, <1>3, <1>4, <2>1
  <2>2. CASE ~ok
    BY <1>3, <1>4, <1>5, <1>7, <2>2
  <2> QED BY <2>1, <2>2
<1>9. requests' = requests /\ stepOk' = FALSE
  BY DEF NextBuildQueue
<1>10. \/ canceling /\ canceling' = FALSE /\ Cleared(b, all)
       \/ /\ ~canceling /\ canceling' = canceling /\ ok
          /\ NextStep(CountOne(Forget(b, current)), queue)
       \/ ~canceling /\ canceling' = canceling /\ Cleared(CountOne(b), all)
  BY DEF NextBuildQueue, CancelSeen, StopsAtFailure
<1>11. canceling' = FALSE
  <2>1. canceling \in BOOLEAN
    BY DEF QInv, Flags
  <2> QED BY <1>10, <2>1
<1>12. ASSUME NEW c \in Books, Tallies(c, all), c.lost \subseteq 1..requests, Cleared(c, all)
       PROVE  Consistent' /\ Known'
  <2>1. /\ Consistent' /\ current' \o queue' = <<>> /\ failed' = c.lost \cup Reqs(all)
    <3> HIDE DEF all
    <3> QED BY <1>1, <1>3, <1>12, ClearedIsConsistent
  <2>2. Reqs(current' \o queue') = {}
    BY <2>1, CountsOfNothing
  <2>3. Known'
    <3> HIDE DEF all
    <3> QED BY <1>4, <1>9, <1>12, <2>1, <2>2 DEF Known, RequestsKnown
  <2> QED BY <2>1, <2>3
<1>13. CASE canceling /\ Cleared(b, all)
  <2> HIDE DEF b, all
  <2> QED BY <1>8, <1>9, <1>11, <1>12, <1>13
<1>14. CASE ~canceling /\ ok /\ NextStep(CountOne(Forget(b, current)), queue)
  <2> DEFINE f == Forget(Book, current)
             c == CountOne(f)
  <2>1. b = Book
    BY <1>14
  <2>2. /\ f \in Books /\ Tallies(f, queue)
        /\ f.done = progress /\ f.max = maxProgress /\ f.lost = failed
    BY <1>1, <1>2, <1>3, ForgetKeepsTally
  <2>3. /\ c \in Books /\ (Tallies(c, queue) <=> Tallies(f, queue))
        /\ c.done = f.done + 1 /\ c.max = f.max /\ c.lost = f.lost
    <3> HIDE DEF f
    <3> QED BY <1>1, <2>2, LoseAndCountOne
  <2>4. NextStep(c, queue)
    BY <1>14, <2>1
  <2> HIDE DEF f, c, b, all
  <2>5. progress \in Nat
    BY <1>1 DEF Consistent, QueueTypes
  <2>6. c.max = c.done + EnabledOf(queue)
    BY <1>3, <1>6, <2>2, <2>3, <2>5
  <2>7. Reqs(queue) \cap c.lost = {}
    BY <1>4, <1>5, <2>2, <2>3
  <2>8. /\ Consistent'
        /\ failed' \subseteq c.lost \cup Reqs(queue)
        /\ Reqs(current' \o queue') \subseteq Reqs(queue)
    BY <1>1, <2>2, <2>3, <2>4, <2>6, <2>7, NextStepIsConsistent
  <2>9. Known'
    BY <1>4, <1>5, <1>9, <2>2, <2>3, <2>8 DEF Known, RequestsKnown
  <2> QED BY <1>9, <1>11, <2>8, <2>9
<1>15. CASE ~canceling /\ Cleared(CountOne(b), all)
  <2> DEFINE c == CountOne(b)
  <2>1. c \in Books /\ (Tallies(c, all) <=> Tallies(b, all)) /\ c.lost = b.lost
    <3> HIDE DEF b, all
    <3> QED BY <1>1, <1>8, LoseAndCountOne
  <2>2. Cleared(c, all)
    BY <1>15
  <2> HIDE DEF c, b, all
  <2> QED BY <1>8, <1>9, <1>11, <1>12, <2>1, <2>2
<1> HIDE DEF b, all
<1> QED BY <1>10, <1>13, <1>14, <1>15

(* A refused list has closed connections and nothing else.                  *)
LEMMA RefusedIsConsistent ==
  ASSUME QInv, NEW list, NEW parsing, Refused(list, parsing)
  PROVE  Consistent' /\ Known' /\ UNCHANGED <<requests, running, current>>
<1>1. PICK i \in Refusing(list, parsing) :
        /\ Booked([Book EXCEPT !.output = Forget(Book, SubSeq(list, 1, i)).output])
        /\ UNCHANGED <<queue, current, work, running, posted, requests>>
  BY DEF Refused
<1> DEFINE dropped == Steps(SubSeq(list, 1, i))
<1>2. /\ active' = active /\ progress' = progress /\ maxProgress' = maxProgress
      /\ failed' = failed
      /\ output' = [s \in Step |-> IF s \in dropped THEN 0 ELSE output[s]]
  BY <1>1 DEF Booked, Book, Forget
<1>3. QueueTypes /\ RunningIsBoolean /\ StepOfRunning /\ CurrentIsEnabled
  BY DEF QInv, Consistent
<1>4. QueueTypes'
  BY <1>1, <1>2, <1>3 DEF QueueTypes
<1>5. RunningIsBoolean' /\ StepOfRunning' /\ CurrentIsEnabled'
  BY <1>1, <1>3 DEF RunningIsBoolean, StepOfRunning, CurrentIsEnabled
<1>6. NoStrayOutput'
  BY <1>1, <1>2 DEF QInv, Consistent, NoStrayOutput
<1>7. ActiveCountsExact' /\ NoStepAfterFailure'
  BY <1>1, <1>2 DEF QInv, Consistent, ActiveCountsExact, NoStepAfterFailure
<1>8. ProgressExact'
  BY <1>1, <1>2 DEF QInv, Consistent, ProgressExact
<1>9. Known'
  BY <1>1, <1>2 DEF QInv, History, RequestsKnown, Known
<1> QED BY <1>1, <1>4, <1>5, <1>6, <1>7, <1>8, <1>9 DEF Consistent

(* An accepted list is appended whole, to an idle or to a running queue.    *)
LEMMA AcceptedIsConsistent ==
  ASSUME QInv, NEW list \in Lists, Accepted(list)
  PROVE  /\ Consistent' /\ Known' /\ requests' \in 0..MaxRequests
         /\ running => running' /\ current' = current
<1> DEFINE new == [i \in 1..Len(list) |->
                     [step |-> list[i].step, enabled |-> list[i].enabled,
                      req |-> requests + 1]]
           entries == current \o queue
           all == queue \o new
           b == Remember(Book, new)
           b0 == [b EXCEPT !.done = 0]
<1>1. /\ Consistent /\ queue \in Seq(Entry) /\ current \in Seq(Entry)
      /\ posted \in Seq(BOOLEAN) /\ progress \in Nat /\ maxProgress \in Nat
  BY DEF QInv, Consistent, QueueTypes
<1>2. /\ requests \in 0..MaxRequests /\ requests + 1 <= MaxRequests
      /\ requests' = requests + 1
      /\ failed \subseteq 1..requests /\ Reqs(entries) \subseteq 1..requests
  BY DEF QInv, History, RequestsKnown, Accepted
<1>3. requests + 1 \in 1..MaxRequests
  BY <1>2, BoundAssumption
<1>4. list \in Seq([step : Step, enabled : BOOLEAN])
  BY ListAssumption
<1>5. /\ new \in Seq(Entry) /\ Reqs(new) \subseteq {requests + 1}
  <2>1. Len(list) \in Nat
    BY <1>4
  <2>2. \A i \in 1..Len(list) : list[i] \in [step : Step, enabled : BOOLEAN]
    <3> DEFINE Given == [step : Step, enabled : BOOLEAN]
    <3>1. list \in Seq(Given)
      BY <1>4
    <3> HIDE DEF Given
    <3>2. \A i \in 1..Len(list) : list[i] \in Given
      BY <3>1, ElementOfSeq
    <3> QED BY <3>2 DEF Given
  <2>3. \A i \in 1..Len(list) : new[i] \in Entry /\ new[i].req = requests + 1
    BY <1>3, <2>2 DEF Entry
  <2>4. new \in [1..Len(list) -> Entry]
    BY <2>3
  <2>5. new \in Seq(Entry) /\ Len(new) = Len(list)
    <3> HIDE DEF new
    <3> QED BY <2>1, <2>4, IsASeq
  <2>6. Reqs(new) \subseteq {requests + 1}
    BY <2>3, <2>5 DEF Reqs
  <2> QED BY <2>5, <2>6
<1>6. Book \in Books /\ Book.lost = failed /\ Book.max = maxProgress /\ Book.done = progress
  BY InvariantImplies, BookIsABook
<1>7. entries \in Seq(Entry) /\ Tallies(Book, entries)
  BY <1>1, BookTallies
<1>8. /\ b \in Books /\ Tallies(b, entries \o new)
      /\ b.done = progress /\ b.max = maxProgress + EnabledOf(new) /\ b.lost = failed
  <2> HIDE DEF new, entries
  <2> QED BY <1>5, <1>6, <1>7, RememberKeepsTally
<1>9. all \in Seq(Entry)
  BY <1>1, <1>5, ConcatProperties
<1>10. Reqs(all) = Reqs(queue) \cup Reqs(new) /\ Reqs(entries) = Reqs(current) \cup Reqs(queue)
  BY <1>1, <1>5, MembersOfConcatenation
<1>11. Reqs(new) \cap failed = {} /\ Reqs(entries) \cap failed = {}
  <2>1. requests + 1 \notin failed
    BY <1>2
  <2> QED BY <1>1, <1>5, <2>1 DEF Consistent, NoStepAfterFailure
<1>12. 1..requests \cup {requests + 1} \subseteq 1..requests'
  BY <1>2
<1>13. requests' \in 0..MaxRequests
  BY <1>2, <1>3
<1>14. \/ /\ posted' = Append(posted, TRUE)
          /\ UNCHANGED <<queue, current, work, running, active, output,
                         progress, maxProgress, failed>>
       \/ ~running /\ NextStep(b0, all)
       \/ /\ running /\ queue' = all /\ Booked(b)
          /\ UNCHANGED <<current, work, running, posted>>
  BY DEF Accepted
<1> HIDE DEF new
<1>15. CASE /\ posted' = Append(posted, TRUE)
            /\ UNCHANGED <<queue, current, work, running, active, output,
                           progress, maxProgress, failed>>
  <2>1. posted' \in Seq(BOOLEAN)
    BY <1>1, <1>15
  <2>2. QueueTypes'
    BY <1>1, <1>15, <2>1 DEF Consistent, QueueTypes
  <2>3. RunningIsBoolean' /\ StepOfRunning' /\ CurrentIsEnabled'
    BY <1>1, <1>15 DEF Consistent, RunningIsBoolean, StepOfRunning, CurrentIsEnabled
  <2>4. ActiveCountsExact' /\ NoStrayOutput' /\ NoStepAfterFailure'
    BY <1>1, <1>15 DEF Consistent, ActiveCountsExact, NoStrayOutput, NoStepAfterFailure
  <2>5. ProgressExact'
    BY <1>1, <1>15 DEF Consistent, ProgressExact
  <2>6. Known'
    BY <1>2, <1>12, <1>15 DEF Known, RequestsKnown
  <2>7. running => running' /\ current' = current
    BY <1>15
  <2> QED BY <1>13, <2>2, <2>3, <2>4, <2>5, <2>6, <2>7 DEF Consistent
<1>16. CASE ~running /\ NextStep(b0, all)
  <2>1. current = <<>> /\ queue = <<>> /\ maxProgress = 0
    BY <1>1, <1>16, BookTallies
  <2>2. all = new /\ entries \o new = new
    BY <1>5, <2>1, ConcatEmptySeq
  <2>3. EnabledOf(new) \in Nat
    BY <1>5, CountsOfConcatenation
  <2>4. /\ b0 \in Books /\ b0.active = b.active /\ b0.output = b.output
        /\ b0.done = 0 /\ b0.max = b.max /\ b0.lost = b.lost
    <3> HIDE DEF b
    <3> QED BY <1>8 DEF Books
  <2> HIDE DEF b, b0, all, entries
  <2>5. Tallies(b0, all)
    BY <1>8, <2>2, <2>4 DEF Tallies
  <2>6. b0.max = b0.done + EnabledOf(all) /\ Reqs(all) \cap b0.lost = {}
    BY <1>8, <1>11, <2>1, <2>2, <2>3, <2>4
  <2>7. /\ Consistent'
        /\ failed' \subseteq b0.lost \cup Reqs(all)
        /\ Reqs(current' \o queue') \subseteq Reqs(all)
    BY <1>1, <1>9, <1>16, <2>4, <2>5, <2>6, NextStepIsConsistent
  <2>8. b0.lost \cup Reqs(all) \subseteq 1..requests'
    BY <1>2, <1>5, <1>8, <1>12, <2>2, <2>4
  <2>9. Known'
    BY <2>2, <2>7, <2>8 DEF Known, RequestsKnown
  <2> QED BY <1>13, <1>16, <2>7, <2>9
<1>17. CASE /\ running /\ queue' = all /\ Booked(b)
            /\ UNCHANGED <<current, work, running, posted>>
  <2>1. /\ active' = b.active /\ output' = b.output /\ progress' = progress
        /\ maxProgress' = maxProgress + EnabledOf(new) /\ failed' = failed
    BY <1>8, <1>17 DEF Booked
  <2>2. (current \o queue)' = entries \o new
    BY <1>1, <1>5, <1>17, ConcatAssociative
  <2>3. /\ EnabledOf(entries) \in Nat /\ EnabledOf(new) \in Nat
        /\ EnabledOf(entries \o new) = EnabledOf(entries) + EnabledOf(new)
    BY <1>5, <1>7, CountsOfConcatenation
  <2>4. maxProgress = progress + EnabledOf(entries)
    BY <1>1, <1>17, BookTallies
  <2>5. Reqs(entries \o new) = Reqs(entries) \cup Reqs(new)
    BY <1>5, <1>7, MembersOfConcatenation
  <2> HIDE DEF b, all, entries
  <2>6. QueueTypes'
    <3>1. maxProgress + EnabledOf(new) \in Nat
      BY <1>1, <2>3
    <3> QED BY <1>1, <1>8, <1>9, <1>17, <2>1, <3>1 DEF Consistent, QueueTypes, Books
  <2>7. RunningIsBoolean' /\ StepOfRunning' /\ CurrentIsEnabled'
    BY <1>1, <1>17 DEF Consistent, RunningIsBoolean, StepOfRunning, CurrentIsEnabled
  <2>8. ActiveCountsExact' /\ NoStrayOutput'
    BY <1>8, <2>1, <2>2 DEF ActiveCountsExact, NoStrayOutput, Tallies
  <2>9. maxProgress' = progress' + EnabledOf(entries \o new)
    BY <1>1, <2>1, <2>3, <2>4
  <2>10. ProgressExact'
    BY <1>17, <2>2, <2>9 DEF ProgressExact, EnabledOf
  <2>11. NoStepAfterFailure'
    BY <1>11, <2>1, <2>2, <2>5 DEF NoStepAfterFailure
  <2>12. Known'
    BY <1>2, <1>5, <1>12, <2>1, <2>2, <2>5 DEF Known, RequestsKnown
  <2>13. running => running' /\ current' = current
    BY <1>17
  <2> QED BY <1>13, <2>6, <2>7, <2>8, <2>10, <2>11, <2>12, <2>13 DEF Consistent
<1> HIDE DEF b, b0, all, entries
<1> QED BY <1>14, <1>15, <1>16, <1>17

-----------------------------------------------------------------------------
(* An empty queue that is not running.                                      *)
LEMMA InitHolds == Init => QInv
<1> SUFFICES ASSUME Init PROVE QInv
  OBVIOUS
<1>1. <<>> \in Seq(Entry) /\ <<>> \in Seq(BOOLEAN) /\ Len(<<>>) = 0
  BY EmptySeq
<1>2. queue = <<>> /\ current = <<>> /\ current \o queue = <<>> /\ posted = <<>>
  BY <1>1, ConcatEmptySeq DEF Init
<1>3. QueueTypes /\ RunningIsBoolean /\ StepOfRunning /\ CurrentIsEnabled
  <2>1. QueueTypes
    BY <1>1 DEF Init, QueueTypes
  <2>2. RunningIsBoolean /\ StepOfRunning
    BY DEF Init, RunningIsBoolean, StepOfRunning
  <2>3. CurrentIsEnabled
    BY <1>1, <1>2 DEF CurrentIsEnabled
  <2> QED BY <2>1, <2>2, <2>3
<1>4. ActiveCountsExact /\ NoStrayOutput /\ NoStepAfterFailure
  BY <1>2, CountsOfNothing DEF Init, ActiveCountsExact, NoStrayOutput, NoStepAfterFailure
<1>5. ProgressExact
  BY DEF Init, ProgressExact
<1>6. History
  BY <1>2, CountsOfNothing, BoundAssumption DEF Init, History, RequestsKnown
<1>7. Flags /\ (~running => ~canceling)
  BY DEF Init, Flags
<1> QED BY <1>3, <1>4, <1>5, <1>6, <1>7 DEF QInv, Consistent

(* The steps that leave the entries and the counters alone.                  *)
Untouched == UNCHANGED <<queue, current, running, active, output, progress,
                         maxProgress, posted, requests, failed>>

(* What does not touch the entries keeps them consistent.                   *)
LEMMA UntouchedIsConsistent ==
  ASSUME QInv, Untouched, work' \in {"none", "running", "ended"},
         work' # "none" <=> work # "none"
  PROVE  Consistent' /\ Known'
<1>1. QueueTypes'
  BY DEF QInv, Consistent, QueueTypes, Untouched
<1>2. RunningIsBoolean' /\ StepOfRunning' /\ CurrentIsEnabled'
  BY DEF QInv, Consistent, RunningIsBoolean, StepOfRunning, CurrentIsEnabled, Untouched
<1>3. ActiveCountsExact' /\ NoStrayOutput' /\ NoStepAfterFailure'
  BY DEF QInv, Consistent, ActiveCountsExact, NoStrayOutput, NoStepAfterFailure, Untouched
<1>4. ProgressExact'
  BY DEF QInv, Consistent, ProgressExact, Untouched
<1>5. Known'
  BY DEF QInv, History, RequestsKnown, Known, Untouched
<1> QED BY <1>1, <1>2, <1>3, <1>4, <1>5 DEF Consistent

(* cancel() only sets the flag and may wait for the thread.                 *)
LEMMA CancelQueueIsConsistent ==
  ASSUME QInv, CancelQueue
  PROVE  /\ Consistent' /\ Known' /\ running' /\ stepOk' = stepOk
         /\ canceling' \in BOOLEAN /\ UNCHANGED <<requests, removed, current>>
<1>1. running /\ current # <<>> /\ work \in {"none", "running", "ended"} /\ work # "none"
  BY DEF QInv, Consistent, StepOfRunning, QueueTypes, CancelQueue
<1>2. work' \in {"running", "ended"}
  BY <1>1 DEF CancelQueue
<1>3. Untouched
  BY DEF CancelQueue, Untouched
<1>4. Consistent' /\ Known'
  BY <1>1, <1>2, <1>3, UntouchedIsConsistent
<1>5. running' /\ stepOk' = stepOk /\ canceling' \in BOOLEAN
  BY <1>1 DEF CancelQueue
<1> QED BY <1>4, <1>5 DEF CancelQueue

(* Every slot keeps the invariant.                                          *)
LEMMA StepPreserves == QInv /\ [Next]_vars => QInv'
<1> SUFFICES ASSUME QInv, [Next]_vars PROVE QInv'
  OBVIOUS
<1>1. /\ work \in {"none", "running", "ended"} /\ (work # "none" <=> current # <<>>)
      /\ (running <=> current # <<>>)
  BY DEF QInv, Consistent, QueueTypes, StepOfRunning
<1>2. /\ Flags /\ (~running => ~canceling)
      /\ removing \in Project \cup {NoProject} /\ removed \subseteq Project
      /\ requests \in 0..MaxRequests
  BY DEF QInv, History
<1>3. ASSUME Consistent', Known', Flags', requests' \in 0..MaxRequests,
             removing' \in Project \cup {NoProject}, removed' \subseteq Project,
             ~running' => ~canceling'
      PROVE  QInv'
  BY <1>3 DEF QInv, History, Known
<1>4. ASSUME NEW ok \in BOOLEAN, NextBuildQueue(ok), current # <<>> PROVE QInv'
  <2>1. Consistent' /\ Known' /\ stepOk' = FALSE /\ canceling' = FALSE
    BY <1>4, NextBuildQueueIsConsistent
  <2>2. UNCHANGED <<removing, removed, requests>>
    BY <1>4 DEF NextBuildQueue
  <2>3. Flags' /\ (~running' => ~canceling')
    BY <2>1 DEF Flags
  <2> QED BY <1>2, <1>3, <2>1, <2>2, <2>3
<1>5. CASE GuiStepFinished
  BY <1>4, <1>5 DEF GuiStepFinished, InGui
<1>6. CASE ThreadCollected
  <2>1. work = "ended" /\ NextBuildQueue(stepOk)
    BY <1>6 DEF ThreadCollected
  <2>2. stepOk \in BOOLEAN /\ current # <<>>
    BY <1>1, <1>2, <2>1 DEF Flags
  <2> QED BY <1>4, <2>1, <2>2
<1>7. CASE ThreadEnds
  <2>1. /\ work = "running" /\ work' = "ended" /\ stepOk' \in BOOLEAN
        /\ UNCHANGED <<queue, current, running, canceling, active, output, progress,
                       maxProgress, posted, removing, removed, requests, failed>>
    BY <1>7 DEF ThreadEnds
  <2>2. Untouched
    BY <2>1 DEF Untouched
  <2>3. Consistent' /\ Known'
    BY <1>1, <2>1, <2>2, UntouchedIsConsistent
  <2>4. Flags' /\ (~running' => ~canceling')
    BY <1>2, <2>1 DEF Flags
  <2> QED BY <1>2, <1>3, <2>1, <2>3, <2>4
<1>8. CASE DeleteProject
  <2>1. /\ removing # NoProject /\ removed' = removed \cup {removing}
        /\ removing' = NoProject
        /\ UNCHANGED <<queue, current, work, stepOk, running, canceling, active, output,
                       progress, maxProgress, posted, requests, failed>>
    BY <1>8 DEF DeleteProject
  <2>2. Untouched /\ work' = work
    BY <2>1 DEF Untouched
  <2>3. Consistent' /\ Known'
    BY <1>1, <2>2, UntouchedIsConsistent
  <2>4. Flags' /\ (~running' => ~canceling')
    BY <1>2, <2>1 DEF Flags
  <2>5. removing' \in Project \cup {NoProject} /\ removed' \subseteq Project
    BY <1>2, <2>1
  <2> QED BY <1>2, <1>3, <2>1, <2>3, <2>4, <2>5
<1>9. ASSUME NEW list \in Lists, BuildLists(list), stepOk' = stepOk PROVE QInv'
  <2>1. UNCHANGED <<canceling, removing, removed>>
    BY <1>9 DEF BuildLists
  <2>2. PICK parsing \in SUBSET Project : Refused(list, parsing) \/ Accepted(list)
    BY <1>9 DEF BuildLists
  <2>3. Flags'
    BY <1>2, <1>9, <2>1 DEF Flags
  <2>4. CASE Refused(list, parsing)
    <3>1. Consistent' /\ Known' /\ UNCHANGED <<requests, running, current>>
      BY <2>4, RefusedIsConsistent
    <3> QED BY <1>2, <1>3, <2>1, <2>3, <3>1
  <2>5. CASE Accepted(list)
    <3>1. /\ Consistent' /\ Known' /\ requests' \in 0..MaxRequests
          /\ running => running' /\ current' = current
      BY <2>5, AcceptedIsConsistent
    <3>2. ~running' => ~canceling'
      BY <1>2, <2>1, <3>1
    <3> QED BY <1>2, <1>3, <2>1, <2>3, <3>1, <3>2
  <2> QED BY <2>2, <2>4, <2>5
<1>10. ASSUME CancelQueue, removing' \in Project \cup {NoProject} PROVE QInv'
  <2>1. /\ Consistent' /\ Known' /\ running' /\ stepOk' = stepOk
        /\ canceling' \in BOOLEAN /\ UNCHANGED <<requests, removed, current>>
    BY <1>10, CancelQueueIsConsistent
  <2>2. Flags'
    BY <1>2, <2>1 DEF Flags
  <2> QED BY <1>2, <1>3, <1>10, <2>1, <2>2
<1>11. CASE Cancel
  BY <1>2, <1>10, <1>11 DEF Cancel
<1>12. ASSUME NEW p \in Project, AboutToRemoveProject(p) PROVE QInv'
  <2>1. removing' \in Project \cup {NoProject}
    BY <1>12 DEF AboutToRemoveProject
  <2>2. CASE CancelQueue
    BY <1>10, <2>1, <2>2
  <2>3. CASE UNCHANGED <<queue, current, work, stepOk, running, canceling, active, output,
                         progress, maxProgress, posted, removed, requests, failed>>
    <3>1. Untouched /\ work' = work
      BY <2>3 DEF Untouched
    <3>2. Consistent' /\ Known'
      BY <1>1, <3>1, UntouchedIsConsistent
    <3>3. Flags' /\ (~running' => ~canceling')
      BY <1>2, <2>3 DEF Flags
    <3> QED BY <1>2, <1>3, <2>1, <2>3, <3>2, <3>3
  <2> QED BY <1>12, <2>2, <2>3 DEF AboutToRemoveProject
<1>13. CASE UNCHANGED vars
  <2>1. Untouched /\ work' = work /\ UNCHANGED <<stepOk, canceling, removing, removed>>
    BY <1>13 DEF vars, Untouched
  <2>2. Consistent' /\ Known'
    BY <1>1, <2>1, UntouchedIsConsistent
  <2>3. Flags' /\ (~running' => ~canceling') /\ requests' = requests
    BY <1>2, <2>1 DEF Flags, Untouched
  <2> QED BY <1>2, <1>3, <2>1, <2>2, <2>3
<1> QED BY <1>5, <1>6, <1>7, <1>8, <1>9, <1>11, <1>12, <1>13 DEF Next, System

(* The invariant holds in every reachable state.                            *)
LEMMA QueueInvariant == Spec => []QInv
<1> QED BY InitHolds, StepPreserves, PTL DEF Spec

(* What each variable of the queue holds. *)
THEOREM QueueTypeCorrect == Spec => []TypeOK
<1>1. QInv => TypeOK
  BY InvariantImplies
<1> QED BY <1>1, QueueInvariant, PTL

(* isBuilding(project), the progress bar and the connections to the output   *)
(* panes are exact on every path of buildLists, nextBuildQueue, nextStep,    *)
(* clearBuildQueue and cancel, whatever the step lists are.                  *)
THEOREM QueueCountersExact ==
  Spec => [](ActiveCountsExact /\ ProgressExact /\ NoStrayOutput)
<1>1. QInv => ActiveCountsExact /\ ProgressExact /\ NoStrayOutput
  BY InvariantImplies
<1> QED BY <1>1, QueueInvariant, PTL

(* Once a step of a request has failed or was dropped, none of the others    *)
(* is queued or current.                                                     *)
THEOREM RequestFailsAsAWhole == Spec => []NoStepAfterFailure
<1>1. QInv => NoStepAfterFailure
  BY InvariantImplies
<1> QED BY <1>1, QueueInvariant, PTL

(* A running queue takes new entries at its end and starts none of them.     *)
LEMMA CancelStep == QInv /\ [Next]_vars => [canceling => current' \in {current, <<>>}]_vars
<1> SUFFICES ASSUME QInv, Next, canceling PROVE current' \in {current, <<>>}
  BY DEF vars
<1>1. running /\ (running <=> current # <<>>) /\ (work # "none" <=> current # <<>>)
  BY DEF QInv, Consistent, StepOfRunning
<1>2. ASSUME NEW ok \in BOOLEAN, NextBuildQueue(ok) PROVE current' \in {current, <<>>}
  BY <1>2 DEF NextBuildQueue, CancelSeen, Cleared, Idle
<1>3. CASE GuiStepFinished
  BY <1>2, <1>3 DEF GuiStepFinished
<1>4. CASE ThreadCollected
  BY <1>2, <1>4 DEF ThreadCollected, QInv, Flags
<1>5. CASE ThreadEnds \/ DeleteProject \/ Cancel
  BY <1>5 DEF ThreadEnds, DeleteProject, Cancel, CancelQueue
<1>6. ASSUME NEW list \in Lists, BuildLists(list) PROVE current' \in {current, <<>>}
  <2>1. PICK parsing \in SUBSET Project : Refused(list, parsing) \/ Accepted(list)
    BY <1>6 DEF BuildLists
  <2>2. current' = current
    BY <1>1, <2>1, RefusedIsConsistent, AcceptedIsConsistent
  <2> QED BY <2>2
<1>7. ASSUME NEW p \in Project, AboutToRemoveProject(p) PROVE current' \in {current, <<>>}
  BY <1>7 DEF AboutToRemoveProject, CancelQueue
<1> QED BY <1>3, <1>4, <1>5, <1>6, <1>7 DEF Next, System

(* Between cancel() and the clearing of the queue no step is started.        *)
THEOREM CancelledQueueStartsNothing == Spec => NoStartAfterCancel
<1> QED BY CancelStep, QueueInvariant, PTL DEF Spec, NoStartAfterCancel

-----------------------------------------------------------------------------
(* Removal and the delayed run.  Both are about which entries a slot leaves  *)
(* behind, and about the one report a slot may post when the queue ends.     *)

(* The slot ends the queue with at most one report, and a report of success  *)
(* means that nothing was lost.                                              *)
Reported(lost) ==
  \/ posted' = posted /\ failed' = lost /\ running'
  \/ posted' = Append(posted, TRUE) /\ failed' = lost /\ current' = <<>> /\ queue' = <<>>
  \/ posted' = Append(posted, FALSE) /\ current' = <<>> /\ queue' = <<>>

(* The entries left behind, and the requests lost, come from e.              *)
Within(e, lost) ==
  /\ Steps(current' \o queue') \subseteq Steps(e)
  /\ Reqs(current' \o queue') \subseteq Reqs(e)
  /\ failed' \subseteq lost \cup Reqs(e)

(* An empty queue is within everything.                                      *)
LEMMA EmptiedIsWithin ==
  ASSUME NEW e, NEW lost, current' = <<>>, queue' = <<>>, failed' \subseteq lost \cup Reqs(e)
  PROVE  Within(e, lost)
<1>1. current' \o queue' = <<>>
  BY EmptySeq
<1> QED BY <1>1, CountsOfNothing DEF Within

(* clearBuildQueue() loses the requests of the entries and leaves nothing.    *)
LEMMA ClearedMoves ==
  ASSUME NEW b \in Books, NEW e \in Seq(Entry), NEW all \in Seq(Entry), NEW lost,
         Cleared(b, e), b.lost \subseteq lost \cup Reqs(all), Reqs(e) \subseteq Reqs(all)
  PROVE  Reported(lost) /\ Within(all, lost)
<1> DEFINE f == Forget(b, e)
           l == Lose(f, e)
<1>1. current' = <<>> /\ queue' = <<>> /\ posted' = Append(posted, FALSE)
  BY DEF Cleared, Idle
<1>2. Booked([l EXCEPT !.max = 0])
  BY DEF Cleared
<1>3. f.lost = b.lost /\ "lost" \in DOMAIN f
  BY DEF Forget, Books
<1>4. l.lost = b.lost \cup Reqs(e) /\ "lost" \in DOMAIN l
  <2> HIDE DEF f
  <2> QED BY <1>3 DEF Lose
<1>5. failed' = b.lost \cup Reqs(e)
  <2> HIDE DEF l, f
  <2> QED BY <1>2, <1>4 DEF Booked
<1> QED BY <1>1, <1>5, EmptiedIsWithin DEF Reported

(* nextStep() goes on with a part of the queue or reports its end.           *)
LEMMA NextStepMoves ==
  ASSUME NEW b \in Books, NEW q \in Seq(Entry), NextStep(b, q)
  PROVE  Reported(b.lost) /\ Within(q, b.lost)
<1>1. PICK n \in 0..Len(q) :
        LET b1   == Forget(b, SubSeq(q, 1, n))
            rest == SubSeq(q, n + 1, Len(q))
        IN  \/ rest = <<>> /\ Drained(b1)
            \/ rest # <<>> /\ Started(b1, rest)
            \/ rest # <<>> /\ Cleared(CountOne(b1), rest)
  BY DEF NextStep
<1> DEFINE skipped == SubSeq(q, 1, n)
           rest == SubSeq(q, n + 1, Len(q))
           b1 == Forget(b, skipped)
<1>2. Len(q) \in Nat /\ \A i \in 1..Len(q) : q[i] \in Entry
  OBVIOUS
<1>3. skipped \in Seq(Entry) /\ rest \in Seq(Entry)
  BY <1>2, SubSeqProperties
<1>4. skipped \o rest = q
  <2>1. 1 \in 1..(Len(q) + 1) /\ n \in (1 - 1)..Len(q) /\ Len(q) \in n..Len(q)
    BY <1>2
  <2>2. skipped \o rest = SubSeq(q, 1, Len(q))
    BY <2>1, ConcatAdjacentSubSeq
  <2>3. SubSeq(q, 1, Len(q)) = q
    BY SubSeqFull
  <2> QED BY <2>2, <2>3
<1>5. Steps(rest) \subseteq Steps(q) /\ Reqs(rest) \subseteq Reqs(q)
  <2> HIDE DEF skipped, rest
  <2>1. Steps(skipped \o rest) = Steps(skipped) \cup Steps(rest)
        /\ Reqs(skipped \o rest) = Reqs(skipped) \cup Reqs(rest)
    BY <1>3, MembersOfConcatenation
  <2> QED BY <1>4, <2>1
<1>6. /\ b1.lost = b.lost /\ "lost" \in DOMAIN b1
  BY DEF Forget, Books
<1> HIDE DEF skipped, rest, b1
<1>7. CASE rest = <<>> /\ Drained(b1)
  <2>1. /\ current' = <<>> /\ queue' = <<>> /\ posted' = Append(posted, TRUE)
        /\ Booked([b1 EXCEPT !.max = 0])
    BY <1>7 DEF Drained, Idle
  <2>2. failed' = b.lost
    BY <1>6, <2>1 DEF Booked
  <2> QED BY <2>1, <2>2, EmptiedIsWithin DEF Reported
<1>8. CASE rest # <<>> /\ Started(b1, rest)
  <2>1. /\ current' = <<Head(rest)>> /\ queue' = Tail(rest) /\ running'
        /\ posted' = posted /\ failed' = b.lost
    BY <1>6, <1>8 DEF Started, Booked
  <2>2. current' \o queue' = rest
    BY <1>3, <1>8, <2>1, HeadTailProperties
  <2> QED BY <1>5, <2>1, <2>2 DEF Reported, Within
<1>9. CASE rest # <<>> /\ Cleared(CountOne(b1), rest)
  <2> DEFINE c == CountOne(b1)
             f == Forget(c, rest)
             l == Lose(f, rest)
  <2>1. current' = <<>> /\ queue' = <<>> /\ posted' = Append(posted, FALSE)
        /\ Booked([l EXCEPT !.max = 0])
    BY <1>9 DEF Cleared, Idle
  <2>2. c.lost = b.lost /\ "lost" \in DOMAIN c
    BY <1>6 DEF CountOne
  <2>3. f.lost = b.lost /\ "lost" \in DOMAIN f
    <3> HIDE DEF c
    <3> QED BY <2>2 DEF Forget
  <2>4. l.lost = b.lost \cup Reqs(rest) /\ "lost" \in DOMAIN l
    <3> HIDE DEF f
    <3> QED BY <2>3 DEF Lose
  <2>5. failed' = b.lost \cup Reqs(rest)
    <3> HIDE DEF l
    <3> QED BY <2>1, <2>4 DEF Booked
  <2> QED BY <1>5, <2>1, <2>5, EmptiedIsWithin DEF Reported
<1> QED BY <1>1, <1>7, <1>8, <1>9 DEF skipped, rest, b1

(* A finished step goes on with the queue, or ends it with a report.          *)
LEMMA NextBuildQueueMoves ==
  ASSUME QInv, NEW ok \in BOOLEAN, NextBuildQueue(ok)
  PROVE  /\ Reported(failed) /\ Within(current \o queue, failed)
         /\ canceling => current' \o queue' = <<>>
         /\ UNCHANGED <<removing, removed, requests>>
<1> DEFINE all == current \o queue
           b == IF ok THEN Book ELSE Lose(Book, current)
<1>1. current \in Seq(Entry) /\ queue \in Seq(Entry) /\ all \in Seq(Entry)
  BY BookTallies DEF QInv, Consistent, QueueTypes
<1>2. Steps(all) = Steps(current) \cup Steps(queue) /\ Reqs(all) = Reqs(current) \cup Reqs(queue)
  BY <1>1, MembersOfConcatenation
<1>3. Book \in Books /\ Book.lost = failed
  BY InvariantImplies, BookIsABook
<1>4. b \in Books /\ b.lost \subseteq failed \cup Reqs(all) /\ (ok => b.lost = failed)
  <2>1. Lose(Book, current) \in Books /\ Lose(Book, current).lost = failed \cup Reqs(current)
    BY <1>1, <1>3, LoseAndCountOne
  <2> QED BY <1>2, <1>3, <2>1
<1>5. CountOne(b) \in Books /\ CountOne(b).lost = b.lost
  <2> HIDE DEF b
  <2> QED BY <1>1, <1>4, LoseAndCountOne
<1>6. /\ CountOne(Forget(b, current)) \in Books
      /\ CountOne(Forget(b, current)).lost = b.lost
  <2>1. Tallies(b, all)
    <3>1. Tallies(Book, all)
      BY BookTallies DEF QInv
    <3>2. Tallies(Lose(Book, current), all)
      BY <1>1, <1>3, <3>1, LoseAndCountOne
    <3> QED BY <3>1, <3>2
  <2> HIDE DEF b
  <2>2. Forget(b, current) \in Books /\ Forget(b, current).lost = b.lost
    BY <1>1, <1>4, <2>1, ForgetKeepsTally
  <2> QED BY <1>1, <2>2, LoseAndCountOne
<1>7. \/ canceling /\ Cleared(b, all)
      \/ ~canceling /\ ok /\ NextStep(CountOne(Forget(b, current)), queue)
      \/ ~canceling /\ Cleared(CountOne(b), all)
  BY DEF NextBuildQueue, CancelSeen, StopsAtFailure
<1>8. UNCHANGED <<removing, removed, requests>>
  BY DEF NextBuildQueue
<1>9. ASSUME NEW c \in Books, c.lost = b.lost, Cleared(c, all)
      PROVE  Reported(failed) /\ Within(all, failed) /\ current' \o queue' = <<>>
  <2>1. current' \o queue' = <<>>
    BY <1>9, EmptySeq DEF Cleared, Idle
  <2> HIDE DEF b, all
  <2> QED BY <1>1, <1>4, <1>9, <2>1, ClearedMoves
<1>10. ASSUME ok, NextStep(CountOne(Forget(b, current)), queue)
       PROVE  Reported(failed) /\ Within(all, failed)
  <2> HIDE DEF b, all
  <2>1. Reported(failed) /\ Within(queue, failed)
    BY <1>1, <1>4, <1>6, <1>10, NextStepMoves
  <2> QED BY <1>2, <2>1 DEF Within
<1> HIDE DEF b, all
<1>11. CASE canceling /\ Cleared(b, all)
  BY <1>4, <1>8, <1>9, <1>11 DEF all
<1>12. CASE ~canceling /\ ok /\ NextStep(CountOne(Forget(b, current)), queue)
  BY <1>8, <1>10, <1>12 DEF all
<1>13. CASE ~canceling /\ Cleared(CountOne(b), all)
  BY <1>5, <1>8, <1>9, <1>13 DEF all
<1> QED BY <1>7, <1>11, <1>12, <1>13

(* buildLists() adds the steps of the list under a request of its own, or    *)
(* leaves the entries alone.                                                 *)
LEMMA BuildListsMoves ==
  ASSUME QInv, NEW list \in Lists, BuildLists(list)
  PROVE  /\ Steps(current' \o queue') \subseteq Steps(current \o queue) \cup Steps(list)
         /\ \/ UNCHANGED <<queue, current, running, posted, failed, requests>>
            \/ /\ requests' = requests + 1
               /\ Reqs(current' \o queue') \subseteq Reqs(current \o queue) \cup {requests'}
               /\ failed' \subseteq failed \cup Reqs(current \o queue) \cup {requests'}
               /\ list # <<>> => Reported(failed)
<1> DEFINE new == [i \in 1..Len(list) |->
                     [step |-> list[i].step, enabled |-> list[i].enabled,
                      req |-> requests + 1]]
           all == queue \o new
           b == Remember(Book, new)
           b0 == [b EXCEPT !.done = 0]
<1>1. PICK parsing \in SUBSET Project : Refused(list, parsing) \/ Accepted(list)
  BY DEF BuildLists
<1>2. CASE Refused(list, parsing)
  BY <1>2 DEF Refused, Booked, Book
<1>3. CASE Accepted(list)
  <2>1. /\ current \in Seq(Entry) /\ queue \in Seq(Entry)
        /\ (running <=> current # <<>>) /\ (~running => queue = <<>>)
    BY DEF QInv, Consistent, QueueTypes, StepOfRunning
  <2>2. requests \in 0..MaxRequests /\ requests + 1 <= MaxRequests /\ requests' = requests + 1
    BY <1>3 DEF QInv, History, Accepted
  <2>3. list \in Seq([step : Step, enabled : BOOLEAN])
    BY ListAssumption
  <2>4. Len(list) \in Nat /\ (list # <<>> => Len(list) # 0)
    BY <2>3, EmptySeq
  <2>5. \A i \in 1..Len(list) : new[i] \in Entry /\ new[i].step = list[i].step
                                /\ new[i].req = requests'
    <3> DEFINE Given == [step : Step, enabled : BOOLEAN]
    <3>1. list \in Seq(Given)
      BY <2>3
    <3> HIDE DEF Given
    <3>2. \A i \in 1..Len(list) : list[i] \in Given
      BY <3>1, ElementOfSeq
    <3>3. requests + 1 \in 1..MaxRequests
      BY <2>2, BoundAssumption
    <3> QED BY <2>2, <3>2, <3>3 DEF Given, Entry
  <2>6. new \in Seq(Entry) /\ Len(new) = Len(list)
    <3>1. new \in [1..Len(list) -> Entry]
      BY <2>5
    <3> HIDE DEF new
    <3> QED BY <2>4, <3>1, IsASeq
  <2>7. Steps(new) \subseteq Steps(list) /\ Reqs(new) \subseteq {requests'}
    <3>1. \A i \in 1..Len(new) : new[i].step \in Steps(list) /\ new[i].req = requests'
      BY <2>5, <2>6 DEF Steps
    <3> HIDE DEF new
    <3> QED BY <3>1 DEF Steps, Reqs
  <2>8. list # <<>> => all # <<>>
    <3>1. Len(all) = Len(queue) + Len(list) /\ Len(queue) \in Nat
      BY <2>1, <2>6, ConcatProperties
    <3> HIDE DEF all
    <3> QED BY <2>4, <3>1, EmptySeq
  <2>9. all \in Seq(Entry) /\ Steps(all) = Steps(queue) \cup Steps(new)
        /\ Reqs(all) = Reqs(queue) \cup Reqs(new)
    BY <2>1, <2>6, ConcatProperties, MembersOfConcatenation
  <2>10. /\ Steps(current \o queue) = Steps(current) \cup Steps(queue)
         /\ Reqs(current \o queue) = Reqs(current) \cup Reqs(queue)
    BY <2>1, MembersOfConcatenation
  <2>11. b \in Books /\ b.lost = failed
    <3>1. Book \in Books /\ Book.lost = failed
      BY InvariantImplies, BookIsABook
    <3>2. Tallies(Book, current \o queue) /\ current \o queue \in Seq(Entry)
      BY BookTallies DEF QInv
    <3> HIDE DEF new
    <3> QED BY <2>6, <3>1, <3>2, RememberKeepsTally
  <2>12. b0 \in Books /\ b0.lost = failed
    <3> HIDE DEF b
    <3> QED BY <2>11 DEF Books
  <2>13. \/ /\ all = <<>>
            /\ UNCHANGED <<queue, current, running, failed>>
         \/ all # <<>> /\ ~running /\ NextStep(b0, all)
         \/ /\ all # <<>> /\ running /\ queue' = all /\ failed' = b.lost
            /\ UNCHANGED <<current, running, posted>>
    BY <1>3 DEF Accepted, Booked
  <2> HIDE DEF new, all, b, b0
  <2>14. CASE all = <<>> /\ UNCHANGED <<queue, current, running, failed>>
    BY <2>2, <2>8, <2>14
  <2>15. CASE all # <<>> /\ ~running /\ NextStep(b0, all)
    <3>1. Reported(failed) /\ Within(all, failed)
      BY <2>9, <2>12, <2>15, NextStepMoves
    <3> QED BY <2>2, <2>7, <2>9, <2>10, <3>1 DEF Within
  <2>16. CASE /\ all # <<>> /\ running /\ queue' = all /\ failed' = b.lost
              /\ UNCHANGED <<current, running, posted>>
    <3>1. Steps(current \o all) = Steps(current) \cup Steps(all)
          /\ Reqs(current \o all) = Reqs(current) \cup Reqs(all)
      BY <2>1, <2>9, MembersOfConcatenation
    <3>2. current' \o queue' = current \o all
      BY <2>16
    <3>3. Reported(failed)
      BY <2>11, <2>16 DEF Reported
    <3> QED BY <2>2, <2>7, <2>9, <2>10, <2>11, <2>16, <3>1, <3>2, <3>3
  <2> QED BY <2>13, <2>14, <2>15, <2>16
<1> QED BY <1>1, <1>2, <1>3

-----------------------------------------------------------------------------
(* The plugin beside the queue.  Its slot takes a report away and otherwise  *)
(* leaves the queue alone, so the invariant of the queue is kept here too.   *)

(* Taking a report keeps the queue consistent.                               *)
LEMMA ReportTaken == QInv /\ BuildQueueFinished => QInv'
<1> SUFFICES ASSUME QInv, BuildQueueFinished PROVE QInv'
  OBVIOUS
<1>1. /\ posted' = Tail(posted) /\ posted # <<>> /\ posted \in Seq(BOOLEAN)
      /\ UNCHANGED <<queue, current, work, stepOk, running, canceling, active, output,
                     progress, maxProgress, removing, removed, requests, failed>>
  BY DEF BuildQueueFinished, QInv, Consistent, QueueTypes
<1>2. posted' \in Seq(BOOLEAN)
  BY <1>1, HeadTailProperties
<1>3. QueueTypes'
  BY <1>1, <1>2 DEF QInv, Consistent, QueueTypes
<1>4. RunningIsBoolean' /\ StepOfRunning' /\ CurrentIsEnabled'
  BY <1>1 DEF QInv, Consistent, RunningIsBoolean, StepOfRunning, CurrentIsEnabled
<1>5. ActiveCountsExact' /\ NoStrayOutput' /\ NoStepAfterFailure'
  BY <1>1 DEF QInv, Consistent, ActiveCountsExact, NoStrayOutput, NoStepAfterFailure
<1>6. ProgressExact'
  BY <1>1 DEF QInv, Consistent, ProgressExact
<1>7. Flags' /\ (~running' => ~canceling')
  BY <1>1 DEF QInv, Flags
<1>8. History'
  BY <1>1 DEF QInv, History, RequestsKnown
<1> QED BY <1>3, <1>4, <1>5, <1>6, <1>7, <1>8 DEF QInv, Consistent

(* A step of the whole is a step of the queue or a report that is taken.     *)
LEMMA StepOfTheWhole ==
  [RNext]_rvars => [Next]_vars \/ BuildQueueFinished
<1> USE DEF Next, System
<1>1. ASSUME NEW list \in Lists, Build(list) \/ Run(list) PROVE Next
  BY <1>1 DEF Build, Run
<1>2. CASE System \/ Cancel \/ \E p \in Project : AboutToRemoveProject(p)
  BY <1>2
<1>3. CASE UNCHANGED rvars
  BY <1>3 DEF rvars
<1> QED BY <1>1, <1>2, <1>3 DEF RNext

(* The requests that wait and that were launched have been accepted.         *)
RunTypes == delayed \in 0..requests /\ launched \cup hasty \subseteq 1..requests

(* Requests are numbered upwards, and only an accepted one can be delayed.   *)
LEMMA RunTypesKept == QInv /\ RunTypes /\ [RNext]_rvars => RunTypes'
<1> SUFFICES ASSUME QInv, RunTypes, [RNext]_rvars PROVE RunTypes'
  OBVIOUS
<1>1. requests \in Nat
  BY BoundAssumption DEF QInv, History
<1>2. ASSUME requests' = requests, UNCHANGED <<delayed, launched, hasty>> PROVE RunTypes'
  BY <1>2 DEF RunTypes
<1>3. CASE System /\ UNCHANGED <<delayed, launched, hasty>>
  <2>1. requests' = requests
    BY <1>3, NextBuildQueueMoves DEF System, GuiStepFinished, ThreadEnds, ThreadCollected,
                                     DeleteProject, QInv, Flags
  <2> QED BY <1>2, <1>3, <2>1
<1>4. CASE /\ Cancel \/ \E p \in Project : AboutToRemoveProject(p)
           /\ UNCHANGED <<delayed, launched, hasty>>
  <2>1. requests' = requests
    BY <1>4 DEF Cancel, CancelQueue, AboutToRemoveProject
  <2> QED BY <1>2, <1>4, <2>1
<1>5. ASSUME NEW list \in Lists, Build(list) \/ Run(list) PROVE RunTypes'
  <2>1. requests' \in {requests, requests + 1}
    BY <1>5, BuildListsMoves DEF Build, Run
  <2>2. delayed' \in {delayed, requests'} /\ launched' = launched /\ hasty' \subseteq hasty \cup ({requests'} \ {requests})
    BY <1>5 DEF Build, Run
  <2> QED BY <1>1, <2>1, <2>2 DEF RunTypes
<1>6. CASE BuildQueueFinished
  <2>1. /\ delayed' = 0 /\ requests' = requests /\ hasty' = hasty
        /\ launched' \subseteq launched \cup (IF delayed # 0 THEN {delayed} ELSE {})
    BY <1>6 DEF BuildQueueFinished, Resets, Launches
  <2> QED BY <1>1, <2>1 DEF RunTypes
<1>7. CASE UNCHANGED rvars
  BY <1>2, <1>7 DEF rvars, vars
<1> QED BY <1>3, <1>4, <1>5, <1>6, <1>7 DEF RNext

(* An idle queue that nobody waits for.                                      *)
LEMMA RunInit == RInit => QInv /\ RunTypes
<1> SUFFICES ASSUME RInit PROVE QInv /\ RunTypes
  OBVIOUS
<1>1. QInv
  BY InitHolds DEF RInit
<1>2. requests = 0 /\ delayed = 0 /\ launched = {} /\ hasty = {}
  BY DEF RInit, Init
<1> QED BY <1>1, <1>2 DEF RunTypes

(* Both invariants hold in every reachable state.                            *)
LEMMA WholeInvariant == RSpec => [](QInv /\ RunTypes)
<1>1. QInv /\ RunTypes /\ [RNext]_rvars => (QInv /\ RunTypes)'
  BY StepPreserves, ReportTaken, StepOfTheWhole, RunTypesKept
<1> QED BY RunInit, <1>1, PTL DEF RSpec

(* What the variables of the queue and of the plugin hold.                   *)
THEOREM RunTypeCorrect == RSpec => []RTypeOK
<1>1. QInv /\ RunTypes => RTypeOK
  BY InvariantImplies DEF RTypeOK, RunTypes
<1> QED BY <1>1, WholeInvariant, PTL

-----------------------------------------------------------------------------
(* Where every step runs in the GUI thread a cancelled queue is always in    *)
(* the loop of cancel(), which admits no user input.                         *)
LEMMA CancelLoops ==
  ASSUME GuiStep = Step
  PROVE  QInv /\ canceling => InCancelLoop
<1> SUFFICES ASSUME QInv, canceling PROVE InGui
  BY DEF InCancelLoop
<1>1. current \in Seq(Entry) /\ current # <<>>
  BY DEF QInv, Consistent, QueueTypes, StepOfRunning
<1>2. current[1] \in Entry
  BY <1>1, EmptySeq
<1> QED BY <1>1, <1>2 DEF InGui, Entry

(* Between a cancel and the clearing of the queue no request is accepted.    *)
THEOREM CancelShutsTheDoor ==
  ASSUME GuiStep = Step PROVE RSpec => NoRequestWhileCanceling
<1>1. QInv /\ [RNext]_rvars => [canceling => requests' = requests]_vars
  <2> SUFFICES ASSUME QInv, RNext, canceling PROVE requests' = requests
    BY DEF rvars
  <2>1. ~UserMayAct
    BY CancelLoops DEF UserMayAct
  <2>2. CASE System
    BY <2>2, NextBuildQueueMoves DEF System, GuiStepFinished, ThreadEnds, ThreadCollected,
                                     DeleteProject, QInv, Flags
  <2>3. CASE Cancel \/ (\E p \in Project : AboutToRemoveProject(p))
             \/ (\E list \in Lists : Build(list) \/ Run(list))
    BY <2>1, <2>3 DEF Cancel, AboutToRemoveProject, Build, Run, BuildLists
  <2>4. CASE BuildQueueFinished
    BY <2>4 DEF BuildQueueFinished
  <2> QED BY <2>2, <2>3, <2>4 DEF RNext
<1> QED BY <1>1, WholeInvariant, PTL DEF RSpec, NoRequestWhileCanceling

-----------------------------------------------------------------------------
(* Removal.  aboutToRemoveProject asks isBuilding(project), which is exact,  *)
(* and cancels; so between the signal and the deletion the queue either has  *)
(* no step of the project or is cancelled, and the deletion waits for the    *)
(* loop of cancel() to end.                                                  *)
NothingOf(p) == \A s \in Steps(current \o queue) : ProjectOf[s] # p

Removal ==
  /\ removing # NoProject /\ ~canceling => NothingOf(removing)
  /\ \A p \in removed : NothingOf(p)

(* The named property is about positions, the invariant about steps.         *)
LEMMA RemovalImplies == Removal => NoDanglingStep
<1> SUFFICES ASSUME Removal, NEW i \in 1..Len(current \o queue)
             PROVE  ProjectOf[(current \o queue)[i].step] \notin removed
  BY DEF NoDanglingStep
<1>1. (current \o queue)[i].step \in Steps(current \o queue)
  BY DEF Steps
<1> QED BY <1>1 DEF Removal, NothingOf

(* A project that is not building has no step in the queue.                  *)
LEMMA NotBuildingNothing ==
  ASSUME QInv, NEW p \in Project, ~Building(p) \/ ~running
  PROVE  NothingOf(p)
<1> DEFINE all == current \o queue
<1>1. all \in Seq(Entry) /\ (~running => all = <<>>)
  BY BookTallies, EmptySeq DEF QInv
<1>2. CASE ~running
  BY <1>1, <1>2, CountsOfNothing DEF NothingOf
<1>3. CASE ~Building(p)
  <2>1. active[p] = Cardinality(Of(all, p)) /\ active[p] \in Nat
    BY DEF QInv, Consistent, ActiveCountsExact, QueueTypes
  <2>2. Cardinality(Of(all, p)) = 0
    BY <1>3, <2>1 DEF Building
  <2>3. IsFiniteSet(1..Len(all)) /\ Of(all, p) \in SUBSET (1..Len(all))
    BY <1>1, FS_Interval DEF Of
  <2> HIDE DEF all
  <2>4. Of(all, p) = {}
    BY <2>2, <2>3, FS_Subset, FS_EmptySet
  <2> QED BY <2>4 DEF all, Of, Steps, NothingOf
<1> QED BY <1>2, <1>3

(* Every slot of the queue keeps it.                                         *)
LEMMA RemovalKept ==
  ASSUME GuiStep = Step
  PROVE  QInv /\ Removal /\ [RNext]_rvars => Removal'
<1> SUFFICES ASSUME QInv, Removal, [RNext]_rvars PROVE Removal'
  OBVIOUS
<1> DEFINE all == current \o queue
<1>1. ASSUME Steps(current' \o queue') \subseteq Steps(all), UNCHANGED <<removing, removed>>,
             canceling => canceling' \/ current' \o queue' = <<>>
      PROVE  Removal'
  BY <1>1, CountsOfNothing DEF Removal, NothingOf
<1>2. ASSUME UNCHANGED <<queue, current, removing, removed, canceling>> PROVE Removal'
  BY <1>1, <1>2
<1>3. ASSUME NEW ok \in BOOLEAN, NextBuildQueue(ok) PROVE Removal'
  <2>1. /\ Steps(current' \o queue') \subseteq Steps(all)
        /\ canceling => current' \o queue' = <<>>
        /\ UNCHANGED <<removing, removed>>
    BY <1>3, NextBuildQueueMoves DEF Within
  <2> HIDE DEF all
  <2> QED BY <1>1, <2>1
<1>4. CASE System /\ UNCHANGED <<delayed, launched, hasty>>
  <2>1. CASE GuiStepFinished \/ ThreadCollected
    BY <1>3, <2>1 DEF GuiStepFinished, ThreadCollected, QInv, Flags
  <2>2. CASE ThreadEnds
    BY <1>2, <2>2 DEF ThreadEnds
  <2>3. CASE DeleteProject
    <3>1. /\ removing # NoProject /\ ~canceling /\ removed' = removed \cup {removing}
          /\ removing' = NoProject /\ UNCHANGED <<queue, current>>
      BY <2>3, CancelLoops DEF DeleteProject
    <3> QED BY <3>1 DEF Removal, NothingOf
  <2> QED BY <1>4, <2>1, <2>2, <2>3 DEF System
<1>5. CASE Cancel
  BY <1>1, <1>5 DEF Cancel, CancelQueue
<1>6. ASSUME NEW p \in Project, AboutToRemoveProject(p) PROVE Removal'
  <2>1. removing' = p /\ ~canceling
    BY <1>6, CancelLoops DEF AboutToRemoveProject, UserMayAct
  <2>2. CASE CancelQueue
    BY <2>1, <2>2 DEF CancelQueue, Removal, NothingOf
  <2>3. CASE /\ ~(MustCancel(p) /\ running /\ ~canceling)
             /\ UNCHANGED <<queue, current, canceling, removed>>
    <3>1. NothingOf(p)
      BY <2>1, <2>3, NotBuildingNothing DEF MustCancel
    <3> QED BY <2>1, <2>3, <3>1 DEF Removal, NothingOf
  <2> QED BY <1>6, <2>2, <2>3 DEF AboutToRemoveProject
<1>7. ASSUME NEW list \in Lists, BuildLists(list) PROVE Removal'
  <2>1. /\ removing = NoProject /\ UNCHANGED <<removing, removed>>
        /\ Steps(list) \cap {s \in Step : ProjectOf[s] \in removed} = {}
    BY <1>7 DEF BuildLists, UserMayAct
  <2>2. Steps(current' \o queue') \subseteq Steps(all) \cup Steps(list)
    BY <1>7, BuildListsMoves
  <2>3. Steps(list) \subseteq Step
    <3> DEFINE Given == [step : Step, enabled : BOOLEAN]
    <3>1. list \in Seq(Given)
      BY ListAssumption
    <3> HIDE DEF Given
    <3>2. \A i \in 1..Len(list) : list[i] \in Given
      BY <3>1, ElementOfSeq
    <3> QED BY <3>2 DEF Given, Steps
  <2> QED BY <2>1, <2>2, <2>3 DEF Removal, NothingOf
<1>8. CASE \E list \in Lists : Build(list) \/ Run(list)
  BY <1>7, <1>8 DEF Build, Run
<1>9. CASE BuildQueueFinished
  BY <1>2, <1>9 DEF BuildQueueFinished
<1>10. CASE UNCHANGED rvars
  BY <1>2, <1>10 DEF rvars, vars
<1> QED BY <1>4, <1>5, <1>6, <1>8, <1>9, <1>10 DEF RNext

(* removeProjects never deletes a project with a step in the queue, however  *)
(* builds, cancels and removals interleave: no dangling step is left.        *)
THEOREM NoStepDangles ==
  ASSUME GuiStep = Step PROVE RSpec => []NoDanglingStep
<1>1. RInit => Removal
  <2> SUFFICES ASSUME RInit PROVE Removal
    OBVIOUS
  <2>1. removing = NoProject /\ removed = {}
    BY DEF RInit, Init
  <2> QED BY <2>1 DEF Removal
<1>2. QInv /\ Removal /\ [RNext]_rvars => Removal'
  BY RemovalKept
<1>3. Removal => NoDanglingStep
  BY RemovalImplies
<1> QED BY <1>1, <1>2, <1>3, WholeInvariant, PTL DEF RSpec

-----------------------------------------------------------------------------
(* The delayed run, but one asked for with a report on its way.  It waits     *)
(* either for the running queue, none of whose reports is on its way, or for *)
(* a report that is, and that one is its own: a report of success at the     *)
(* head of the queue is of a time when all its steps were done.  An empty    *)
(* list would post a report of its own while the queue runs, which is why    *)
(* none may be handed on.                                                    *)
Waiting ==
  delayed # 0 /\ delayed \notin hasty =>
    \/ running /\ posted = <<>> /\ delayed \notin failed
    \/ /\ posted # <<>>
       /\ Head(posted) => delayed \notin failed \cup Reqs(current \o queue)

(* What is reported while a run waits is about the request it waits for.     *)
LEMMA WaitingKept ==
  ASSUME <<>> \notin Lists
  PROVE  QInv /\ RunTypes /\ Waiting /\ [RNext]_rvars => Waiting'
<1> SUFFICES ASSUME QInv, RunTypes, Waiting, [RNext]_rvars PROVE Waiting'
  OBVIOUS
<1> DEFINE all == current \o queue
<1>1. /\ posted \in Seq(BOOLEAN) /\ requests \in Nat
      /\ delayed \in 0..requests /\ hasty \subseteq 1..requests
      /\ failed \cup Reqs(all) \subseteq 1..requests
  <2>1. posted \in Seq(BOOLEAN)
    BY DEF QInv, Consistent, QueueTypes
  <2>2. requests \in Nat
    BY BoundAssumption DEF QInv, History
  <2>3. failed \cup Reqs(all) \subseteq 1..requests
    BY DEF QInv, History, RequestsKnown
  <2> QED BY <2>1, <2>2, <2>3 DEF RunTypes
<1>2. \A r \in BOOLEAN : /\ Append(posted, r) # <<>>
                         /\ posted # <<>> => Head(Append(posted, r)) = Head(posted)
                         /\ posted = <<>> => Head(Append(posted, r)) = r
  <2> TAKE r \in BOOLEAN
  <2>1. /\ Append(posted, r) \in Seq(BOOLEAN) /\ Len(Append(posted, r)) = Len(posted) + 1
        /\ Append(posted, r)[Len(posted) + 1] = r
        /\ \A i \in 1..Len(posted) : Append(posted, r)[i] = posted[i]
    BY <1>1, AppendProperties
  <2>2. Len(posted) \in Nat /\ (posted = <<>> <=> Len(posted) = 0)
    BY <1>1, EmptySeq
  <2>3. Append(posted, r) # <<>> /\ Head(Append(posted, r)) = Append(posted, r)[1]
    BY <2>1, <2>2, EmptySeq
  <2> QED BY <1>1, <2>1, <2>2, <2>3
(* The three ways a slot may leave the reports, for a request d that no new  *)
(* request is.                                                               *)
<1>3. ASSUME Reported(failed), UNCHANGED <<delayed, hasty>>,
             NEW fresh, delayed # 0 => delayed \notin fresh,
             Reqs(current' \o queue') \subseteq Reqs(all) \cup fresh,
             failed' \subseteq failed \cup Reqs(all) \cup fresh
      PROVE  Waiting'
  <2> SUFFICES ASSUME delayed # 0, delayed \notin hasty
               PROVE  \/ running' /\ posted' = <<>> /\ delayed \notin failed'
                      \/ /\ posted' # <<>>
                         /\ Head(posted') => delayed \notin failed' \cup Reqs(current' \o queue')
    BY <1>3 DEF Waiting
  <2>1. delayed \notin fresh
    BY <1>3
  <2>2. ASSUME current' = <<>>, queue' = <<>> PROVE Reqs(current' \o queue') = {}
    BY <2>2, CountsOfNothing, EmptySeq
  <2> HIDE DEF all
  <2>3. CASE running /\ posted = <<>> /\ delayed \notin failed
    BY <1>2, <1>3, <2>2, <2>3 DEF Reported
  <2>4. CASE posted # <<>> /\ (Head(posted) => delayed \notin failed \cup Reqs(all))
    <3>1. posted' # <<>> /\ Head(posted') = Head(posted)
      BY <1>2, <1>3, <2>4 DEF Reported
    <3> QED BY <1>3, <2>1, <2>4, <3>1
  <2> QED BY <2>3, <2>4 DEF Waiting, all
<1>4. ASSUME UNCHANGED <<queue, current, running, posted, failed, delayed, hasty>>
      PROVE  Waiting'
  BY <1>4 DEF Waiting
<1>5. ASSUME NEW ok \in BOOLEAN, NextBuildQueue(ok), UNCHANGED <<delayed, hasty>> PROVE Waiting'
  <2>1. Reported(failed) /\ Within(all, failed)
    BY <1>5, NextBuildQueueMoves
  <2> HIDE DEF all
  <2> QED BY <1>3, <1>5, <2>1 DEF Within
<1>6. CASE /\ System \/ Cancel \/ \E p \in Project : AboutToRemoveProject(p)
           /\ UNCHANGED <<delayed, launched, hasty>>
  <2>1. CASE GuiStepFinished \/ ThreadCollected
    BY <1>5, <1>6, <2>1 DEF GuiStepFinished, ThreadCollected, QInv, Flags
  <2>2. CASE ThreadEnds \/ DeleteProject \/ Cancel \/ \E p \in Project : AboutToRemoveProject(p)
    BY <1>4, <1>6, <2>2 DEF ThreadEnds, DeleteProject, Cancel, CancelQueue, AboutToRemoveProject
  <2> QED BY <1>6, <2>1, <2>2 DEF System
<1>7. ASSUME NEW list \in Lists, BuildLists(list)
      PROVE  \/ UNCHANGED <<queue, current, running, posted, failed, requests>>
             \/ /\ requests' = requests + 1 /\ Reported(failed)
                /\ Reqs(current' \o queue') \subseteq Reqs(all) \cup {requests'}
                /\ failed' \subseteq failed \cup Reqs(all) \cup {requests'}
  BY <1>7, BuildListsMoves
<1>8. ASSUME NEW list \in Lists, Build(list) PROVE Waiting'
  <2>1. UNCHANGED <<delayed, hasty>> /\ BuildLists(list)
    BY <1>8 DEF Build
  <2>2. delayed \notin {requests + 1}
    BY <1>1
  <2> HIDE DEF all
  <2> QED BY <1>3, <1>4, <1>7, <2>1, <2>2
<1>9. ASSUME NEW list \in Lists, Run(list) PROVE Waiting'
  <2>1. /\ BuildLists(list)
        /\ delayed' = IF requests' > requests THEN requests' ELSE delayed
        /\ hasty' = IF posted # <<>> THEN hasty \cup ({requests'} \ {requests}) ELSE hasty
    BY <1>9 DEF Run
  <2>2. CASE UNCHANGED <<queue, current, running, posted, failed, requests>>
    <3>1. delayed' = delayed /\ hasty' = hasty
      <4> HIDE DEF all
      <4> QED BY <1>1, <2>1, <2>2
    <3> QED BY <3>1, <2>2, <1>4
  <2>3. CASE /\ requests' = requests + 1 /\ Reported(failed)
             /\ Reqs(current' \o queue') \subseteq Reqs(all) \cup {requests'}
    <3>1. delayed' = requests + 1 /\ delayed' \notin failed
      BY <1>1, <2>1, <2>3
    <3>2. CASE posted # <<>>
      <4>1. delayed' \in hasty'
        BY <3>1, <3>2, <1>1, <2>1, <2>3
      <4> QED BY <4>1 DEF Waiting
    <3>3. CASE posted = <<>>
      <4>1. ASSUME current' = <<>>, queue' = <<>> PROVE Reqs(current' \o queue') = {}
        BY <4>1, CountsOfNothing, EmptySeq
      <4> HIDE DEF all
      <4>2. \/ running' /\ posted' = <<>> /\ delayed' \notin failed'
            \/ /\ posted' # <<>>
               /\ Head(posted') => delayed' \notin failed' \cup Reqs(current' \o queue')
        BY <1>2, <2>3, <3>1, <3>3, <4>1 DEF Reported
      <4> QED BY <4>2 DEF Waiting
    <3> QED BY <3>2, <3>3
  <2> QED BY <1>7, <2>1, <2>2, <2>3
<1>10. CASE BuildQueueFinished
  BY <1>10 DEF BuildQueueFinished, Resets, Waiting
<1>11. CASE UNCHANGED rvars
  BY <1>4, <1>11 DEF rvars, vars
<1> QED BY <1>6, <1>8, <1>9, <1>10, <1>11 DEF RNext

(* "Build, then run" starts the program only when every step queued for it   *)
(* has succeeded, although the report it waits for does not say whose it is, *)
(* and also when the run is asked for in the middle of a build.  It must not *)
(* be asked for with a report of an earlier build still on its way.          *)
THEOREM LaunchesFollowSteps ==
  ASSUME <<>> \notin Lists PROVE RSpec => LaunchedOnlyAfterItsSteps
<1>1. RInit => Waiting
  BY DEF RInit, Waiting
<1>2. QInv /\ RunTypes /\ Waiting /\ [RNext]_rvars => Waiting'
  BY WaitingKept
<1>3. QInv /\ Waiting /\ [RNext]_rvars
        => [\A r \in (launched' \ launched) \ hasty :
              r \notin failed /\ r \notin Reqs(current \o queue)]_rvars
  <2> SUFFICES ASSUME QInv, Waiting, RNext, NEW r \in (launched' \ launched) \ hasty
               PROVE  r \notin failed \cup Reqs(current \o queue)
    OBVIOUS
  <2>1. BuildQueueFinished
    BY DEF RNext, Build, Run
  <2>2. posted # <<>> /\ Head(posted) /\ r = delayed /\ delayed # 0
    BY <2>1 DEF BuildQueueFinished, Launches
  <2> QED BY <2>2 DEF Waiting
<1> QED BY <1>1, <1>2, <1>3, WholeInvariant, PTL DEF RSpec, LaunchedOnlyAfterItsSteps
=============================================================================
