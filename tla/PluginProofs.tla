------------------------------ MODULE PluginProofs ------------------------------
(***************************************************************************)
(* Proofs about PluginManager, for every set of plugins and every graph of  *)
(* dependencies.                                                            *)
(*                                                                          *)
(* Four invariants, each on top of those before it: what the variables hold *)
(* (Typed), what a list of plugins is while it is made and afterwards       *)
(* (Lists), how far the plugins have come in each phase (Stages), and what  *)
(* has become of the sound ones (Sane).                                     *)
(***************************************************************************)
EXTENDS PluginManager, SequenceTheorems, TLAPS

-----------------------------------------------------------------------------
(* Sequences *)

(* What Append does to a sequence. *)
LEMMA AppendFacts ==
  ASSUME NEW T, NEW s \in Seq(T), NEW x \in T
  PROVE  /\ Append(s, x) \in Seq(T)
         /\ Len(Append(s, x)) = Len(s) + 1
         /\ DOMAIN Append(s, x) = 1..Len(s) + 1 /\ DOMAIN s = 1..Len(s)
         /\ \A i \in 1..Len(s) : Append(s, x)[i] = s[i]
         /\ Append(s, x)[Len(s) + 1] = x
OBVIOUS

(* What is left of a sequence without its last element. *)
LEMMA FrontFacts ==
  ASSUME NEW T, NEW s \in Seq(T), s # <<>>
  PROVE  /\ SubSeq(s, 1, Len(s) - 1) \in Seq(T)
         /\ Len(s) \in Nat \ {0}
         /\ Len(SubSeq(s, 1, Len(s) - 1)) = Len(s) - 1
         /\ DOMAIN SubSeq(s, 1, Len(s) - 1) = 1..Len(s) - 1 /\ DOMAIN s = 1..Len(s)
         /\ \A i \in 1..Len(s) - 1 : SubSeq(s, 1, Len(s) - 1)[i] = s[i]
         /\ s[Len(s)] \in T
<1>1. Len(s) \in Nat \ {0} /\ DOMAIN s = 1..Len(s) /\ \A i \in 1..Len(s) : s[i] \in T
  OBVIOUS
<1> DEFINE n == Len(s) - 1
           f == SubSeq(s, 1, n)
<1>2. n \in Int /\ 1 \in Int /\ \A i \in 1..n : s[i] \in T
  BY <1>1
<1> HIDE DEF n
<1>3. /\ f \in Seq(T) /\ Len(f) = IF 1 <= n THEN n - 1 + 1 ELSE 0
      /\ \A i \in 1..n - 1 + 1 : f[i] = s[1 + i - 1]
  BY <1>2, SubSeqProperties
<1> USE DEF n
<1> HIDE DEF f
<1>4. n \in Nat /\ Len(f) = n
  <2>1. n \in Nat
    BY <1>1
  <2> HIDE DEF n
  <2>2. (1 <= n \/ n = 0) /\ n - 1 + 1 = n
    BY <2>1
  <2> QED BY <1>3, <2>1, <2>2
<1>5. DOMAIN f = 1..Len(f)
  BY <1>3
<1>6. DOMAIN f = 1..n /\ \A i \in 1..n : f[i] = s[i]
  <2> HIDE DEF n
  <2>1. \A i \in 1..n : i \in 1..n - 1 + 1 /\ 1 + i - 1 = i
    BY <1>4
  <2> QED BY <1>3, <1>4, <1>5, <2>1
<1>7. s[Len(s)] \in T
  BY <1>1
<1> QED BY <1>1, <1>3, <1>4, <1>6, <1>7 DEF f

(* What is left of a sequence without its first element. *)
LEMMA TailFacts ==
  ASSUME NEW T, NEW s \in Seq(T), s # <<>>
  PROVE  /\ Tail(s) \in Seq(T)
         /\ DOMAIN s = 1..Len(s) /\ Len(s) \in Nat \ {0} /\ Len(Tail(s)) = Len(s) - 1
         /\ DOMAIN Tail(s) = 1..Len(s) - 1
         /\ \A i \in 1..Len(s) - 1 : Tail(s)[i] = s[i + 1]
<1>1. Len(s) \in Nat \ {0} /\ DOMAIN s = 1..Len(s)
  OBVIOUS
<1>2. /\ Tail(s) \in Seq(T) /\ Len(Tail(s)) = Len(s) - 1
      /\ \A i \in 1..Len(Tail(s)) : Tail(s)[i] = s[i + 1]
  BY HeadTailProperties
<1> DEFINE t == Tail(s)
<1>3. DOMAIN t = 1..Len(t)
  <2>1. t \in Seq(T)
    BY <1>2
  <2> HIDE DEF t
  <2> QED BY <2>1
<1> QED BY <1>1, <1>2, <1>3

(* The elements of a sequence with one more. *)
LEMMA AppendElements ==
  ASSUME NEW T, NEW s \in Seq(T), NEW x \in T
  PROVE  {Append(s, x)[i] : i \in DOMAIN Append(s, x)} = {s[i] : i \in DOMAIN s} \cup {x}
<1>1. /\ DOMAIN Append(s, x) = 1..Len(s) + 1 /\ DOMAIN s = 1..Len(s) /\ Len(s) \in Nat
      /\ \A i \in 1..Len(s) : Append(s, x)[i] = s[i]
      /\ Append(s, x)[Len(s) + 1] = x
  BY AppendFacts
<1>2. 1..Len(s) + 1 = (1..Len(s)) \cup {Len(s) + 1}
  BY <1>1
<1> DEFINE a == Append(s, x)
<1>3. /\ DOMAIN a = (DOMAIN s) \cup {Len(s) + 1}
      /\ \A i \in DOMAIN s : a[i] = s[i]
      /\ a[Len(s) + 1] = x
  BY <1>1, <1>2
<1> HIDE DEF a
<1>4. {a[i] : i \in DOMAIN a} = {s[i] : i \in DOMAIN s} \cup {x}
  BY <1>3
<1> QED BY <1>4 DEF a

(* The elements of a sequence are those of its front and its last one. *)
LEMMA FrontElements ==
  ASSUME NEW T, NEW s \in Seq(T), s # <<>>
  PROVE  LET front == SubSeq(s, 1, Len(s) - 1)
         IN {s[i] : i \in DOMAIN s} = {front[i] : i \in DOMAIN front} \cup {s[Len(s)]}
<1> DEFINE front == SubSeq(s, 1, Len(s) - 1)
<1>1. /\ DOMAIN front = 1..Len(s) - 1 /\ DOMAIN s = 1..Len(s) /\ Len(s) \in Nat \ {0}
      /\ \A i \in 1..Len(s) - 1 : front[i] = s[i]
  BY FrontFacts
<1>2. 1..Len(s) = (1..Len(s) - 1) \cup {Len(s)}
  BY <1>1
<1> HIDE DEF front
<1>3. {s[i] : i \in DOMAIN s} = {front[i] : i \in DOMAIN front} \cup {s[Len(s)]}
  BY <1>1, <1>2, Zenon
<1> QED BY <1>3 DEF front

-----------------------------------------------------------------------------
(* The types *)

Before == {"resolve", "listing", "enable", "options", "noload"}

(* A list is begun with an index that fits it, and a loop leaves the queue at *)
(* the end it runs to.                                                       *)
Typed ==
  /\ TypeOK
  /\ meta \in Metas
  /\ pc \in Before \ {"enable"} => pos <= 1
  /\ pc \in {"enable", "extend", "delete"} => pos <= Len(queue)
  /\ pc \in {"load", "initialize", "stop"} => pos >= 1

(* Nothing depends on what is broken. *)
LEMMA BrokenNeedsNothing ==
  ASSUME Typed, NEW p \in meta.broken
  PROVE  Deps(p) = {}
BY PluginAssumption DEF Typed, Deps

(* The dependencies of a plugin are plugins. *)
LEMMA DepsType ==
  ASSUME Typed, NEW p \in Plugin
  PROVE  Deps(p) \subseteq Plugin /\ Requires(p) \subseteq Deps(p)
BY DEF Typed, TypeOK, MetaData, Deps, Requires

(* The manager starts with everything in its type. *)
LEMMA TypedInit == Init => Typed
<1> SUFFICES ASSUME Init PROVE Typed
  OBVIOUS
<1>1. meta \in MetaData /\ meta \in Metas
  BY PluginAssumption DEF Init
<1>2. <<>> \in Seq(Plugin) /\ Len(<<>>) = 0
  OBVIOUS
<1>3. /\ forced \in [Plugin -> {"no", "load", "noload"}]
      /\ state \in [Plugin -> State]
  BY DEF Init, State
<1>4. /\ queue \in Seq(Plugin) /\ stack \in Seq(Plugin) /\ delayed \in Seq(Plugin)
      /\ pos \in 0..Len(queue) + 1 /\ options \in 0..MaxOptions
  BY <1>2, PluginAssumption DEF Init
<1>5. /\ pc \in Phase /\ goal \in {"enable", "noload", "load"} /\ parsed \in BOOLEAN
      /\ indirectly \subseteq Plugin /\ err \subseteq Plugin /\ alive \subseteq Plugin
      /\ faulty \subseteq Plugin /\ todo \subseteq Plugin /\ seen \subseteq Plugin
      /\ async \subseteq Plugin /\ pos = 0 /\ pc = "resolve"
  BY DEF Init, Phase
<1> QED BY <1>1, <1>3, <1>4, <1>5 DEF Typed, TypeOK

(* Every step keeps the types. *)
LEMMA TypedStep == Typed /\ [Next]_vars => Typed'
<1> SUFFICES ASSUME Typed, [Next]_vars PROVE Typed'
  OBVIOUS
<1> USE PluginAssumption
<1>e. <<>> \in Seq(Plugin) /\ Len(<<>>) = 0
  OBVIOUS
<1>q. Len(queue) \in Nat /\ DOMAIN queue = 1..Len(queue)
  BY DEF Typed, TypeOK
<1>h. pos \in DOMAIN queue => Here \in Plugin
  BY DEF Typed, TypeOK, Here
<1>s. \A s \in State : [state EXCEPT ![Here] = s] \in [Plugin -> State]
  BY DEF Typed, TypeOK
<1>k. \A p \in Plugin : Kill(p) => state' \in [Plugin -> State] /\ alive' \subseteq Plugin
  BY DEF Typed, TypeOK, Kill, State
<1>1. CASE Resolve
  <2>1. meta.broken \subseteq Plugin
    BY DEF Typed, TypeOK, MetaData
  <2>2. state' \in [Plugin -> State] /\ err' \subseteq Plugin
    BY <1>1, <2>1 DEF Resolve, State, Typed, TypeOK
  <2> QED BY <1>1, <1>e, <2>2 DEF Resolve, Typed, TypeOK, Before, Phase
<1>2. CASE NextSpec
  <2>1. PICK p \in todo :
       /\ todo' = todo \ {p}
       /\ \/ p \in Queued /\ UNCHANGED <<queue, stack, seen>>
          \/ /\ p \notin Queued /\ state[p] = "Read"
             /\ queue' = Append(queue, p) /\ UNCHANGED <<stack, seen>>
          \/ /\ p \notin Queued /\ state[p] # "Read"
             /\ stack' = <<p>> /\ seen' = {p} /\ UNCHANGED queue
    BY <1>2 DEF NextSpec
  <2>2. p \in Plugin
    BY DEF Typed, TypeOK
  <2>3. /\ Append(queue, p) \in Seq(Plugin) /\ Len(Append(queue, p)) = Len(queue) + 1
        /\ <<p>> \in Seq(Plugin)
    BY <2>2, AppendFacts DEF Typed, TypeOK
  <2>4. queue' \in Seq(Plugin) /\ stack' \in Seq(Plugin) /\ seen' \subseteq Plugin
        /\ todo' \subseteq Plugin /\ Len(queue') \in Nat /\ Len(queue') >= Len(queue)
    <3>0. /\ queue \in Seq(Plugin) /\ stack \in Seq(Plugin) /\ seen \subseteq Plugin
          /\ todo' \subseteq Plugin
      BY <2>1 DEF Typed, TypeOK
    <3>1. CASE UNCHANGED <<queue, stack, seen>>
      BY <3>0, <3>1, <1>q
    <3>2. CASE queue' = Append(queue, p) /\ UNCHANGED <<stack, seen>>
      <4> DEFINE a == Append(queue, p)
      <4>1. a \in Seq(Plugin) /\ Len(a) = Len(queue) + 1
        BY <2>3
      <4> HIDE DEF a
      <4>2. queue' = a
        BY <3>2 DEF a
      <4> QED BY <3>0, <3>2, <4>1, <4>2, <1>q
    <3>3. CASE stack' = <<p>> /\ seen' = {p} /\ UNCHANGED queue
      BY <2>2, <2>3, <3>0, <3>3, <1>q
    <3> QED BY <2>1, <3>1, <3>2, <3>3
  <2>5. pos \in 0..Len(queue') + 1
    BY <2>4, <1>q DEF Typed, TypeOK
  <2> QED BY <1>2, <2>4, <2>5 DEF NextSpec, Typed, TypeOK, specs
<1>3. CASE Descend
  <2> DEFINE p == stack[Len(stack)]
             open == Deps(p) \ Queued
  <2>1. \/ /\ queue' = Append(queue, p) /\ stack' = SubSeq(stack, 1, Len(stack) - 1)
           /\ UNCHANGED <<seen, err>>
        \/ \E d \in open :
             \/ /\ Checked(d) /\ Fail(OnStack \cup {d}) /\ UNCHANGED queue
             \/ /\ ~Checked(d) /\ state[d] = "Read"
                /\ queue' = Append(queue, d) /\ Fail(OnStack)
             \/ /\ ~Checked(d) /\ state[d] # "Read"
                /\ stack' = Append(stack, d) /\ seen' = seen \cup {d}
                /\ UNCHANGED <<queue, err>>
    BY <1>3 DEF Descend
  <2>2. stack # <<>> /\ stack \in Seq(Plugin) /\ queue \in Seq(Plugin)
    BY <1>3 DEF Descend, Typed, TypeOK
  <2>3. p \in Plugin /\ SubSeq(stack, 1, Len(stack) - 1) \in Seq(Plugin)
    BY <2>2, FrontFacts
  <2>4. open \subseteq Plugin
    BY <2>3, DepsType
  <2>5. \A d \in Plugin : /\ Append(queue, d) \in Seq(Plugin) /\ Len(Append(queue, d)) = Len(queue) + 1
                          /\ Append(stack, d) \in Seq(Plugin)
    BY <2>2, AppendFacts
  <2>6. OnStack \subseteq Plugin
    BY <2>2 DEF OnStack
  <2> HIDE DEF p, open
  <2>7. /\ queue' \in Seq(Plugin) /\ stack' \in Seq(Plugin) /\ seen' \subseteq Plugin
        /\ err' \subseteq Plugin /\ Len(queue') \in Nat /\ Len(queue') >= Len(queue)
    <3>0. err \subseteq Plugin /\ seen \subseteq Plugin
      BY DEF Typed, TypeOK
    <3>1. CASE /\ queue' = Append(queue, p) /\ stack' = SubSeq(stack, 1, Len(stack) - 1)
               /\ UNCHANGED <<seen, err>>
      BY <2>3, <2>5, <3>0, <3>1, <1>q
    <3>2. CASE \E d \in open : Fail(OnStack \cup {d}) /\ UNCHANGED queue
      BY <2>2, <2>4, <2>6, <3>0, <3>2, <1>q, <1>e DEF Fail
    <3>3. CASE \E d \in open : queue' = Append(queue, d) /\ Fail(OnStack)
      BY <2>4, <2>5, <2>6, <3>0, <3>3, <1>q, <1>e DEF Fail
    <3>4. CASE \E d \in open : stack' = Append(stack, d) /\ seen' = seen \cup {d}
                               /\ UNCHANGED <<queue, err>>
      BY <2>2, <2>4, <2>5, <3>0, <3>4, <1>q
    <3> QED BY <2>1, <3>1, <3>2, <3>3, <3>4
  <2>8. pos \in 0..Len(queue') + 1
    BY <2>7, <1>q DEF Typed, TypeOK
  <2> QED BY <1>3, <2>7, <2>8 DEF Descend, Typed, TypeOK
<1>4. CASE Listed
  <2>1. /\ pc' \in Phase /\ pos' \in 0..Len(queue) + 1
        /\ pc' \in {"enable", "noload", "load"}
        /\ IF pc' = "enable" THEN pos' = Len(queue) ELSE pos' = 1
    BY <1>4, <1>q DEF Listed, Phase, Typed, TypeOK
  <2> QED BY <1>4, <1>q, <2>1 DEF Listed, Typed, TypeOK, specs, load
<1>5. CASE EnableIndirectly
  <2>1. queue[pos] \in Plugin
    BY <1>5, <1>q DEF EnableIndirectly, Typed, TypeOK
  <2>2. indirectly' \subseteq Plugin
    BY <2>1, <1>5, DepsType DEF EnableIndirectly, Typed, TypeOK
  <2> QED BY <1>5, <1>q, <2>2 DEF EnableIndirectly, Typed, TypeOK, specs, load, Before
<1>6. CASE Enabled
  <2>1. pos = 0 /\ pos' = 0 /\ pc' \in {"listing", "options"}
    BY <1>6 DEF Enabled, List
  <2>2. /\ goal' \in {"enable", "noload", "load"} /\ todo' \subseteq Plugin /\ seen' \subseteq Plugin
        /\ queue' \in Seq(Plugin) /\ stack' \in Seq(Plugin) /\ Len(queue') \in Nat
    <3>1. CASE List("load")
      BY <1>6, <3>1, <1>e DEF List
    <3>2. CASE UNCHANGED <<goal, load>>
      BY <1>6, <3>2, <1>q DEF load, Typed, TypeOK
    <3> QED BY <1>6, <3>1, <3>2 DEF Enabled
  <2> QED BY <1>6, <2>1, <2>2 DEF Enabled, Typed, TypeOK, specs, Before, Phase
<1>7. CASE \E p \in Plugin : DisableRequiring(p)
  BY <1>7 DEF DisableRequiring, Typed, TypeOK, specs, load, Before, Phase
<1>8. CASE Load
  BY <1>8, <1>q, <1>h, <1>s DEF Load, Forward, Blame, Typed, TypeOK, specs, load, Before, State
<1>9. CASE Initialize
  BY <1>9, <1>q, <1>h, <1>s DEF Initialize, Forward, Blame, Typed, TypeOK, specs, load, Before, State
<1>10. CASE Extend
  <2>1. Here \in Plugin /\ pos' \in 0..Len(queue) + 1 /\ pc = "extend"
    BY <1>10, <1>q, <1>h DEF Extend, Backward, Typed, TypeOK
  <2>2. Append(delayed, Here) \in Seq(Plugin)
    BY <2>1, AppendFacts DEF Typed, TypeOK
  <2>3. state' \in [Plugin -> State] /\ alive' \subseteq Plugin /\ delayed' \in Seq(Plugin)
    BY <1>10, <2>1, <2>2, <1>s, <1>k DEF Extend, Typed, TypeOK, State
  <2> QED BY <1>10, <2>1, <2>3 DEF Extend, Backward, Typed, TypeOK, load, Before
<1>11. CASE DelayedInitialize
  BY <1>11, TailFacts DEF DelayedInitialize, Typed, TypeOK, specs, load, Before
<1>12. CASE Stop
  BY <1>12, <1>q, <1>h, <1>s DEF Stop, Forward, Blame, Typed, TypeOK, specs, load, Before, State
<1>13. CASE Delete
  BY <1>13, <1>q, <1>h, <1>k DEF Delete, Backward, Typed, TypeOK, load, Before
<1>14. CASE LoopEnds
  BY <1>14, <1>q DEF LoopEnds, Goes, Typed, TypeOK, specs, load, Before, Phase
<1>15. CASE \E p \in Plugin : LoadOption(p) \/ AsyncShutdownFinished(p)
  BY <1>15 DEF LoadOption, AsyncShutdownFinished, Typed, TypeOK, specs, load, Before
<1>16. CASE NoLoadOption
  BY <1>16, <1>e DEF NoLoadOption, List, Typed, TypeOK, specs, load, Before, Phase
<1>17. CASE Parsed
  <2>1. pos <= 1 /\ pos' = pos /\ pc' \in {"listing", "resolve"}
    BY <1>17 DEF Parsed, List, Typed, Before
  <2>2. /\ goal' \in {"enable", "noload", "load"} /\ todo' \subseteq Plugin /\ seen' \subseteq Plugin
        /\ queue' \in Seq(Plugin) /\ stack' \in Seq(Plugin) /\ Len(queue') \in Nat
    <3>1. CASE List("load")
      BY <1>17, <3>1, <1>e DEF List
    <3>2. CASE UNCHANGED <<goal, load>>
      BY <1>17, <3>2, <1>q DEF load, Typed, TypeOK
    <3> QED BY <1>17, <3>1, <3>2 DEF Parsed
  <2> QED BY <1>17, <2>1, <2>2 DEF Parsed, Typed, TypeOK, specs, Before, Phase
<1>18. CASE Quit
  BY <1>18, <1>e, <1>q DEF Quit, Typed, TypeOK, specs, load, Before, Phase
<1>19. CASE UNCHANGED vars
  BY <1>19 DEF vars, load, specs, Typed, TypeOK
<1> QED BY <1>1, <1>2, <1>3, <1>4, <1>5, <1>6, <1>7, <1>8, <1>9, <1>10, <1>11, <1>12,
           <1>13, <1>14, <1>15, <1>16, <1>17, <1>18, <1>19 DEF Next, Manager

(* The manager's variables always hold what they are meant to. *)
THEOREM TypeCorrect == Spec => []TypeOK
<1>1. Typed => TypeOK
  BY DEF Typed
<1> QED BY <1>1, TypedInit, TypedStep, PTL DEF Spec

-----------------------------------------------------------------------------
(* The lists *)

(* What is broken stays unresolved, has an error and is never loaded. *)
Unresolved ==
  /\ alive \cap meta.broken = {}
  /\ pc # "resolve" =>
       /\ meta.broken \subseteq err
       /\ \A p \in Plugin : state[p] = "Read" <=> p \in meta.broken

(* Everything in a queue comes once, after what it depends on. *)
Sorted ==
  \A i \in DOMAIN queue :
    /\ \A d \in Deps(queue[i]) : \E j \in DOMAIN queue : j < i /\ queue[j] = d
    /\ \A j \in DOMAIN queue : queue[i] = queue[j] => i = j

(* The calls of loadQueue that are under way go along the dependencies, each  *)
(* about a plugin of its own.                                                *)
Recursion ==
  pc = "listing" =>
    /\ OnStack \cap (Queued \cup meta.broken) = {}
    /\ OnStack \subseteq seen /\ seen \subseteq OnStack \cup Queued
    /\ \A i, j \in DOMAIN stack : stack[i] = stack[j] => i = j
    /\ \A i \in DOMAIN stack : i # Len(stack) => stack[i + 1] \in Deps(stack[i])
    /\ \A S \in SUBSET Plugin : (\A p \in S : Deps(p) \subseteq S) =>
         \A i, j \in DOMAIN stack : i <= j /\ stack[i] \in S => stack[j] \in S

(* What is left out of a queue has an error. *)
Covered ==
  /\ pc = "listing" => Plugin \subseteq todo \cup Queued \cup err \cup OnStack
  /\ pc \notin {"resolve", "listing"} => Plugin \subseteq Queued \cup err

Lists == Unresolved /\ Sorted /\ Recursion /\ Covered

(* What an empty list is. *)
LEMMA EmptyList ==
  ASSUME Typed, Typed', meta' = meta, queue' = <<>>, stack' = <<>>, seen' = {}, todo' = Plugin,
         pc' = "listing", Unresolved'
  PROVE  Lists'
<1>1. DOMAIN <<>> = {}
  OBVIOUS
<1>2. Queued' = {} /\ OnStack' = {} /\ DOMAIN queue' = {} /\ DOMAIN stack' = {}
  BY <1>1 DEF Queued, OnStack
<1>3. Sorted' /\ Covered' /\ Recursion'
  BY <1>2 DEF Sorted, Covered, Recursion
<1> QED BY <1>3 DEF Lists

(* A list is what it was while nothing is put into it. *)
LEMMA ListsKept ==
  ASSUME Typed, Lists, meta' = meta, UNCHANGED load, err \subseteq err',
         alive' \cap meta.broken = {},
         \A p \in Plugin : state'[p] = "Read" <=> state[p] = "Read",
         pc = "resolve" => pc' = "resolve", pc' = "listing" => pc = "listing",
         pc = "listing" /\ pc' # "listing" => todo = {} /\ stack = <<>>
  PROVE  Lists'
<1>1. queue' = queue /\ stack' = stack /\ seen' = seen /\ todo' = todo
  BY DEF load
<1>2. Queued' = Queued /\ OnStack' = OnStack /\ \A p : Deps(p)' = Deps(p)
  BY <1>1 DEF Queued, OnStack, Deps
<1>3. Unresolved'
  BY DEF Lists, Unresolved
<1>4. Sorted'
  BY <1>1, <1>2 DEF Lists, Sorted
<1>5. Recursion'
  BY <1>1, <1>2 DEF Lists, Recursion
<1>6. Covered'
  <2>1. stack = <<>> => OnStack = {}
    BY DEF OnStack
  <2> QED BY <1>1, <1>2, <2>1 DEF Lists, Covered
<1> QED BY <1>3, <1>4, <1>5, <1>6 DEF Lists

(* A plugin is added to the queue when everything it depends on is there. *)
LEMMA SortedAppend ==
  ASSUME Typed, Sorted, meta' = meta, NEW p \in Plugin, p \notin Queued, Deps(p) \subseteq Queued,
         queue' = Append(queue, p)
  PROVE  Sorted' /\ Queued' = Queued \cup {p}
<1>1. queue \in Seq(Plugin) /\ Len(queue) \in Nat
  BY DEF Typed, TypeOK
<1> DEFINE q == Append(queue, p)
           n == Len(queue)
<1>2. /\ DOMAIN q = 1..n + 1 /\ DOMAIN queue = 1..n
      /\ \A i \in 1..n : q[i] = queue[i]
      /\ q[n + 1] = p
  BY <1>1, AppendFacts
<1>3. {q[i] : i \in DOMAIN q} = Queued \cup {p}
  BY <1>1, AppendElements DEF Queued
<1> HIDE DEF q
<1>4. queue' = q /\ \A x : Deps(x)' = Deps(x)
  BY DEF q, Deps
<1>5. \A i \in 1..n : queue[i] \in Queued /\ queue[i] # p
  BY <1>2 DEF Queued
<1>6. n \in Nat
  BY <1>1
<1> HIDE DEF n
<1>7. ASSUME NEW i \in DOMAIN q
      PROVE  /\ \A d \in Deps(q[i]) : \E j \in DOMAIN q : j < i /\ q[j] = d
             /\ \A j \in DOMAIN q : q[i] = q[j] => i = j
  <2>1. CASE i = n + 1
    <3>1. \A d \in Deps(p) : \E j \in DOMAIN queue : queue[j] = d
      BY DEF Queued
    <3>2. \A d \in Deps(q[i]) : \E j \in DOMAIN q : j < i /\ q[j] = d
      BY <1>2, <1>6, <2>1, <3>1
    <3>3. \A j \in DOMAIN q : q[i] = q[j] => i = j
      BY <1>2, <1>5, <1>6, <2>1
    <3> QED BY <3>2, <3>3
  <2>2. CASE i # n + 1
    <3>1. i \in 1..n
      BY <1>2, <1>6, <2>2
    <3>2. \A d \in Deps(q[i]) : \E j \in DOMAIN q : j < i /\ q[j] = d
      BY <1>2, <1>6, <3>1 DEF Sorted
    <3>3. \A j \in DOMAIN q : q[i] = q[j] => i = j
      BY <1>2, <1>5, <1>6, <3>1 DEF Sorted
    <3> QED BY <3>2, <3>3
  <2> QED BY <2>1, <2>2
<1>8. Sorted'
  BY <1>4, <1>7 DEF Sorted
<1>9. Queued' = {q[i] : i \in DOMAIN q}
  BY <1>4 DEF Queued
<1> QED BY <1>3, <1>8, <1>9

(* The manager starts without a list. *)
LEMMA ListsInit == Init => Lists
<1> SUFFICES ASSUME Init PROVE Lists
  OBVIOUS
<1>1. DOMAIN <<>> = {} /\ queue = <<>> /\ pc = "resolve" /\ alive = {}
  BY DEF Init
<1> QED BY <1>1 DEF Lists, Unresolved, Sorted, Recursion, Covered

(* loadQueue asks for the next plugin. *)
LEMMA ListsNextSpec == Typed /\ Typed' /\ Lists /\ NextSpec => Lists'
<1> SUFFICES ASSUME Typed, Typed', Lists, NextSpec PROVE Lists'
  OBVIOUS
<1>1. PICK p \in todo :
       /\ todo' = todo \ {p}
       /\ \/ p \in Queued /\ UNCHANGED <<queue, stack, seen>>
          \/ /\ p \notin Queued /\ state[p] = "Read"
             /\ queue' = Append(queue, p) /\ UNCHANGED <<stack, seen>>
          \/ /\ p \notin Queued /\ state[p] # "Read"
             /\ stack' = <<p>> /\ seen' = {p} /\ UNCHANGED queue
  BY DEF NextSpec
<1>2. /\ pc = "listing" /\ pc' = "listing" /\ stack = <<>> /\ meta' = meta /\ state' = state
      /\ err' = err /\ alive' = alive
  BY DEF NextSpec, specs
<1>3. OnStack = {} /\ DOMAIN stack = {}
  BY <1>2 DEF OnStack
<1>4. p \in Plugin /\ todo \subseteq Plugin
  BY DEF Typed, TypeOK
<1>5. Unresolved'
  BY <1>2 DEF Lists, Unresolved
<1>6. \A x : Deps(x)' = Deps(x)
  BY <1>2 DEF Deps
<1>7. CASE p \in Queued /\ UNCHANGED <<queue, stack, seen>>
  <2>1. Queued' = Queued /\ OnStack' = OnStack
    BY <1>7 DEF Queued, OnStack
  <2>2. Covered'
    BY <1>1, <1>2, <1>7, <2>1 DEF Lists, Covered
  <2>3. Recursion' /\ Sorted'
    BY <1>2, <1>6, <1>7, <2>1 DEF Lists, Recursion, Sorted
  <2> QED BY <1>5, <2>2, <2>3 DEF Lists
<1>8. CASE p \notin Queued /\ state[p] = "Read" /\ queue' = Append(queue, p) /\ UNCHANGED <<stack, seen>>
  <2>1. p \in meta.broken
    BY <1>2, <1>4, <1>8 DEF Lists, Unresolved
  <2>2. Deps(p) = {}
    BY <2>1, BrokenNeedsNothing
  <2>3. Sorted' /\ Queued' = Queued \cup {p}
    BY <1>2, <1>4, <1>8, <2>2, SortedAppend DEF Lists
  <2>4. OnStack' = {} /\ DOMAIN stack' = {}
    BY <1>3, <1>8 DEF OnStack
  <2>5. Covered'
    BY <1>1, <1>2, <1>3, <2>3 DEF Lists, Covered
  <2>6. Recursion'
    BY <1>2, <1>3, <1>8, <2>3, <2>4 DEF Lists, Recursion
  <2> QED BY <1>5, <2>3, <2>5, <2>6 DEF Lists
<1>9. CASE p \notin Queued /\ state[p] # "Read" /\ stack' = <<p>> /\ seen' = {p} /\ UNCHANGED queue
  <2>1. DOMAIN <<p>> = {1} /\ <<p>>[1] = p /\ Len(<<p>>) = 1
    OBVIOUS
  <2>2. OnStack' = {p} /\ DOMAIN stack' = {1} /\ stack'[1] = p /\ Len(stack') = 1
    BY <1>9, <2>1 DEF OnStack
  <2>3. Queued' = Queued
    BY <1>9 DEF Queued
  <2>4. p \notin meta.broken
    BY <1>2, <1>4, <1>9 DEF Lists, Unresolved
  <2>5. Recursion'
    BY <1>2, <1>9, <2>2, <2>3, <2>4 DEF Recursion
  <2>6. Sorted' /\ Covered'
    BY <1>1, <1>2, <1>3, <1>6, <1>9, <2>2, <2>3 DEF Lists, Sorted, Covered
  <2> QED BY <1>5, <2>5, <2>6 DEF Lists
<1> QED BY <1>1, <1>7, <1>8, <1>9

(* loadQueue goes along a dependency, or comes back. *)
LEMMA ListsDescend == Typed /\ Typed' /\ Lists /\ Descend => Lists'
<1> SUFFICES ASSUME Typed, Typed', Lists, Descend PROVE Lists'
  OBVIOUS
<1> DEFINE p == stack[Len(stack)]
           open == Deps(p) \ Queued
           n == Len(stack)
<1>1. \/ /\ open = {}
         /\ queue' = Append(queue, p) /\ stack' = SubSeq(stack, 1, Len(stack) - 1)
         /\ UNCHANGED <<seen, err>>
      \/ \E d \in open :
           \/ /\ Checked(d) /\ Fail(OnStack \cup {d}) /\ UNCHANGED queue
           \/ /\ ~Checked(d) /\ state[d] = "Read"
              /\ queue' = Append(queue, d) /\ Fail(OnStack)
           \/ /\ ~Checked(d) /\ state[d] # "Read"
              /\ stack' = Append(stack, d) /\ seen' = seen \cup {d}
              /\ UNCHANGED <<queue, err>>
  BY DEF Descend
<1>2. /\ pc = "listing" /\ pc' = "listing" /\ stack # <<>> /\ meta' = meta /\ state' = state
      /\ todo' = todo /\ alive' = alive
  BY DEF Descend
<1>3. /\ stack \in Seq(Plugin) /\ n \in Nat \ {0} /\ DOMAIN stack = 1..n
      /\ p \in Plugin /\ p \in OnStack /\ p = stack[n]
  <2>1. stack \in Seq(Plugin)
    BY DEF Typed, TypeOK
  <2>2. n \in Nat \ {0} /\ DOMAIN stack = 1..n /\ p \in Plugin
    BY <1>2, <2>1, FrontFacts
  <2>3. n \in DOMAIN stack
    BY <2>2
  <2> QED BY <2>1, <2>2, <2>3 DEF OnStack
<1>4. \A x : Deps(x)' = Deps(x)
  BY <1>2 DEF Deps
<1>5. open \subseteq Plugin
  BY <1>3, DepsType
<1>6. /\ OnStack \cap (Queued \cup meta.broken) = {}
      /\ OnStack \subseteq seen /\ seen \subseteq OnStack \cup Queued
      /\ \A i, j \in DOMAIN stack : stack[i] = stack[j] => i = j
      /\ \A i \in DOMAIN stack : i # n => stack[i + 1] \in Deps(stack[i])
      /\ \A S \in SUBSET Plugin : (\A x \in S : Deps(x) \subseteq S) =>
           \A i, j \in DOMAIN stack : i <= j /\ stack[i] \in S => stack[j] \in S
  BY <1>2 DEF Lists, Recursion
<1>7. Plugin \subseteq todo \cup Queued \cup err \cup OnStack
  BY <1>2 DEF Lists, Covered
<1>8. err \subseteq err' => Unresolved'
  BY <1>2 DEF Lists, Unresolved
<1>9. DOMAIN <<>> = {}
  OBVIOUS
<1>10. stack' = <<>> /\ seen' = {} => Recursion'
  BY <1>9 DEF Recursion, OnStack
<1>11. queue' = queue => Queued' = Queued /\ Sorted'
  BY <1>4 DEF Queued, Lists, Sorted
<1> HIDE DEF p, open, n
<1>12. CASE /\ open = {}
            /\ queue' = Append(queue, p) /\ stack' = SubSeq(stack, 1, Len(stack) - 1)
            /\ UNCHANGED <<seen, err>>
  <2>1. p \notin Queued /\ Deps(p) \subseteq Queued
    BY <1>3, <1>6, <1>12 DEF open
  <2>2. Sorted' /\ Queued' = Queued \cup {p}
    BY <1>2, <1>3, <1>12, <2>1, SortedAppend DEF Lists
  <2> DEFINE f == SubSeq(stack, 1, Len(stack) - 1)
  <2>3. /\ Len(f) = n - 1 /\ DOMAIN f = 1..n - 1 /\ \A i \in 1..n - 1 : f[i] = stack[i]
    BY <1>2, <1>3, FrontFacts DEF n
  <2>4. OnStack = {f[i] : i \in DOMAIN f} \cup {p}
    BY <1>2, <1>3, FrontElements DEF OnStack, p
  <2> HIDE DEF f
  <2>5. stack' = f
    BY <1>12 DEF f
  <2>6. OnStack' = {f[i] : i \in DOMAIN f}
    BY <2>5 DEF OnStack
  <2>7. \A i \in 1..n - 1 : i \in DOMAIN stack /\ i # n
    BY <1>3
  <2>8. p \notin OnStack'
    BY <1>3, <1>6, <2>3, <2>6, <2>7
  <2>9. Recursion'
    <3>1. /\ OnStack' \cap (Queued' \cup meta'.broken) = {}
          /\ OnStack' \subseteq seen' /\ seen' \subseteq OnStack' \cup Queued'
      BY <1>2, <1>6, <1>12, <2>2, <2>4, <2>6, <2>8
    <3>2. \A i, j \in DOMAIN f : f[i] = f[j] => i = j
      BY <1>6, <2>3, <2>7
    <3>3. \A i \in DOMAIN f : i # Len(f) => f[i + 1] \in Deps(f[i])
      <4>1. \A i \in 1..n - 1 : i # n - 1 => i + 1 \in 1..n - 1
        BY <1>3
      <4> QED BY <1>6, <2>3, <2>7, <4>1
    <3>4. \A S \in SUBSET Plugin : (\A x \in S : Deps(x) \subseteq S) =>
            \A i, j \in DOMAIN f : i <= j /\ f[i] \in S => f[j] \in S
      BY <1>6, <2>3, <2>7
    <3> QED BY <1>4, <2>5, <3>1, <3>2, <3>3, <3>4 DEF Recursion
  <2>10. Covered'
    BY <1>2, <1>7, <1>12, <2>2, <2>4, <2>6 DEF Covered
  <2> QED BY <1>8, <1>12, <2>2, <2>9, <2>10 DEF Lists
<1>13. CASE \E d \in open : Fail(OnStack \cup {d}) /\ UNCHANGED queue
  <2>1. Recursion' /\ Sorted' /\ Queued' = Queued /\ Unresolved'
    BY <1>8, <1>10, <1>11, <1>13 DEF Fail
  <2>2. Covered'
    BY <1>2, <1>7, <1>13, <2>1 DEF Fail, Covered
  <2> QED BY <2>1, <2>2 DEF Lists
<1>14. CASE \E d \in open : state[d] = "Read" /\ queue' = Append(queue, d) /\ Fail(OnStack)
  <2>1. PICK d \in open : state[d] = "Read" /\ queue' = Append(queue, d) /\ Fail(OnStack)
    BY <1>14
  <2>2. d \in Plugin /\ d \notin Queued /\ d \in meta.broken
    BY <1>2, <1>5, <2>1 DEF open, Lists, Unresolved
  <2>3. Deps(d) = {}
    BY <2>2, BrokenNeedsNothing
  <2>4. Sorted' /\ Queued' = Queued \cup {d}
    BY <1>2, <2>1, <2>2, <2>3, SortedAppend DEF Lists
  <2>5. Recursion' /\ Unresolved'
    BY <1>8, <1>10, <2>1 DEF Fail
  <2>6. Covered'
    BY <1>2, <1>7, <2>1, <2>4 DEF Fail, Covered
  <2> QED BY <2>4, <2>5, <2>6 DEF Lists
<1>15. CASE \E d \in open : /\ ~Checked(d) /\ state[d] # "Read"
                            /\ stack' = Append(stack, d) /\ seen' = seen \cup {d}
                            /\ UNCHANGED <<queue, err>>
  <2>1. PICK d \in open : /\ ~Checked(d) /\ state[d] # "Read"
                          /\ stack' = Append(stack, d) /\ seen' = seen \cup {d}
                          /\ UNCHANGED <<queue, err>>
    BY <1>15
  <2>2. /\ d \in Plugin /\ d \notin Queued /\ d \notin meta.broken /\ d \notin seen
        /\ d \in Deps(p)
    BY <1>2, <1>5, <2>1 DEF open, Lists, Unresolved, Checked
  <2>3. d \notin OnStack
    BY <1>6, <2>2
  <2> DEFINE a == Append(stack, d)
  <2>4. /\ Len(a) = n + 1 /\ DOMAIN a = 1..n + 1 /\ \A i \in 1..n : a[i] = stack[i]
        /\ a[n + 1] = d
    BY <1>3, <2>2, AppendFacts DEF n
  <2>5. {a[i] : i \in DOMAIN a} = OnStack \cup {d}
    BY <1>3, <2>2, AppendElements DEF OnStack
  <2> HIDE DEF a
  <2>6. stack' = a
    BY <2>1 DEF a
  <2>7. OnStack' = OnStack \cup {d}
    BY <2>5, <2>6 DEF OnStack
  <2>8. \A i \in 1..n + 1 : i \in 1..n \/ i = n + 1
    BY <1>3
  <2>9. \A i \in 1..n : stack[i] \in OnStack
    BY <1>3 DEF OnStack
  <2>10. Queued' = Queued /\ Sorted'
    BY <1>11, <2>1
  <2>11. Recursion'
    <3>1. /\ OnStack' \cap (Queued' \cup meta'.broken) = {}
          /\ OnStack' \subseteq seen' /\ seen' \subseteq OnStack' \cup Queued'
      BY <1>2, <1>6, <2>1, <2>2, <2>7, <2>10
    <3>2. \A i, j \in DOMAIN a : a[i] = a[j] => i = j
      BY <1>3, <1>6, <2>3, <2>4, <2>8, <2>9
    <3>3. \A i \in DOMAIN a : i # Len(a) => a[i + 1] \in Deps(a[i])
      <4>1. \A i \in 1..n : i = n \/ (i # n /\ i + 1 \in 1..n)
        BY <1>3
      <4> QED BY <1>3, <1>6, <2>2, <2>4, <2>8, <4>1
    <3>4. ASSUME NEW S \in SUBSET Plugin, \A x \in S : Deps(x) \subseteq S,
                 NEW i \in DOMAIN a, NEW j \in DOMAIN a, i <= j, a[i] \in S
          PROVE  a[j] \in S
      <4>1. CASE j \in 1..n
        <5>1. i \in 1..n
          BY <1>3, <2>4, <3>4, <4>1
        <5> QED BY <1>3, <1>6, <2>4, <3>4, <4>1, <5>1
      <4>2. CASE i \in 1..n /\ j = n + 1
        <5>1. n \in DOMAIN stack /\ i <= n
          BY <1>3, <4>2
        <5>2. p \in S
          BY <1>3, <1>6, <2>4, <3>4, <4>2, <5>1
        <5> QED BY <2>2, <2>4, <3>4, <4>2, <5>2
      <4>3. CASE i = n + 1
        <5>1. j = i
          BY <1>3, <2>4, <3>4, <4>3
        <5> QED BY <3>4, <5>1
      <4> QED BY <2>4, <2>8, <4>1, <4>2, <4>3
    <3> QED BY <1>4, <2>6, <3>1, <3>2, <3>3, <3>4 DEF Recursion
  <2>12. Covered'
    BY <1>2, <1>7, <2>1, <2>7, <2>10 DEF Covered
  <2> QED BY <1>8, <2>1, <2>10, <2>11, <2>12 DEF Lists
<1> QED BY <1>1, <1>12, <1>13, <1>14, <1>15

(* Every step keeps the lists. *)
LEMMA ListsStep == Typed /\ Typed' /\ Lists /\ [Next]_vars => Lists'
<1> SUFFICES ASSUME Typed, Typed', Lists, [Next]_vars PROVE Lists'
  OBVIOUS
<1>h. pos \in DOMAIN queue => Here \in Plugin
  BY DEF Typed, TypeOK, Here
<1>s. state \in [Plugin -> State]
  BY DEF Typed, TypeOK
<1>r. pc # "resolve" => \A p \in Plugin : state[p] = "Read" <=> p \in meta.broken
  BY DEF Lists, Unresolved
<1>a. alive \cap meta.broken = {}
  BY DEF Lists, Unresolved
<1>l. ASSUME NEW for, List(for), meta' = meta, UNCHANGED specs, pc # "resolve"
      PROVE  Lists'
  <2>1. Unresolved'
    BY <1>l DEF Lists, Unresolved, specs
  <2> QED BY <1>l, <2>1, EmptyList DEF List
<1>k. ASSUME NEW p \in Plugin, Kill(p), pc # "resolve"
      PROVE  /\ \A q \in Plugin : state'[q] = "Read" <=> state[q] = "Read"
             /\ alive' \cap meta.broken = {}
  BY <1>k, <1>s, <1>a, <1>r DEF Kill
<1>1. CASE Resolve
  <2>1. Unresolved'
    BY <1>1, <1>a DEF Resolve, Unresolved
  <2> QED BY <1>1, <2>1, EmptyList DEF Resolve
<1>2. CASE NextSpec
  BY <1>2, ListsNextSpec
<1>3. CASE Descend
  BY <1>3, ListsDescend
<1>4. CASE Listed
  <2>1. pc' \in {"enable", "noload", "load"}
    BY <1>4 DEF Listed, Typed, TypeOK
  <2> QED BY <1>4, <2>1, <1>a, ListsKept DEF Listed, specs
<1>5. CASE EnableIndirectly
  BY <1>5, <1>a, ListsKept DEF EnableIndirectly, specs
<1>6. CASE Enabled
  <2>1. meta' = meta /\ state' = state /\ err' = err /\ alive' = alive /\ pc = "enable"
    BY <1>6 DEF Enabled, specs
  <2>2. CASE List("load")
    BY <1>6, <1>l, <2>1, <2>2 DEF Enabled
  <2>3. CASE pc' = "options" /\ UNCHANGED <<goal, load>>
    BY <2>1, <2>3, <1>a, ListsKept
  <2> QED BY <1>6, <2>2, <2>3 DEF Enabled
<1>7. CASE \E p \in Plugin : DisableRequiring(p)
  BY <1>7, <1>a, ListsKept DEF DisableRequiring, specs
<1>8. CASE Load
  <2>1. pos \in DOMAIN queue /\ pc = "load" /\ pc' = pc /\ meta' = meta /\ UNCHANGED load
    BY <1>8 DEF Load, Forward
  <2>2. /\ err \subseteq err'
        /\ \A p \in Plugin : state'[p] = "Read" <=> state[p] = "Read"
        /\ alive' \cap meta.broken = {}
    BY <1>8, <2>1, <1>h, <1>s, <1>a, <1>r DEF Load, Ready, Blame, specs
  <2> QED BY <2>1, <2>2, <1>a, ListsKept
<1>9. CASE Initialize
  <2>1. pos \in DOMAIN queue /\ pc = "initialize" /\ pc' = pc /\ meta' = meta /\ UNCHANGED load
    BY <1>9 DEF Initialize, Forward
  <2>2. /\ err \subseteq err'
        /\ \A p \in Plugin : state'[p] = "Read" <=> state[p] = "Read"
        /\ alive' \cap meta.broken = {}
    BY <1>9, <2>1, <1>h, <1>s, <1>a, <1>r DEF Initialize, Ready, Blame, specs
  <2> QED BY <2>1, <2>2, <1>a, ListsKept
<1>10. CASE Extend
  <2>1. pos \in DOMAIN queue /\ pc = "extend" /\ pc' = pc /\ meta' = meta /\ UNCHANGED load /\ err' = err
    BY <1>10 DEF Extend, Backward
  <2>2. CASE Ready(Here, "Initialized") /\ state' = [state EXCEPT ![Here] = "Running"] /\ UNCHANGED alive
    <3>1. \A p \in Plugin : state'[p] = "Read" <=> state[p] = "Read"
      BY <2>1, <2>2, <1>h, <1>s DEF Ready
    <3> QED BY <2>1, <2>2, <3>1, <1>a, ListsKept
  <2>3. CASE Kill(Here)
    BY <2>1, <2>3, <1>h, <1>k, <1>a, ListsKept
  <2> QED BY <1>10, <2>2, <2>3 DEF Extend
<1>11. CASE DelayedInitialize
  BY <1>11, <1>a, ListsKept DEF DelayedInitialize, specs
<1>12. CASE Stop
  <2>1. pos \in DOMAIN queue /\ pc = "stop" /\ pc' = pc /\ meta' = meta /\ UNCHANGED load
    BY <1>12 DEF Stop, Forward
  <2>2. /\ err \subseteq err'
        /\ \A p \in Plugin : state'[p] = "Read" <=> state[p] = "Read"
        /\ alive' \cap meta.broken = {}
    BY <1>12, <2>1, <1>h, <1>s, <1>a, <1>r DEF Stop, Ready, Blame, specs
  <2> QED BY <2>1, <2>2, <1>a, ListsKept
<1>13. CASE Delete
  <2>1. pos \in DOMAIN queue /\ pc = "delete" /\ pc' = pc /\ meta' = meta /\ UNCHANGED load /\ err' = err
    BY <1>13 DEF Delete, Backward
  <2>2. CASE UNCHANGED <<state, alive>>
    BY <2>1, <2>2, <1>a, ListsKept
  <2>3. CASE Kill(Here)
    BY <2>1, <2>3, <1>h, <1>k, <1>a, ListsKept
  <2> QED BY <1>13, <2>2, <2>3 DEF Delete
<1>14. CASE LoopEnds
  <2>1. pc \notin {"resolve", "listing"} /\ pc' \notin {"resolve", "listing"}
    BY <1>14 DEF LoopEnds, Goes
  <2> QED BY <1>14, <2>1, <1>a, ListsKept DEF LoopEnds, specs
<1>15. CASE \E p \in Plugin : LoadOption(p) \/ AsyncShutdownFinished(p)
  BY <1>15, <1>a, ListsKept DEF LoadOption, AsyncShutdownFinished, specs
<1>16. CASE NoLoadOption
  BY <1>16, <1>l DEF NoLoadOption, specs
<1>17. CASE Parsed
  <2>1. meta' = meta /\ state' = state /\ err' = err /\ alive' = alive /\ pc = "options"
    BY <1>17 DEF Parsed, specs
  <2>2. CASE List("load")
    BY <1>17, <1>l, <2>1, <2>2 DEF Parsed
  <2>3. CASE pc' = "resolve" /\ UNCHANGED <<goal, load>>
    BY <2>1, <2>3, <1>a, ListsKept
  <2> QED BY <1>17, <2>2, <2>3 DEF Parsed
<1>18. CASE Quit
  BY <1>18, <1>a, ListsKept DEF Quit, specs
<1>19. CASE UNCHANGED vars
  BY <1>19, <1>a, ListsKept DEF vars, specs, load
<1> QED BY <1>1, <1>2, <1>3, <1>4, <1>5, <1>6, <1>7, <1>8, <1>9, <1>10, <1>11, <1>12,
           <1>13, <1>14, <1>15, <1>16, <1>17, <1>18, <1>19 DEF Next, Manager

-----------------------------------------------------------------------------
(* The stages *)

Base == {"Read", "Resolved"}
Up == {"Initialized", "Running", "Stopped"}
Live == Up \cup {"Loaded"}

(* An object exists from its loading until it is deleted, and what is up      *)
(* stands on what is up.                                                     *)
Standing ==
  /\ alive = {p \in Plugin : state[p] \in Live}
  /\ \A p \in Plugin : state[p] \notin Base => p \in Queued
  /\ \A p \in Plugin : state[p] \in Live => \A d \in Requires(p) : state[d] \in Live
  /\ \A p \in Plugin : state[p] \in Up => p \notin err /\ \A d \in Requires(p) : state[d] \in Up

(* How far the plugins are before, during and after each loop. *)
Starting ==
  /\ pc \in Before => \A p \in Plugin : state[p] \in Base
  /\ pc = "load" =>
       /\ \A p \in Plugin : state[p] \in Base \cup {"Loaded"}
       /\ \A i \in DOMAIN queue : i >= pos => state[queue[i]] \in Base
  /\ pc = "initialize" =>
       /\ \A p \in Plugin : state[p] \in Base \cup {"Loaded", "Initialized"}
       /\ \A i \in DOMAIN queue : i < pos => ~Ready(queue[i], "Loaded")
  /\ pc = "extend" =>
       /\ \A p \in Plugin : state[p] # "Stopped" /\ (state[p] = "Loaded" => p \in err)
       /\ \A i \in DOMAIN queue :
            IF i > pos THEN state[queue[i]] \in Base \cup {"Running", "Deleted"}
            ELSE state[queue[i]] \notin {"Running", "Deleted"}
  /\ pc = "started" => \A p \in Plugin : state[p] \in Base \cup {"Running", "Deleted"}

Stopping ==
  /\ pc = "stop" =>
       /\ \A p \in Plugin : state[p] \in Base \cup {"Running", "Stopped", "Deleted"}
       /\ \A i \in DOMAIN queue : i < pos => state[queue[i]] # "Running"
  /\ pc \in {"wait", "delete"} =>
       \A p \in Plugin : state[p] \in Base \cup {"Stopped", "Deleted"}
  /\ pc = "delete" => \A i \in DOMAIN queue : i > pos => state[queue[i]] # "Stopped"
  /\ pc = "done" => \A p \in Plugin : state[p] \in Base \cup {"Deleted"}

(* The delayed initialization goes on from the leaves to the root. *)
Delayed ==
  /\ pc \notin {"extend", "started"} => delayed = <<>>
  /\ \A i, j \in DOMAIN delayed : i < j => delayed[i] \notin Deps(delayed[j])
  /\ pc = "extend" =>
       \A i \in DOMAIN delayed : \E k \in DOMAIN queue : k > pos /\ delayed[i] = queue[k]

Stages == Standing /\ Starting /\ Stopping /\ Delayed

(* The plugin a loop has come to, and those before and after it. *)
LEMMA HereFacts ==
  ASSUME Typed, Lists, pos \in DOMAIN queue
  PROVE  /\ Here \in Plugin /\ Here \in Queued
         /\ \A i \in DOMAIN queue : /\ i \in Int /\ queue[i] \in Plugin
                                    /\ queue[i] = Here <=> i = pos
                                    /\ Here \in Deps(queue[i]) => pos < i
         /\ \A d \in Deps(Here) : d \in Plugin /\ \E i \in DOMAIN queue : i < pos /\ queue[i] = d
         /\ Requires(Here) \subseteq Deps(Here)
<1>1. queue \in Seq(Plugin) /\ Len(queue) \in Nat /\ DOMAIN queue = 1..Len(queue)
  BY DEF Typed, TypeOK
<1>2. \A i \in DOMAIN queue : i \in Int /\ queue[i] \in Plugin
  BY <1>1
<1>3. Here \in Plugin /\ Here \in Queued
  BY <1>2 DEF Here, Queued
<1>4. \A i \in DOMAIN queue :
        /\ \A d \in Deps(queue[i]) : \E j \in DOMAIN queue : j < i /\ queue[j] = d
        /\ \A j \in DOMAIN queue : queue[i] = queue[j] => i = j
  BY DEF Lists, Sorted
<1>5. \A i \in DOMAIN queue : queue[i] = Here <=> i = pos
  BY <1>4 DEF Here
<1>6. \A i \in DOMAIN queue : Here \in Deps(queue[i]) => pos < i
  BY <1>4, <1>5
<1>7. Deps(Here) \subseteq Plugin /\ Requires(Here) \subseteq Deps(Here)
  BY <1>3, DepsType
<1>8. \A d \in Deps(Here) : \E i \in DOMAIN queue : i < pos /\ queue[i] = d
  BY <1>4 DEF Here
<1> QED BY <1>2, <1>3, <1>5, <1>6, <1>7, <1>8

(* Before the first plugin is loaded there is nothing to keep. *)
LEMMA NothingLoaded ==
  ASSUME \A p \in Plugin : state'[p] \in Base, alive' = {}, delayed' = <<>>,
         pc' \in Before \cup {"load"}, Typed'
  PROVE  Stages'
<1>1. DOMAIN <<>> = {}
  OBVIOUS
<1>2. \A i \in DOMAIN queue' : queue'[i] \in Plugin
  BY DEF Typed, TypeOK
<1>3. Standing'
  BY DEF Standing, Base, Live, Up
<1>4. Starting' /\ Stopping'
  BY <1>2 DEF Starting, Stopping, Before, Base
<1>5. Delayed'
  BY <1>1 DEF Delayed, Before
<1> QED BY <1>3, <1>4, <1>5 DEF Stages

(* The manager starts with nothing loaded. *)
LEMMA StagesInit == Init => Stages
<1> SUFFICES ASSUME Init PROVE Stages
  OBVIOUS
<1>1. DOMAIN <<>> = {} /\ pc = "resolve" /\ alive = {} /\ delayed = <<>>
      /\ \A p \in Plugin : state[p] = "Read"
  BY DEF Init
<1> QED BY <1>1 DEF Stages, Standing, Starting, Stopping, Delayed, Before, Base, Live, Up

(* Loading keeps the stages. *)
LEMMA StagesLoad == Typed /\ Lists /\ Stages /\ Load => Stages'
<1> SUFFICES ASSUME Typed, Lists, Stages, Load PROVE Stages'
  OBVIOUS
<1>1. /\ pc = "load" /\ pc' = "load" /\ pos \in DOMAIN queue /\ pos' = pos + 1
      /\ meta' = meta /\ queue' = queue /\ delayed' = delayed
  BY DEF Load, Forward, load
<1>2. /\ Here \in Plugin /\ Here \in Queued
      /\ \A i \in DOMAIN queue : /\ i \in Int /\ queue[i] \in Plugin
                                 /\ queue[i] = Here <=> i = pos
      /\ Requires(Here) \subseteq Plugin
  BY <1>1, HereFacts
<1>3. /\ \A p \in Plugin : state[p] \in Base \cup {"Loaded"}
      /\ \A i \in DOMAIN queue : i >= pos => state[queue[i]] \in Base
  BY <1>1 DEF Stages, Starting
<1>4. /\ alive = {p \in Plugin : state[p] \in Live}
      /\ \A p \in Plugin : state[p] \notin Base => p \in Queued
      /\ \A p \in Plugin : state[p] \in Live => \A d \in Requires(p) : state[d] \in Live
  BY DEF Stages, Standing
<1>5. /\ state \in [Plugin -> State] /\ pos \in Int
      /\ \A p : Requires(p)' = Requires(p)
      /\ \A p \in Plugin : Requires(p) \subseteq Plugin
  BY <1>1, DepsType DEF Typed, TypeOK, Requires, Deps
<1>6. Queued' = Queued
  BY <1>1 DEF Queued
<1>7. Delayed'
  <2>1. \A p : Deps(p)' = Deps(p)
    BY <1>1 DEF Deps
  <2> QED BY <1>1, <2>1 DEF Stages, Delayed
<1>8. Stopping'
  BY <1>1 DEF Stopping
<1>9. CASE UNCHANGED <<state, alive>>
  <2>1. \A i \in DOMAIN queue : i >= pos + 1 => i >= pos
    BY <1>2, <1>5
  <2>2. Starting'
    BY <1>1, <1>3, <1>9, <2>1 DEF Starting, Before
  <2>3. Standing'
    BY <1>3, <1>4, <1>5, <1>6, <1>9 DEF Standing, Up, Live, Base
  <2> QED BY <1>7, <1>8, <2>2, <2>3 DEF Stages
<1>10. CASE /\ Ready(Here, "Resolved") /\ DependenciesAre(Here, "Loaded")
            /\ state' = [state EXCEPT ![Here] = "Loaded"] /\ alive' = alive \cup {Here}
  <2>1. \A p \in Plugin : state'[p] = IF p = Here THEN "Loaded" ELSE state[p]
    BY <1>2, <1>5, <1>10
  <2>2. \A i \in DOMAIN queue : i >= pos + 1 => i >= pos /\ queue[i] # Here
    BY <1>2, <1>5
  <2>3. Starting'
    BY <1>1, <1>2, <1>3, <2>1, <2>2 DEF Starting, Before
  <2>4. alive' = {p \in Plugin : state'[p] \in Live}
    BY <1>2, <1>4, <1>10, <2>1 DEF Live
  <2>5. \A p \in Plugin : state'[p] \notin Base => p \in Queued
    BY <1>2, <1>4, <2>1
  <2>6. \A p \in Plugin : state'[p] \in Live => \A d \in Requires(p) : state'[d] \in Live
    BY <1>2, <1>4, <1>5, <1>10, <2>1 DEF Live, DependenciesAre
  <2>7. \A p \in Plugin : state'[p] \notin Up
    BY <1>3, <2>1 DEF Up, Base
  <2>8. Standing'
    BY <1>5, <1>6, <2>4, <2>5, <2>6, <2>7 DEF Standing
  <2> QED BY <1>7, <1>8, <2>3, <2>8 DEF Stages
<1> QED BY <1>9, <1>10 DEF Load, Blame, specs

(* Initializing keeps the stages. *)
LEMMA StagesInitialize == Typed /\ Lists /\ Stages /\ Initialize => Stages'
<1> SUFFICES ASSUME Typed, Lists, Stages, Initialize PROVE Stages'
  OBVIOUS
<1>1. /\ pc = "initialize" /\ pc' = "initialize" /\ pos \in DOMAIN queue /\ pos' = pos + 1
      /\ meta' = meta /\ queue' = queue /\ delayed' = delayed
  BY DEF Initialize, Forward, load
<1>2. /\ Here \in Plugin /\ Here \in Queued
      /\ \A i \in DOMAIN queue : /\ i \in Int /\ queue[i] \in Plugin
                                 /\ queue[i] = Here <=> i = pos
      /\ Requires(Here) \subseteq Plugin
  BY <1>1, HereFacts
<1>3. /\ \A p \in Plugin : state[p] \in Base \cup {"Loaded", "Initialized"}
      /\ \A i \in DOMAIN queue : i < pos => ~Ready(queue[i], "Loaded")
  BY <1>1 DEF Stages, Starting
<1>4. /\ alive = {p \in Plugin : state[p] \in Live}
      /\ \A p \in Plugin : state[p] \notin Base => p \in Queued
      /\ \A p \in Plugin : state[p] \in Live => \A d \in Requires(p) : state[d] \in Live
      /\ \A p \in Plugin : state[p] \in Up => p \notin err /\ \A d \in Requires(p) : state[d] \in Up
  BY DEF Stages, Standing
<1>5. /\ state \in [Plugin -> State] /\ pos \in Int
      /\ \A p : Requires(p)' = Requires(p)
      /\ \A p \in Plugin : Requires(p) \subseteq Plugin
  BY <1>1, DepsType DEF Typed, TypeOK, Requires, Deps
<1>6. Queued' = Queued
  BY <1>1 DEF Queued
<1>7. Delayed'
  <2>1. \A p : Deps(p)' = Deps(p)
    BY <1>1 DEF Deps
  <2> QED BY <1>1, <2>1 DEF Stages, Delayed
<1>8. Stopping'
  BY <1>1 DEF Stopping
<1>0. \A i \in DOMAIN queue : i < pos + 1 => i < pos \/ queue[i] = Here
  BY <1>2, <1>5
<1>9. CASE ~Ready(Here, "Loaded") /\ UNCHANGED specs
  <2>1. \A i \in DOMAIN queue : i < pos + 1 => ~Ready(queue[i], "Loaded")
    BY <1>0, <1>3, <1>9
  <2>2. Starting'
    BY <1>1, <1>3, <1>9, <2>1 DEF Starting, Before, Ready, specs
  <2>3. Standing'
    BY <1>4, <1>5, <1>6, <1>9 DEF Standing, specs
  <2> QED BY <1>7, <1>8, <2>2, <2>3 DEF Stages
<1>10. CASE Ready(Here, "Loaded") /\ Blame(Here)
  <2>1. \A i \in DOMAIN queue : i < pos + 1 => ~Ready(queue[i], "Loaded")'
    BY <1>0, <1>1, <1>3, <1>10 DEF Ready, Blame
  <2>2. Starting'
    BY <1>1, <1>3, <1>10, <2>1 DEF Starting, Before, Blame
  <2>3. Standing'
    BY <1>4, <1>5, <1>6, <1>10 DEF Standing, Blame, Ready, Up
  <2> QED BY <1>7, <1>8, <2>2, <2>3 DEF Stages
<1>11. CASE /\ Ready(Here, "Loaded") /\ DependenciesAre(Here, "Initialized")
            /\ state' = [state EXCEPT ![Here] = "Initialized"] /\ UNCHANGED <<err, alive, faulty>>
  <2>1. \A p \in Plugin : state'[p] = IF p = Here THEN "Initialized" ELSE state[p]
    BY <1>2, <1>5, <1>11
  <2>2. \A i \in DOMAIN queue : i < pos + 1 => ~Ready(queue[i], "Loaded")'
    BY <1>0, <1>1, <1>2, <1>3, <1>11, <2>1 DEF Ready
  <2>3. Starting'
    BY <1>1, <1>2, <1>3, <2>1, <2>2 DEF Starting, Before
  <2>4. alive' = {p \in Plugin : state'[p] \in Live}
    BY <1>2, <1>4, <1>11, <2>1 DEF Live, Up, Ready
  <2>5. \A p \in Plugin : state'[p] \notin Base => p \in Queued
    BY <1>2, <1>4, <2>1
  <2>6. \A p \in Plugin : state'[p] \in Live => \A d \in Requires(p) : state'[d] \in Live
    BY <1>2, <1>4, <1>5, <1>11, <2>1 DEF Live, Up, DependenciesAre
  <2>7. \A p \in Plugin : state'[p] \in Up => p \notin err /\ \A d \in Requires(p) : state'[d] \in Up
    BY <1>2, <1>4, <1>5, <1>11, <2>1 DEF Up, DependenciesAre, Ready
  <2>8. Standing'
    BY <1>5, <1>6, <1>11, <2>4, <2>5, <2>6, <2>7 DEF Standing
  <2> QED BY <1>7, <1>8, <2>3, <2>8 DEF Stages
<1> QED BY <1>9, <1>10, <1>11 DEF Initialize

(* Extending, and deleting what has failed, keeps the stages. *)
LEMMA StagesExtend == Typed /\ Lists /\ Stages /\ Extend => Stages'
<1> SUFFICES ASSUME Typed, Lists, Stages, Extend PROVE Stages'
  OBVIOUS
<1>1. /\ pc = "extend" /\ pc' = "extend" /\ pos \in DOMAIN queue /\ pos' = pos - 1
      /\ meta' = meta /\ queue' = queue /\ err' = err
  BY DEF Extend, Backward, load
<1>2. /\ Here \in Plugin /\ Here \in Queued
      /\ \A i \in DOMAIN queue : /\ i \in Int /\ queue[i] \in Plugin
                                 /\ queue[i] = Here <=> i = pos
                                 /\ Here \in Deps(queue[i]) => pos < i
      /\ \A d \in Deps(Here) : \E i \in DOMAIN queue : i < pos /\ queue[i] = d
      /\ Requires(Here) \subseteq Plugin
  BY <1>1, HereFacts
<1>3. /\ \A p \in Plugin : state[p] # "Stopped" /\ (state[p] = "Loaded" => p \in err)
      /\ \A i \in DOMAIN queue :
           IF i > pos THEN state[queue[i]] \in Base \cup {"Running", "Deleted"}
           ELSE state[queue[i]] \notin {"Running", "Deleted"}
  BY <1>1 DEF Stages, Starting
<1>4. /\ alive = {p \in Plugin : state[p] \in Live}
      /\ \A p \in Plugin : state[p] \notin Base => p \in Queued
      /\ \A p \in Plugin : state[p] \in Live => \A d \in Requires(p) : state[d] \in Live
      /\ \A p \in Plugin : state[p] \in Up => p \notin err /\ \A d \in Requires(p) : state[d] \in Up
  BY DEF Stages, Standing
<1>5. /\ state \in [Plugin -> State] /\ pos \in Int
      /\ \A p : Requires(p)' = Requires(p) /\ Deps(p)' = Deps(p)
      /\ \A p \in Plugin : Requires(p) \subseteq Plugin /\ Requires(p) \subseteq Deps(p)
  BY <1>1, DepsType DEF Typed, TypeOK, Requires, Deps
<1>6. Queued' = Queued
  BY <1>1 DEF Queued
<1>7. Stopping'
  BY <1>1 DEF Stopping
<1>8. \A i \in DOMAIN queue : (i > pos - 1 <=> i > pos \/ i = pos)
  BY <1>2, <1>5
<1>9. /\ \A i, j \in DOMAIN delayed : i < j => delayed[i] \notin Deps(delayed[j])
      /\ \A i \in DOMAIN delayed : \E k \in DOMAIN queue : k > pos /\ delayed[i] = queue[k]
  BY <1>1 DEF Stages, Delayed
<1>10. CASE /\ Ready(Here, "Initialized")
            /\ state' = [state EXCEPT ![Here] = "Running"] /\ delayed' = Append(delayed, Here)
            /\ UNCHANGED alive
  <2>1. \A p \in Plugin : state'[p] = IF p = Here THEN "Running" ELSE state[p]
    BY <1>2, <1>5, <1>10
  <2>2. Starting'
    <3>1. \A i \in DOMAIN queue :
            IF i > pos - 1 THEN state'[queue[i]] \in Base \cup {"Running", "Deleted"}
            ELSE state'[queue[i]] \notin {"Running", "Deleted"}
      BY <1>2, <1>3, <1>8, <2>1
    <3>2. \A p \in Plugin : state'[p] # "Stopped" /\ (state'[p] = "Loaded" => p \in err)
      BY <1>3, <2>1
    <3> QED BY <1>1, <3>1, <3>2 DEF Starting, Before
  <2>3. Standing'
    <3>1. alive' = {p \in Plugin : state'[p] \in Live}
      BY <1>2, <1>4, <1>10, <2>1 DEF Live, Up, Ready
    <3>2. \A p \in Plugin : state'[p] \notin Base => p \in Queued
      BY <1>2, <1>4, <2>1
    <3>3. \A p \in Plugin : state'[p] \in Live => \A d \in Requires(p) : state'[d] \in Live
      BY <1>2, <1>4, <1>5, <1>10, <2>1 DEF Live, Up, Ready
    <3>4. \A p \in Plugin : state'[p] \in Up => p \notin err /\ \A d \in Requires(p) : state'[d] \in Up
      BY <1>2, <1>4, <1>5, <1>10, <2>1 DEF Up, Ready
    <3> QED BY <1>1, <1>5, <1>6, <3>1, <3>2, <3>3, <3>4 DEF Standing
  <2>4. Delayed'
    <3> DEFINE a == Append(delayed, Here)
               n == Len(delayed)
    <3>1. /\ DOMAIN a = 1..n + 1 /\ DOMAIN delayed = 1..n /\ a[n + 1] = Here
          /\ \A i \in 1..n : a[i] = delayed[i]
      BY <1>2, AppendFacts DEF Typed, TypeOK
    <3>2. n \in Nat
      BY DEF Typed, TypeOK
    <3> HIDE DEF a, n
    <3>3. delayed' = a
      BY <1>10 DEF a
    <3>4. \A i \in 1..n : delayed[i] \notin Deps(Here)
      <4>1. SUFFICES ASSUME NEW i \in 1..n, delayed[i] \in Deps(Here) PROVE FALSE
        OBVIOUS
      <4>2. PICK k \in DOMAIN queue : k > pos /\ delayed[i] = queue[k]
        BY <1>9, <3>1
      <4>3. PICK j \in DOMAIN queue : j < pos /\ queue[j] = delayed[i]
        BY <1>2, <4>1
      <4>4. j = k
        BY <4>2, <4>3 DEF Lists, Sorted
      <4> QED BY <1>2, <1>5, <4>2, <4>3, <4>4
    <3>5. \A i, j \in 1..n + 1 : i < j => i \in 1..n /\ (j \in 1..n \/ j = n + 1)
      BY <3>2
    <3>6. \A i, j \in DOMAIN a : i < j => a[i] \notin Deps(a[j])
      BY <1>9, <3>1, <3>4, <3>5
    <3>7. \A i \in DOMAIN a : \E k \in DOMAIN queue : k > pos - 1 /\ a[i] = queue[k]
      <4>1. \A i \in 1..n + 1 : i \in 1..n \/ i = n + 1
        BY <3>2
      <4>2. a[n + 1] = queue[pos] /\ pos \in DOMAIN queue
        BY <1>1, <3>1 DEF Here
      <4> QED BY <1>8, <1>9, <3>1, <4>1, <4>2
    <3> QED BY <1>1, <1>5, <3>3, <3>6, <3>7 DEF Delayed
  <2> QED BY <1>7, <2>2, <2>3, <2>4 DEF Stages
<1>11. CASE ~Ready(Here, "Initialized") /\ Kill(Here) /\ UNCHANGED delayed
  <2>1. state[Here] \in Base \cup {"Loaded"}
    <3>1. state[Here] \in State /\ state[Here] # "Stopped" /\ state[Here] \notin {"Running", "Deleted"}
      BY <1>1, <1>2, <1>3, <1>5 DEF Here
    <3>2. state[Here] # "Initialized"
      BY <1>2, <1>4, <1>11 DEF Ready, Up
    <3> QED BY <3>1, <3>2 DEF State, Base
  <2>2. Delayed'
    BY <1>1, <1>5, <1>8, <1>9, <1>11 DEF Delayed
  <2>3. CASE Here \notin alive
    <3>1. UNCHANGED <<state, alive>> /\ state[Here] \in Base
      BY <1>2, <1>4, <1>11, <2>1, <2>3 DEF Kill, Live
    <3>2. Standing'
      BY <1>1, <1>4, <1>5, <1>6, <3>1 DEF Standing
    <3>3. Starting'
      BY <1>1, <1>2, <1>3, <1>8, <3>1 DEF Starting, Before
    <3> QED BY <1>7, <2>2, <3>2, <3>3 DEF Stages
  <2>4. CASE Here \in alive
    <3>1. state[Here] = "Loaded" /\ alive' = alive \ {Here}
          /\ state' = [state EXCEPT ![Here] = "Deleted"]
      BY <1>4, <1>11, <2>1, <2>4 DEF Kill, Base, Live, Up
    <3>2. \A p \in Plugin : state'[p] = IF p = Here THEN "Deleted" ELSE state[p]
      BY <1>2, <1>5, <3>1
    <3>3. \A p \in Plugin : Here \in Requires(p) => state[p] \notin Live
      <4>1. SUFFICES ASSUME NEW p \in Plugin, Here \in Requires(p), state[p] \in Live PROVE FALSE
        OBVIOUS
      <4>2. state[p] = "Loaded"
        BY <1>4, <3>1, <4>1 DEF Live, Up
      <4>3. PICK i \in DOMAIN queue : queue[i] = p
        BY <1>4, <4>2 DEF Queued, Base
      <4>4. i > pos
        BY <1>2, <1>5, <4>1, <4>3
      <4> QED BY <1>3, <4>2, <4>3, <4>4 DEF Base
    <3>4. Standing'
      <4>1. alive' = {p \in Plugin : state'[p] \in Live}
        BY <1>2, <1>4, <3>1, <3>2 DEF Live, Up
      <4>2. \A p \in Plugin : state'[p] \notin Base => p \in Queued
        BY <1>2, <1>4, <3>2
      <4>3. \A p \in Plugin : state'[p] \in Live => \A d \in Requires(p) : state'[d] \in Live
        BY <1>4, <1>5, <3>2, <3>3 DEF Live, Up
      <4>4. \A p \in Plugin : state'[p] \in Up => p \notin err /\ \A d \in Requires(p) : state'[d] \in Up
        BY <1>4, <1>5, <3>1, <3>2 DEF Up
      <4> QED BY <1>1, <1>5, <1>6, <4>1, <4>2, <4>3, <4>4 DEF Standing
    <3>5. Starting'
      <4>1. \A i \in DOMAIN queue :
              IF i > pos - 1 THEN state'[queue[i]] \in Base \cup {"Running", "Deleted"}
              ELSE state'[queue[i]] \notin {"Running", "Deleted"}
        BY <1>2, <1>3, <1>8, <3>2
      <4>2. \A p \in Plugin : state'[p] # "Stopped" /\ (state'[p] = "Loaded" => p \in err)
        BY <1>3, <3>2
      <4> QED BY <1>1, <4>1, <4>2 DEF Starting, Before
    <3> QED BY <1>7, <2>2, <3>4, <3>5 DEF Stages
  <2> QED BY <2>3, <2>4
<1> QED BY <1>10, <1>11 DEF Extend

(* Stopping keeps the stages: no plugin is blamed, as what it requires has    *)
(* been stopped before it.                                                   *)
LEMMA StagesStop ==
  ASSUME Typed, Lists, Stages, Stop
  PROVE  Stages' /\ (Ready(Here, "Running") => DependenciesAre(Here, "Stopped"))
<1>1. /\ pc = "stop" /\ pc' = "stop" /\ pos \in DOMAIN queue /\ pos' = pos + 1
      /\ meta' = meta /\ queue' = queue /\ delayed' = delayed
  BY DEF Stop, Forward, load
<1>2. /\ Here \in Plugin /\ Here \in Queued
      /\ \A i \in DOMAIN queue : /\ i \in Int /\ queue[i] \in Plugin
                                 /\ queue[i] = Here <=> i = pos
      /\ \A d \in Deps(Here) : d \in Plugin /\ \E i \in DOMAIN queue : i < pos /\ queue[i] = d
      /\ Requires(Here) \subseteq Deps(Here)
  BY <1>1, HereFacts
<1>3. /\ \A p \in Plugin : state[p] \in Base \cup {"Running", "Stopped", "Deleted"}
      /\ \A i \in DOMAIN queue : i < pos => state[queue[i]] # "Running"
  BY <1>1 DEF Stages, Stopping
<1>4. /\ alive = {p \in Plugin : state[p] \in Live}
      /\ \A p \in Plugin : state[p] \notin Base => p \in Queued
      /\ \A p \in Plugin : state[p] \in Live => \A d \in Requires(p) : state[d] \in Live
      /\ \A p \in Plugin : state[p] \in Up => p \notin err /\ \A d \in Requires(p) : state[d] \in Up
  BY DEF Stages, Standing
<1>5. /\ state \in [Plugin -> State] /\ pos \in Int
      /\ \A p : Requires(p)' = Requires(p) /\ Deps(p)' = Deps(p)
      /\ \A p \in Plugin : Requires(p) \subseteq Plugin
  BY <1>1, DepsType DEF Typed, TypeOK, Requires, Deps
<1>6. Queued' = Queued
  BY <1>1 DEF Queued
<1>7. Starting' /\ Delayed'
  BY <1>1, <1>5 DEF Starting, Before, Stages, Delayed
<1>8. ASSUME Ready(Here, "Running") PROVE DependenciesAre(Here, "Stopped")
  <2>1. SUFFICES ASSUME NEW d \in Requires(Here) PROVE state[d] = "Stopped"
    BY DEF DependenciesAre
  <2>2. state[d] \in Up
    BY <1>2, <1>4, <1>8, <2>1 DEF Ready, Up
  <2>3. state[d] # "Running" /\ d \in Plugin
    BY <1>2, <1>3, <2>1
  <2> QED BY <1>3, <2>2, <2>3 DEF Up, Base
<1>9. CASE ~Ready(Here, "Running") /\ UNCHANGED specs
  <2>1. state[Here] # "Running"
    BY <1>2, <1>4, <1>9 DEF Ready, Up
  <2>2. \A i \in DOMAIN queue : i < pos + 1 => i < pos \/ queue[i] = Here
    BY <1>2, <1>5
  <2>3. Stopping'
    BY <1>1, <1>3, <1>9, <2>1, <2>2 DEF Stopping, specs
  <2>4. Standing'
    BY <1>4, <1>5, <1>6, <1>9 DEF Standing, specs
  <2> QED BY <1>7, <1>8, <2>3, <2>4 DEF Stages
<1>10. CASE /\ Ready(Here, "Running") /\ state' = [state EXCEPT ![Here] = "Stopped"]
            /\ UNCHANGED <<err, alive>>
  <2>1. \A p \in Plugin : state'[p] = IF p = Here THEN "Stopped" ELSE state[p]
    BY <1>2, <1>5, <1>10
  <2>2. \A i \in DOMAIN queue : i < pos + 1 => i < pos \/ queue[i] = Here
    BY <1>2, <1>5
  <2>3. Stopping'
    BY <1>1, <1>2, <1>3, <2>1, <2>2 DEF Stopping
  <2>4. alive' = {p \in Plugin : state'[p] \in Live}
    BY <1>2, <1>4, <1>10, <2>1 DEF Live, Up, Ready
  <2>5. \A p \in Plugin : state'[p] \notin Base => p \in Queued
    BY <1>2, <1>4, <2>1
  <2>6. \A p \in Plugin : state'[p] \in Live => \A d \in Requires(p) : state'[d] \in Live
    BY <1>2, <1>4, <1>5, <1>10, <2>1 DEF Live, Up, Ready
  <2>7. \A p \in Plugin : state'[p] \in Up => p \notin err /\ \A d \in Requires(p) : state'[d] \in Up
    BY <1>2, <1>4, <1>5, <1>10, <2>1 DEF Up, Ready
  <2>8. Standing'
    BY <1>5, <1>6, <1>10, <2>4, <2>5, <2>6, <2>7 DEF Standing
  <2> QED BY <1>7, <1>8, <2>3, <2>8 DEF Stages
<1> QED BY <1>8, <1>9, <1>10 DEF Stop

(* Deleting keeps the stages. *)
LEMMA StagesDelete == Typed /\ Lists /\ Stages /\ Delete => Stages'
<1> SUFFICES ASSUME Typed, Lists, Stages, Delete PROVE Stages'
  OBVIOUS
<1>1. /\ pc = "delete" /\ pc' = "delete" /\ pos \in DOMAIN queue /\ pos' = pos - 1
      /\ meta' = meta /\ queue' = queue /\ err' = err /\ delayed' = delayed
  BY DEF Delete, Backward, load
<1>2. /\ Here \in Plugin /\ Here \in Queued
      /\ \A i \in DOMAIN queue : /\ i \in Int /\ queue[i] \in Plugin
                                 /\ queue[i] = Here <=> i = pos
                                 /\ Here \in Deps(queue[i]) => pos < i
  BY <1>1, HereFacts
<1>3. /\ \A p \in Plugin : state[p] \in Base \cup {"Stopped", "Deleted"}
      /\ \A i \in DOMAIN queue : i > pos => state[queue[i]] # "Stopped"
  BY <1>1 DEF Stages, Stopping
<1>4. /\ alive = {p \in Plugin : state[p] \in Live}
      /\ \A p \in Plugin : state[p] \notin Base => p \in Queued
      /\ \A p \in Plugin : state[p] \in Live => \A d \in Requires(p) : state[d] \in Live
      /\ \A p \in Plugin : state[p] \in Up => p \notin err /\ \A d \in Requires(p) : state[d] \in Up
  BY DEF Stages, Standing
<1>5. /\ state \in [Plugin -> State] /\ pos \in Int
      /\ \A p : Requires(p)' = Requires(p) /\ Deps(p)' = Deps(p)
      /\ \A p \in Plugin : Requires(p) \subseteq Plugin /\ Requires(p) \subseteq Deps(p)
  BY <1>1, DepsType DEF Typed, TypeOK, Requires, Deps
<1>6. Queued' = Queued
  BY <1>1 DEF Queued
<1>7. Starting' /\ Delayed'
  BY <1>1, <1>5 DEF Starting, Before, Stages, Delayed
<1>8. \A i \in DOMAIN queue : i > pos - 1 => i > pos \/ queue[i] = Here
  BY <1>2, <1>5
<1>9. CASE state[Here] # "Stopped" /\ UNCHANGED <<state, alive>>
  <2>1. Stopping'
    BY <1>1, <1>3, <1>8, <1>9 DEF Stopping
  <2>2. Standing'
    BY <1>1, <1>4, <1>5, <1>6, <1>9 DEF Standing
  <2> QED BY <1>7, <2>1, <2>2 DEF Stages
<1>10. CASE /\ state[Here] = "Stopped" /\ alive' = alive \ {Here}
            /\ state' = [state EXCEPT ![Here] = "Deleted"]
  <2>1. \A p \in Plugin : state'[p] = IF p = Here THEN "Deleted" ELSE state[p]
    BY <1>2, <1>5, <1>10
  <2>2. \A p \in Plugin : Here \in Requires(p) => state[p] \notin Live
    <3>1. SUFFICES ASSUME NEW p \in Plugin, Here \in Requires(p), state[p] \in Live PROVE FALSE
      OBVIOUS
    <3>2. state[p] = "Stopped"
      BY <1>3, <3>1 DEF Live, Up, Base
    <3>3. PICK i \in DOMAIN queue : queue[i] = p
      BY <1>4, <3>2 DEF Queued, Base
    <3>4. i > pos
      BY <1>2, <1>5, <3>1, <3>3
    <3> QED BY <1>3, <3>2, <3>3, <3>4
  <2>3. Stopping'
    BY <1>1, <1>2, <1>3, <1>8, <2>1 DEF Stopping
  <2>4. alive' = {p \in Plugin : state'[p] \in Live}
    BY <1>2, <1>4, <1>10, <2>1 DEF Live, Up
  <2>5. \A p \in Plugin : state'[p] \notin Base => p \in Queued
    BY <1>2, <1>4, <2>1
  <2>6. \A p \in Plugin : state'[p] \in Live => \A d \in Requires(p) : state'[d] \in Live
    BY <1>4, <1>5, <2>1, <2>2 DEF Live, Up
  <2>7. \A p \in Plugin : state'[p] \in Up => p \notin err /\ \A d \in Requires(p) : state'[d] \in Up
    BY <1>4, <1>5, <2>1, <2>2 DEF Live, Up
  <2>8. Standing'
    BY <1>1, <1>5, <1>6, <2>4, <2>5, <2>6, <2>7 DEF Standing
  <2> QED BY <1>7, <2>3, <2>8 DEF Stages
<1>11. state[Here] = "Stopped" => Here \in alive /\ Ready(Here, "Stopped")
  BY <1>2, <1>4 DEF Live, Up, Ready
<1> QED BY <1>9, <1>10, <1>11 DEF Delete, Kill, Ready

(* What a loop has done to every plugin holds when it ends. *)
LEMMA StagesLoopEnds == Typed /\ Lists /\ Stages /\ LoopEnds => Stages'
<1> SUFFICES ASSUME Typed, Lists, Stages, LoopEnds PROVE Stages'
  OBVIOUS
<1>1. /\ pos \notin DOMAIN queue /\ meta' = meta /\ queue' = queue /\ delayed' = delayed
      /\ state' = state /\ err' = err /\ alive' = alive
  BY DEF LoopEnds, load, specs
<1>2. /\ Len(queue) \in Nat /\ DOMAIN queue = 1..Len(queue) /\ pos \in 0..Len(queue) + 1
      /\ \A i \in DOMAIN queue : queue[i] \in Plugin
  BY DEF Typed, TypeOK
<1>3. /\ pc \in {"load", "initialize", "stop"} => \A i \in DOMAIN queue : i < pos
      /\ pc \in {"extend", "delete"} => \A i \in DOMAIN queue : i > pos
  BY <1>1, <1>2 DEF Typed
<1>4. \A p : Requires(p)' = Requires(p) /\ Deps(p)' = Deps(p)
  BY <1>1 DEF Requires, Deps
<1>5. Queued' = Queued
  BY <1>1 DEF Queued
<1>6. Standing'
  BY <1>1, <1>4, <1>5 DEF Stages, Standing
<1>7. \A i \in DOMAIN queue : i >= 1 /\ ~(i > Len(queue)) /\ ~(i < 1) /\ i > 0
  BY <1>2
<1>8. \A p \in Plugin : state[p] \notin Base => \E i \in DOMAIN queue : queue[i] = p
  BY DEF Stages, Standing, Queued
<1>9. /\ \A i, j \in DOMAIN delayed : i < j => delayed[i] \notin Deps(delayed[j])
      /\ pc \notin {"extend", "started"} => delayed = <<>>
  BY DEF Stages, Delayed
<1>e. DOMAIN <<>> = {}
  OBVIOUS
<1>10. CASE Goes("load", "initialize", 1)
  <2>1. \A p \in Plugin : state[p] \in Base \cup {"Loaded"}
    BY <1>10 DEF Goes, Stages, Starting
  <2>2. Starting' /\ Stopping'
    BY <1>1, <1>7, <1>10, <2>1 DEF Goes, Starting, Stopping, Before
  <2>3. Delayed'
    BY <1>1, <1>4, <1>9, <1>10 DEF Goes, Delayed
  <2> QED BY <1>6, <2>2, <2>3 DEF Stages
<1>11. CASE Goes("initialize", "extend", Len(queue))
  <2>1. /\ \A p \in Plugin : state[p] \in Base \cup {"Loaded", "Initialized"}
        /\ \A i \in DOMAIN queue : ~Ready(queue[i], "Loaded")
    BY <1>3, <1>11 DEF Goes, Stages, Starting
  <2>2. \A p \in Plugin : state[p] # "Stopped" /\ (state[p] = "Loaded" => p \in err)
    BY <1>8, <2>1 DEF Ready, Base
  <2>3. Starting' /\ Stopping'
    BY <1>1, <1>2, <1>7, <1>11, <2>1, <2>2 DEF Goes, Starting, Stopping, Before, Base
  <2>4. Delayed'
    BY <1>1, <1>e, <1>9, <1>11 DEF Goes, Delayed
  <2> QED BY <1>6, <2>3, <2>4 DEF Stages
<1>12. CASE Goes("extend", "started", 0)
  <2>1. \A i \in DOMAIN queue : state[queue[i]] \in Base \cup {"Running", "Deleted"}
    BY <1>3, <1>12 DEF Goes, Stages, Starting
  <2>2. \A p \in Plugin : state[p] \in Base \cup {"Running", "Deleted"}
    BY <1>8, <2>1
  <2>3. Starting' /\ Stopping'
    BY <1>1, <1>12, <2>2 DEF Goes, Starting, Stopping, Before
  <2>4. Delayed'
    BY <1>1, <1>4, <1>9, <1>12 DEF Goes, Delayed
  <2> QED BY <1>6, <2>3, <2>4 DEF Stages
<1>13. CASE Goes("stop", "wait", 0)
  <2>1. /\ \A p \in Plugin : state[p] \in Base \cup {"Running", "Stopped", "Deleted"}
        /\ \A i \in DOMAIN queue : state[queue[i]] # "Running"
    BY <1>3, <1>13 DEF Goes, Stages, Stopping
  <2>2. \A p \in Plugin : state[p] \in Base \cup {"Stopped", "Deleted"}
    BY <1>8, <2>1
  <2>3. Starting' /\ Stopping'
    BY <1>1, <1>13, <2>2 DEF Goes, Starting, Stopping, Before
  <2>4. Delayed'
    BY <1>1, <1>4, <1>9, <1>13 DEF Goes, Delayed
  <2> QED BY <1>6, <2>3, <2>4 DEF Stages
<1>14. CASE Goes("wait", "delete", Len(queue))
  <2>1. \A p \in Plugin : state[p] \in Base \cup {"Stopped", "Deleted"}
    BY <1>14 DEF Goes, Stages, Stopping
  <2>2. Starting' /\ Stopping'
    BY <1>1, <1>7, <1>14, <2>1 DEF Goes, Starting, Stopping, Before
  <2>3. Delayed'
    BY <1>1, <1>4, <1>9, <1>14 DEF Goes, Delayed
  <2> QED BY <1>6, <2>2, <2>3 DEF Stages
<1>15. CASE Goes("delete", "done", 0)
  <2>1. /\ \A p \in Plugin : state[p] \in Base \cup {"Stopped", "Deleted"}
        /\ \A i \in DOMAIN queue : state[queue[i]] # "Stopped"
    BY <1>3, <1>15 DEF Goes, Stages, Stopping
  <2>2. \A p \in Plugin : state[p] \in Base \cup {"Deleted"}
    BY <1>8, <2>1
  <2>3. Starting' /\ Stopping'
    BY <1>1, <1>15, <2>2 DEF Goes, Starting, Stopping, Before
  <2>4. Delayed'
    BY <1>1, <1>4, <1>9, <1>15 DEF Goes, Delayed
  <2> QED BY <1>6, <2>3, <2>4 DEF Stages
<1> QED BY <1>10, <1>11, <1>12, <1>13, <1>14, <1>15 DEF LoopEnds

(* Every step keeps the stages. *)
LEMMA StagesStep == Typed /\ Typed' /\ Lists /\ Stages /\ [Next]_vars => Stages'
<1> SUFFICES ASSUME Typed, Typed', Lists, Stages, [Next]_vars PROVE Stages'
  OBVIOUS
<1>b. pc \in Before =>
        (\A p \in Plugin : state[p] \in Base) /\ alive = {} /\ delayed = <<>>
  BY DEF Stages, Standing, Starting, Delayed, Before, Base, Live, Up
<1>n. ASSUME pc \in Before, pc' \in Before \cup {"load"}, UNCHANGED <<specs, delayed>>
      PROVE  Stages'
  BY <1>b, <1>n, NothingLoaded DEF specs
<1>k. ASSUME UNCHANGED <<specs, queue, meta>>, pc' = pc, pos' = pos, delayed' = delayed
      PROVE  Stages'
  <2>1. /\ \A p : Requires(p)' = Requires(p) /\ Deps(p)' = Deps(p)
        /\ Queued' = Queued
    BY <1>k DEF Requires, Deps, Queued
  <2>2. Standing'
    BY <1>k, <2>1 DEF Stages, Standing, specs
  <2>3. Starting' /\ Stopping' /\ Delayed'
    BY <1>k, <2>1 DEF Stages, Starting, Stopping, Delayed, specs, Ready
  <2> QED BY <2>2, <2>3 DEF Stages
<1>1. CASE Resolve
  <2>1. \A p \in Plugin : state'[p] \in Base
    BY <1>1 DEF Resolve, Base
  <2>2. pc \in Before /\ pc' \in Before /\ alive' = alive /\ delayed' = delayed
    BY <1>1 DEF Resolve, Before
  <2> QED BY <1>b, <2>1, <2>2, NothingLoaded
<1>2. CASE NextSpec
  BY <1>2, <1>n DEF NextSpec, Before
<1>3. CASE Descend
  <2>1. pc \in Before /\ pc' \in Before /\ alive' = alive /\ delayed' = delayed /\ state' = state
    BY <1>3 DEF Descend, Before
  <2> QED BY <1>b, <2>1, NothingLoaded
<1>4. CASE Listed
  <2>1. pc \in Before /\ pc' \in {"enable", "noload", "load"} /\ UNCHANGED <<specs, delayed>>
    BY <1>4 DEF Listed, Before, Typed, TypeOK
  <2> QED BY <1>n, <2>1 DEF Before
<1>5. CASE EnableIndirectly
  BY <1>5, <1>n DEF EnableIndirectly, Before
<1>6. CASE Enabled
  BY <1>6, <1>n DEF Enabled, List, Before
<1>7. CASE \E p \in Plugin : DisableRequiring(p)
  BY <1>7, <1>n DEF DisableRequiring, Before
<1>8. CASE Load
  BY <1>8, StagesLoad
<1>9. CASE Initialize
  BY <1>9, StagesInitialize
<1>10. CASE Extend
  BY <1>10, StagesExtend
<1>11. CASE DelayedInitialize
  <2>1. /\ pc = "started" /\ pc' = "started" /\ UNCHANGED <<specs, queue, meta>>
        /\ delayed # <<>> /\ delayed' = Tail(delayed)
    BY <1>11 DEF DelayedInitialize, load
  <2>2. /\ \A p : Requires(p)' = Requires(p) /\ Deps(p)' = Deps(p)
        /\ Queued' = Queued
    BY <2>1 DEF Requires, Deps, Queued
  <2>3. Standing'
    BY <2>1, <2>2 DEF Stages, Standing, specs
  <2>4. Starting' /\ Stopping'
    BY <2>1 DEF Stages, Starting, Stopping, specs, Before
  <2>5. Delayed'
    <3> DEFINE t == Tail(delayed)
    <3>1. /\ DOMAIN t = 1..Len(delayed) - 1 /\ DOMAIN delayed = 1..Len(delayed)
          /\ Len(delayed) \in Nat \ {0}
          /\ \A i \in 1..Len(delayed) - 1 : t[i] = delayed[i + 1]
      BY <2>1, TailFacts DEF Typed, TypeOK
    <3> HIDE DEF t
    <3>2. delayed' = t
      BY <2>1 DEF t
    <3>3. \A i, j \in DOMAIN t : i < j => i + 1 \in DOMAIN delayed /\ j + 1 \in DOMAIN delayed /\ i + 1 < j + 1
      BY <3>1
    <3>4. \A i, j \in DOMAIN t : i < j => t[i] \notin Deps(t[j])
      BY <3>1, <3>3 DEF Stages, Delayed
    <3> QED BY <2>1, <2>2, <3>2, <3>4 DEF Delayed
  <2> QED BY <2>3, <2>4, <2>5 DEF Stages
<1>12. CASE Stop
  BY <1>12, StagesStop
<1>13. CASE Delete
  BY <1>13, StagesDelete
<1>14. CASE LoopEnds
  BY <1>14, StagesLoopEnds
<1>15. CASE \E p \in Plugin : LoadOption(p) \/ AsyncShutdownFinished(p)
  <2>1. CASE \E p \in Plugin : LoadOption(p)
    BY <1>n, <2>1 DEF LoadOption, Before
  <2>2. CASE \E p \in Plugin : AsyncShutdownFinished(p)
    BY <1>k, <2>2 DEF AsyncShutdownFinished, load
  <2> QED BY <1>15, <2>1, <2>2
<1>16. CASE NoLoadOption
  BY <1>16, <1>n DEF NoLoadOption, List, Before
<1>17. CASE Parsed
  BY <1>17, <1>n DEF Parsed, List, Before
<1>18. CASE Quit
  <2>1. /\ pc = "started" /\ pc' = "stop" /\ pos' = 1 /\ delayed' = <<>>
        /\ UNCHANGED <<specs, queue, meta>>
    BY <1>18 DEF Quit, load
  <2>2. /\ \A p : Requires(p)' = Requires(p)
        /\ Queued' = Queued
    BY <2>1 DEF Requires, Queued
  <2>3. Standing'
    BY <2>1, <2>2 DEF Stages, Standing, specs
  <2>4. \A i \in DOMAIN queue : ~(i < 1)
    BY DEF Typed, TypeOK
  <2>5. Starting' /\ Stopping'
    BY <2>1, <2>4 DEF Stages, Starting, Stopping, specs, Before
  <2>6. DOMAIN <<>> = {}
    OBVIOUS
  <2>7. Delayed'
    BY <2>1, <2>6 DEF Delayed
  <2> QED BY <2>3, <2>5, <2>7 DEF Stages
<1>19. CASE UNCHANGED vars
  BY <1>19, <1>k DEF vars, load
<1> QED BY <1>1, <1>2, <1>3, <1>4, <1>5, <1>6, <1>7, <1>8, <1>9, <1>10, <1>11, <1>12,
           <1>13, <1>14, <1>15, <1>16, <1>17, <1>18, <1>19 DEF Next, Manager

(* No plugin's object is without those of the plugins it requires, whatever   *)
(* the plugins, what is wrong with them and which of them fail.              *)
THEOREM DependenciesStayAlive == Spec => []DependenciesAlive
<1>1. Typed /\ Stages => DependenciesAlive
  <2> SUFFICES ASSUME Typed, Stages, NEW p \in alive, NEW d \in Requires(p) PROVE d \in alive
    BY DEF DependenciesAlive
  <2>1. p \in Plugin /\ state[p] \in Live
    BY DEF Stages, Standing
  <2>2. d \in Plugin /\ state[d] \in Live
    BY <2>1, DepsType DEF Stages, Standing
  <2> QED BY <2>2 DEF Stages, Standing
<1> QED BY <1>1, TypedInit, TypedStep, ListsInit, ListsStep, StagesInit, StagesStep, PTL DEF Spec

-----------------------------------------------------------------------------
(* The order *)

(* Only the loop of the stage brings a plugin into it, and only the plugin the *)
(* loop has come to.                                                         *)
LEMMA OnlyLoops ==
  ASSUME Typed, Lists, Stages, [Next]_vars, NEW p \in Plugin, state'[p] # state[p],
         state'[p] \in Up
  PROVE  /\ pos \in DOMAIN queue /\ p = Here
         /\ \/ /\ state'[p] = "Initialized" /\ pc = "initialize"
               /\ DependenciesAre(Here, "Initialized")
            \/ state'[p] = "Running" /\ pc = "extend"
            \/ state'[p] = "Stopped" /\ pc = "stop"
<1>s. state \in [Plugin -> State]
  BY DEF Typed, TypeOK
<1>r. ~Resolve
  BY DEF Resolve, Up
<1>k. \A q : Kill(q) => state' = state \/ state' = [state EXCEPT ![q] = "Deleted"]
  BY DEF Kill
<1>1. CASE Load
  BY <1>1, <1>s DEF Load, Forward, Blame, specs, Up
<1>2. CASE Initialize
  BY <1>2, <1>s DEF Initialize, Forward, Blame, specs, Up
<1>3. CASE Extend
  BY <1>3, <1>s, <1>k DEF Extend, Backward, Up
<1>4. CASE Stop
  BY <1>4, <1>s DEF Stop, Forward, Blame, specs, Up
<1>5. CASE Delete
  BY <1>5, <1>s, <1>k DEF Delete, Backward, Up
<1>6. CASE UNCHANGED state
  BY <1>6
<1> QED BY <1>r, <1>1, <1>2, <1>3, <1>4, <1>5, <1>6
     DEF Next, Manager, NextSpec, Descend, Listed, EnableIndirectly, Enabled, DisableRequiring,
         DelayedInitialize, LoopEnds, LoadOption, AsyncShutdownFinished, NoLoadOption, Parsed,
         Quit, vars, specs

(* Every step keeps the order the interface of a plugin promises. *)
LEMMA OrderStep ==
  ASSUME Typed, Lists, Stages, [Next]_vars
  PROVE  /\ \A p \in Plugin : InitializedAfter(p) /\ ExtendedAfter(p) /\ StoppedAfter(p)
         /\ DelayedAfter
<1>1. ASSUME NEW p \in Plugin, Becomes(p, "Initialized")
      PROVE  /\ \A d \in Requires(p) : state[d] = "Initialized"
             /\ \A d \in Deps(p) \ {p} : ~Ready(d, "Loaded")
  <2>1. pos \in DOMAIN queue /\ p = Here /\ pc = "initialize" /\ DependenciesAre(Here, "Initialized")
    BY <1>1, OnlyLoops DEF Becomes, Up
  <2>2. \A d \in Deps(p) : \E i \in DOMAIN queue : i < pos /\ queue[i] = d
    BY <2>1, HereFacts
  <2> QED BY <2>1, <2>2 DEF DependenciesAre, Stages, Starting
<1>2. ASSUME NEW p \in Plugin, Becomes(p, "Running"), NEW q \in Plugin \ {p}, p \in Deps(q)
      PROVE  ~Ready(q, "Initialized")
  <2>1. pos \in DOMAIN queue /\ p = Here /\ pc = "extend"
    BY <1>2, OnlyLoops DEF Becomes, Up
  <2>2. SUFFICES ASSUME state[q] = "Initialized" PROVE FALSE
    BY DEF Ready
  <2>3. PICK i \in DOMAIN queue : queue[i] = q
    BY <2>2 DEF Stages, Standing, Queued, Base
  <2>4. i > pos
    <3>1. pos < i /\ i \in Int
      BY <1>2, <2>1, <2>3, HereFacts
    <3>2. pos \in Int
      BY DEF Typed, TypeOK
    <3> QED BY <3>1, <3>2
  <2> QED BY <2>1, <2>2, <2>3, <2>4 DEF Stages, Starting, Base
<1>3. ASSUME NEW p \in Plugin, Becomes(p, "Stopped"), NEW d \in Deps(p) \ {p}
      PROVE  ~Ready(d, "Running")
  <2>1. pos \in DOMAIN queue /\ p = Here /\ pc = "stop"
    BY <1>3, OnlyLoops DEF Becomes, Up
  <2>2. \E i \in DOMAIN queue : i < pos /\ queue[i] = d
    BY <2>1, HereFacts
  <2> QED BY <2>1, <2>2 DEF Stages, Stopping, Ready
<1>4. ASSUME pc = "started", pc' = "started", delayed' # delayed, NEW i \in 2..Len(delayed)
      PROVE  delayed[1] \notin Deps(delayed[i])
  <2>1. 1 \in DOMAIN delayed /\ i \in DOMAIN delayed /\ 1 < i
    BY DEF Typed, TypeOK
  <2> QED BY <2>1 DEF Stages, Delayed
<1> QED BY <1>1, <1>2, <1>3, <1>4 DEF InitializedAfter, ExtendedAfter, StoppedAfter, DelayedAfter

(* The order of initializing, extending, initializing late and stopping holds *)
(* for every graph of dependencies.                                          *)
THEOREM OrderAlwaysKept == Spec => OrderKept
<1>1. Typed /\ Lists /\ Stages /\ [Next]_vars =>
        [/\ \A p \in Plugin : InitializedAfter(p) /\ ExtendedAfter(p) /\ StoppedAfter(p)
         /\ DelayedAfter]_vars
  BY OrderStep
<1> QED BY <1>1, TypedInit, TypedStep, ListsInit, ListsStep, StagesInit, StagesStep, PTL
     DEF Spec, OrderKept

-----------------------------------------------------------------------------
(* What is sound *)

(* What an enabled plugin requires is enabled, where it can be. *)
Enables(p) == Effective(p) => \A d \in Requires(p) \ meta.absent : Effective(d)

EnabledSoFar ==
  /\ pc = "enable" => \A i \in DOMAIN queue : i > pos => Enables(queue[i])
  /\ pc = "noload" \/ (pc = "listing" /\ goal = "noload") => options > 0
  /\ \A p \in Plugin : state[p] \notin Base => Effective(p)

(* The list is made for the last time. *)
Chosen ==
  \/ pc \notin Before
  \/ pc = "listing" /\ goal = "load"
  \/ pc = "options" /\ options = 0

(* Where the plugins of S that are enabled are in each loop. *)
Reached(S) ==
  \A i \in DOMAIN queue :
    queue[i] \in S /\ Effective(queue[i]) =>
      /\ pc = "load" => state[queue[i]] = IF i < pos THEN "Loaded" ELSE "Resolved"
      /\ pc = "initialize" => state[queue[i]] = IF i < pos THEN "Initialized" ELSE "Loaded"
      /\ pc = "extend" => state[queue[i]] = IF i > pos THEN "Running" ELSE "Initialized"
      /\ pc = "started" => state[queue[i]] = "Running"

Undisturbed(S) ==
  /\ S \cap err = {}
  /\ Chosen => \A p \in S : Enables(p)
  /\ Reached(S)

Sane == EnabledSoFar /\ \A S \in SUBSET Plugin : Sound(S) => Undisturbed(S)

(* What is known of a sound set. *)
LEMMA SoundFacts ==
  ASSUME Typed, NEW S \in SUBSET Plugin, Sound(S)
  PROVE  /\ \A p \in S : p \in Plugin /\ Deps(p) \subseteq S /\ Requires(p) \subseteq S
         /\ S \cap (meta.broken \cup meta.absent) = {}
BY DepsType DEF Sound

(* loadQueue finds no cycle with a sound plugin in it. *)
LEMMA NoCycle ==
  ASSUME Typed, Lists, pc = "listing", stack # <<>>, NEW S \in SUBSET Plugin, Sound(S),
         NEW d \in Deps(stack[Len(stack)]), d \in seen, d \notin Queued
  PROVE  d \notin S /\ OnStack \cap S = {}
<1> DEFINE n == Len(stack)
           p == stack[n]
<1>1. n \in Nat \ {0} /\ DOMAIN stack = 1..n /\ n \in DOMAIN stack
  <2>1. n \in Nat \ {0} /\ DOMAIN stack = 1..n
    BY FrontFacts DEF Typed, TypeOK
  <2> QED BY <2>1
<1>2. /\ seen \subseteq OnStack \cup Queued
      /\ \A i \in DOMAIN stack : i # n => stack[i + 1] \in Deps(stack[i])
      /\ (\A x \in S : Deps(x) \subseteq S) =>
           \A i, j \in DOMAIN stack : i <= j /\ stack[i] \in S => stack[j] \in S
  BY DEF Lists, Recursion
<1>3. \A i, j \in DOMAIN stack : i <= j /\ stack[i] \in S => stack[j] \in S
  BY <1>2, SoundFacts
<1>4. d \in Deps(p)
  OBVIOUS
<1> HIDE DEF n
<1>5. PICK m \in DOMAIN stack : stack[m] = d
  BY <1>2 DEF OnStack
<1>6. ASSUME NEW i \in DOMAIN stack, stack[i] \in S PROVE d \in S
  <2>1. i <= n
    BY <1>1
  <2>2. p \in S
    BY <1>1, <1>3, <1>6, <2>1
  <2> QED BY <1>4, <2>2, SoundFacts
<1>7. d \notin S
  <2>1. SUFFICES ASSUME d \in S PROVE FALSE
    OBVIOUS
  <2> DEFINE T == {stack[j] : j \in m..n}
  <2>2. \A j \in m..n : j \in DOMAIN stack /\ m <= j
    BY <1>1, <1>5
  <2>3. T \subseteq S
    BY <1>3, <1>5, <2>1, <2>2
  <2>4. d \in T /\ m \in m..n
    BY <1>1, <1>5
  <2>5. PICK x \in T : Deps(x) \cap T = {}
    BY <2>3, <2>4 DEF Sound, WithoutCycle
  <2>6. PICK j \in m..n : x = stack[j]
    BY <2>5
  <2>7. CASE j = n
    BY <1>4, <2>4, <2>5, <2>6, <2>7
  <2>8. CASE j # n
    <3>1. j + 1 \in m..n
      BY <1>1, <1>5, <2>6, <2>8
    <3>2. stack[j + 1] \in T
      BY <3>1
    <3>3. stack[j + 1] \in Deps(x)
      BY <1>2, <2>2, <2>6, <2>8
    <3> QED BY <2>5, <3>2, <3>3
  <2> QED BY <2>7, <2>8
<1>8. OnStack \cap S = {}
  BY <1>6, <1>7 DEF OnStack
<1> QED BY <1>7, <1>8

(* What a sound plugin requires is there when its turn comes. *)
LEMMA SoundDependencies ==
  ASSUME Typed, Lists, NEW S \in SUBSET Plugin, Sound(S), Undisturbed(S),
         pos \in DOMAIN queue, pc \in {"load", "initialize"}, Here \in S, Effective(Here)
  PROVE  /\ state[Here] = IF pc = "load" THEN "Resolved" ELSE "Loaded"
         /\ DependenciesAre(Here, IF pc = "load" THEN "Loaded" ELSE "Initialized")
<1>1. pos \in Int
  BY DEF Typed, TypeOK
<1>2. Chosen
  BY DEF Chosen, Before
<1>3. state[Here] = IF pc = "load" THEN "Resolved" ELSE "Loaded"
  BY <1>1 DEF Undisturbed, Reached, Here
<1>4. ASSUME NEW d \in Requires(Here)
      PROVE  state[d] = IF pc = "load" THEN "Loaded" ELSE "Initialized"
  <2>1. d \in S /\ d \notin meta.absent
    BY SoundFacts
  <2>2. Effective(d)
    BY <1>2, <2>1 DEF Undisturbed, Enables
  <2>3. \E i \in DOMAIN queue : i < pos /\ queue[i] = d
    BY HereFacts
  <2> QED BY <2>1, <2>2, <2>3 DEF Undisturbed, Reached
<1> QED BY <1>3, <1>4 DEF DependenciesAre

(* A sound plugin is never blamed. *)
LEMMA SoundErr ==
  ASSUME Typed, Lists, Stages, EnabledSoFar, [Next]_vars,
         NEW S \in SUBSET Plugin, Sound(S), S \cap faulty' = {}, Undisturbed(S)
  PROVE  S \cap err' = {}
<1>e. S \cap err = {} /\ \A p \in S : p \notin meta.broken
  BY SoundFacts DEF Undisturbed
<1>k. UNCHANGED err => S \cap err' = {}
  BY <1>e
<1>h. ASSUME pos \in DOMAIN queue, Here \notin S, Blame(Here)
      PROVE  S \cap err' = {}
  BY <1>e, <1>h DEF Blame
<1>1. CASE Resolve
  BY <1>1, <1>e DEF Resolve
<1>2. CASE Descend
  <2> DEFINE p == stack[Len(stack)]
             open == Deps(p) \ Queued
  <2>1. \/ UNCHANGED err
        \/ \E d \in open : \/ Checked(d) /\ Fail(OnStack \cup {d})
                           \/ state[d] = "Read" /\ Fail(OnStack)
    BY <1>2 DEF Descend
  <2>2. pc = "listing" /\ stack # <<>>
    BY <1>2 DEF Descend
  <2>3. ASSUME NEW d \in open, Checked(d), Fail(OnStack \cup {d})
        PROVE  S \cap err' = {}
    <3>1. d \notin S /\ OnStack \cap S = {}
      BY <2>2, <2>3, NoCycle DEF Checked
    <3> QED BY <1>e, <2>3, <3>1 DEF Fail
  <2>4. ASSUME NEW d \in open, state[d] = "Read", Fail(OnStack)
        PROVE  S \cap err' = {}
    <3> DEFINE n == Len(stack)
    <3>1. n \in Nat \ {0} /\ DOMAIN stack = 1..n /\ p \in Plugin
      BY <2>2, FrontFacts DEF Typed, TypeOK
    <3>2. n \in DOMAIN stack /\ \A i \in DOMAIN stack : i <= n
      BY <3>1
    <3>3. \A i \in DOMAIN stack : stack[i] \in S => p \in S
      BY <2>2, <3>2, SoundFacts DEF Lists, Recursion
    <3>4. d \in Plugin /\ d \in Deps(p)
      BY <3>1, DepsType
    <3>5. d \in meta.broken
      BY <2>2, <2>4, <3>4 DEF Lists, Unresolved
    <3>6. p \notin S
      BY <1>e, <3>4, <3>5, SoundFacts
    <3>7. OnStack \cap S = {}
      BY <3>3, <3>6 DEF OnStack
    <3> QED BY <1>e, <2>4, <3>7 DEF Fail
  <2> QED BY <1>k, <2>1, <2>3, <2>4
<1>3. CASE Load
  <2>1. pos \in DOMAIN queue /\ pc = "load"
    BY <1>3 DEF Load, Forward
  <2>2. \/ UNCHANGED err
        \/ Effective(Here) /\ ~DependenciesAre(Here, "Loaded") /\ Blame(Here)
        \/ Here \in faulty' /\ Blame(Here)
    BY <1>3 DEF Load, specs
  <2>3. Effective(Here) /\ Here \in S => DependenciesAre(Here, "Loaded")
    BY <2>1, SoundDependencies
  <2> QED BY <1>k, <1>h, <2>1, <2>2, <2>3
<1>4. CASE Initialize
  <2>1. pos \in DOMAIN queue /\ pc = "initialize"
    BY <1>4 DEF Initialize, Forward
  <2>2. \/ UNCHANGED err
        \/ Ready(Here, "Loaded") /\ ~DependenciesAre(Here, "Initialized") /\ Blame(Here)
        \/ Here \in faulty' /\ Blame(Here)
    BY <1>4 DEF Initialize, specs
  <2>3. Ready(Here, "Loaded") => Effective(Here)
    BY <2>1, HereFacts DEF EnabledSoFar, Ready, Base
  <2>4. Effective(Here) /\ Here \in S => DependenciesAre(Here, "Initialized")
    BY <2>1, SoundDependencies
  <2> QED BY <1>k, <1>h, <2>1, <2>2, <2>3, <2>4
<1>5. CASE Stop
  <2>1. UNCHANGED err
    BY <1>5, StagesStop DEF Stop, specs
  <2> QED BY <1>k, <2>1
<1>6. CASE UNCHANGED err
  BY <1>6, <1>k
<1> QED BY <1>1, <1>2, <1>3, <1>4, <1>5, <1>6
     DEF Next, Manager, NextSpec, Listed, EnableIndirectly, Enabled, DisableRequiring, Extend,
         Delete, DelayedInitialize, LoopEnds, LoadOption, AsyncShutdownFinished, NoLoadOption,
         Parsed, Quit, vars, specs

(* When the plugins have been chosen, what a sound one requires is chosen.    *)
LEMMA SoundChosen ==
  ASSUME Typed, Lists, EnabledSoFar, [Next]_vars,
         NEW S \in SUBSET Plugin, Sound(S), Undisturbed(S), Chosen'
  PROVE  \A p \in S : Enables(p)'
<1>m. meta' = meta
  BY DEF Next, Manager, Resolve, NextSpec, Descend, Listed, EnableIndirectly, Enabled,
         DisableRequiring, Load, Initialize, Extend, Stop, Delete, DelayedInitialize, LoopEnds,
         LoadOption, AsyncShutdownFinished, NoLoadOption, Parsed, Quit, vars
<1>k. ASSUME forced' = forced, indirectly' = indirectly
      PROVE  \A p \in S : Enables(p)' <=> Enables(p)
  <2>1. \A p : (Effective(p)' <=> Effective(p)) /\ Requires(p)' = Requires(p)
    BY <1>m, <1>k DEF Effective, Wanted, Requires
  <2> QED BY <1>m, <2>1 DEF Enables
<1>c. Chosen => \A p \in S : Enables(p)
  BY DEF Undisturbed
<1>1. CASE Enabled
  <2>1. pc = "enable" /\ pos = 0 /\ forced' = forced /\ indirectly' = indirectly
    BY <1>1 DEF Enabled
  <2>2. S \subseteq Queued
    BY <2>1 DEF Lists, Covered, Undisturbed
  <2>3. \A i \in DOMAIN queue : i > pos
    BY <2>1 DEF Typed, TypeOK
  <2>4. \A i \in DOMAIN queue : Enables(queue[i])
    BY <2>1, <2>3 DEF EnabledSoFar
  <2>5. \A p \in S : Enables(p)
    BY <2>2, <2>4 DEF Queued
  <2> QED BY <1>k, <2>1, <2>5
<1>2. CASE Chosen /\ forced' = forced /\ indirectly' = indirectly
  BY <1>2, <1>c, <1>k
<1>3. ~Resolve /\ ~EnableIndirectly /\ ~NoLoadOption
  BY DEF Chosen, Resolve, EnableIndirectly, NoLoadOption, List, Before
<1>4. \A p \in Plugin : ~DisableRequiring(p) /\ ~LoadOption(p)
  BY DEF Chosen, DisableRequiring, LoadOption, EnabledSoFar, Before, Typed, TypeOK
<1>5. ASSUME NextSpec \/ Descend PROVE Chosen /\ forced' = forced /\ indirectly' = indirectly
  BY <1>5 DEF NextSpec, Descend, Chosen, Before
<1>6. ASSUME Listed PROVE Chosen /\ forced' = forced /\ indirectly' = indirectly
  BY <1>6 DEF Listed, Chosen, Before, Typed, TypeOK
<1>7. ASSUME Load \/ Initialize \/ Extend \/ Stop \/ Delete \/ LoopEnds \/ DelayedInitialize
             \/ Quit \/ \E p \in Plugin : AsyncShutdownFinished(p)
      PROVE  Chosen /\ forced' = forced /\ indirectly' = indirectly
  BY <1>7 DEF Load, Initialize, Extend, Stop, Delete, LoopEnds, Goes, DelayedInitialize, Quit,
              AsyncShutdownFinished, Forward, Backward, Chosen, Before
<1>8. ASSUME Parsed PROVE Chosen /\ forced' = forced /\ indirectly' = indirectly
  BY <1>8 DEF Parsed, Chosen, Before
<1>9. ASSUME UNCHANGED vars PROVE Chosen /\ forced' = forced /\ indirectly' = indirectly
  BY <1>9 DEF vars, Chosen
<1> QED BY <1>1, <1>2, <1>3, <1>4, <1>5, <1>6, <1>7, <1>8, <1>9 DEF Next, Manager

(* The plugins that are chosen go from stage to stage where they are sound.   *)
LEMMA SoundReached ==
  ASSUME Typed, Lists, Stages, EnabledSoFar, [Next]_vars, NEW S \in SUBSET Plugin, Sound(S),
         S \cap faulty' = {}, Undisturbed(S)
  PROVE  Reached(S)'
<1>s. state \in [Plugin -> State] /\ pos \in Int
  BY DEF Typed, TypeOK
<1>q. \A i \in DOMAIN queue : i \in Int /\ queue[i] \in Plugin
  BY DEF Typed, TypeOK
<1>e. S \cap err = {} /\ \A p \in S : p \notin meta.broken
  BY SoundFacts DEF Undisturbed
<1>f. ASSUME meta' = meta, forced' = forced, indirectly' = indirectly, NEW p
      PROVE  Effective(p)' <=> Effective(p)
  BY <1>f DEF Effective, Wanted
<1>1. CASE Listed
  <2>1. /\ meta' = meta /\ forced' = forced /\ indirectly' = indirectly /\ state' = state
        /\ queue' = queue /\ pc = "listing" /\ pos' = IF pc' = "enable" THEN Len(queue) ELSE 1
        /\ pc' \in {"enable", "noload", "load"}
    BY <1>1 DEF Listed, specs, load, Typed, TypeOK
  <2>2. \A p \in S : state[p] = "Resolved"
    BY <1>e, <2>1 DEF Lists, Unresolved, Stages, Starting, Before, Base
  <2>3. \A i \in DOMAIN queue : ~(i < 1)
    BY DEF Typed, TypeOK
  <2> QED BY <2>1, <2>2, <2>3 DEF Reached
<1>2. CASE Load
  <2>1. /\ pc = "load" /\ pc' = "load" /\ pos \in DOMAIN queue /\ pos' = pos + 1
        /\ meta' = meta /\ forced' = forced /\ indirectly' = indirectly /\ queue' = queue
    BY <1>2 DEF Load, Forward, load
  <2>2. Here \in Plugin /\ \A i \in DOMAIN queue : queue[i] = Here <=> i = pos
    BY <2>1, HereFacts
  <2>3. Here \in S /\ Effective(Here) =>
          /\ Ready(Here, "Resolved") /\ DependenciesAre(Here, "Loaded")
    BY <1>e, <2>1, SoundDependencies DEF Ready
  <2>4. \A p \in Plugin : p # Here => state'[p] = state[p]
    BY <1>2, <1>s, <2>2 DEF Load, Blame, specs
  <2>5. Here \in S /\ Effective(Here) => state'[Here] = "Loaded"
    BY <1>2, <1>s, <2>2, <2>3 DEF Load
  <2>6. ASSUME NEW i \in DOMAIN queue, queue[i] \in S, Effective(queue[i])
        PROVE  state'[queue[i]] = IF i < pos + 1 THEN "Loaded" ELSE "Resolved"
    <3>1. CASE i = pos
      BY <1>s, <2>2, <2>5, <2>6, <3>1
    <3>2. CASE i # pos
      <4>1. state[queue[i]] = IF i < pos THEN "Loaded" ELSE "Resolved"
        BY <2>1, <2>6 DEF Undisturbed, Reached
      <4>2. i < pos + 1 <=> i < pos
        BY <1>q, <1>s, <3>2
      <4> QED BY <1>q, <2>2, <2>4, <3>2, <4>1, <4>2
    <3> QED BY <3>1, <3>2
  <2> QED BY <1>f, <2>1, <2>6 DEF Reached
<1>3. CASE Initialize
  <2>1. /\ pc = "initialize" /\ pc' = "initialize" /\ pos \in DOMAIN queue /\ pos' = pos + 1
        /\ meta' = meta /\ forced' = forced /\ indirectly' = indirectly /\ queue' = queue
    BY <1>3 DEF Initialize, Forward, load
  <2>2. Here \in Plugin /\ \A i \in DOMAIN queue : queue[i] = Here <=> i = pos
    BY <2>1, HereFacts
  <2>3. Here \in S /\ Effective(Here) =>
          /\ Ready(Here, "Loaded") /\ DependenciesAre(Here, "Initialized")
    BY <1>e, <2>1, SoundDependencies DEF Ready
  <2>4. \A p \in Plugin : p # Here => state'[p] = state[p]
    BY <1>3, <1>s, <2>2 DEF Initialize, Blame, specs
  <2>5. Here \in S /\ Effective(Here) => state'[Here] = "Initialized"
    BY <1>3, <1>s, <2>2, <2>3 DEF Initialize
  <2>6. ASSUME NEW i \in DOMAIN queue, queue[i] \in S, Effective(queue[i])
        PROVE  state'[queue[i]] = IF i < pos + 1 THEN "Initialized" ELSE "Loaded"
    <3>1. CASE i = pos
      BY <1>s, <2>2, <2>5, <2>6, <3>1
    <3>2. CASE i # pos
      <4>1. state[queue[i]] = IF i < pos THEN "Initialized" ELSE "Loaded"
        BY <2>1, <2>6 DEF Undisturbed, Reached
      <4>2. i < pos + 1 <=> i < pos
        BY <1>q, <1>s, <3>2
      <4> QED BY <1>q, <2>2, <2>4, <3>2, <4>1, <4>2
    <3> QED BY <3>1, <3>2
  <2> QED BY <1>f, <2>1, <2>6 DEF Reached
<1>4. CASE Extend
  <2>1. /\ pc = "extend" /\ pc' = "extend" /\ pos \in DOMAIN queue /\ pos' = pos - 1
        /\ meta' = meta /\ forced' = forced /\ indirectly' = indirectly /\ queue' = queue
    BY <1>4 DEF Extend, Backward, load
  <2>2. Here \in Plugin /\ \A i \in DOMAIN queue : queue[i] = Here <=> i = pos
    BY <2>1, HereFacts
  <2>3. Here \in S /\ Effective(Here) => Ready(Here, "Initialized")
    BY <1>e, <1>s, <2>1 DEF Undisturbed, Reached, Ready, Here
  <2>4. \A p \in Plugin : p # Here => state'[p] = state[p]
    BY <1>4, <1>s, <2>2 DEF Extend, Kill
  <2>5. Here \in S /\ Effective(Here) => state'[Here] = "Running"
    BY <1>4, <1>s, <2>2, <2>3 DEF Extend
  <2>6. ASSUME NEW i \in DOMAIN queue, queue[i] \in S, Effective(queue[i])
        PROVE  state'[queue[i]] = IF i > pos - 1 THEN "Running" ELSE "Initialized"
    <3>1. CASE i = pos
      BY <1>s, <2>2, <2>5, <2>6, <3>1
    <3>2. CASE i # pos
      <4>1. state[queue[i]] = IF i > pos THEN "Running" ELSE "Initialized"
        BY <2>1, <2>6 DEF Undisturbed, Reached
      <4>2. i > pos - 1 <=> i > pos
        BY <1>q, <1>s, <3>2
      <4> QED BY <1>q, <2>2, <2>4, <3>2, <4>1, <4>2
    <3> QED BY <3>1, <3>2
  <2> QED BY <1>f, <2>1, <2>6 DEF Reached
<1>5. CASE LoopEnds
  <2>1. /\ pos \notin DOMAIN queue /\ queue' = queue /\ state' = state
        /\ meta' = meta /\ forced' = forced /\ indirectly' = indirectly
    BY <1>5 DEF LoopEnds, load, specs
  <2>2. /\ pc \in {"load", "initialize"} => \A i \in DOMAIN queue : i < pos
        /\ pc = "extend" => \A i \in DOMAIN queue : i > pos
    BY <2>1 DEF Typed, TypeOK
  <2>3. \A i \in DOMAIN queue : ~(i < 1) /\ ~(i > Len(queue))
    BY DEF Typed, TypeOK
  <2>4. CASE Goes("load", "initialize", 1)
    BY <1>f, <2>1, <2>2, <2>3, <2>4 DEF Goes, Undisturbed, Reached
  <2>5. CASE Goes("initialize", "extend", Len(queue))
    BY <1>f, <2>1, <2>2, <2>3, <2>5 DEF Goes, Undisturbed, Reached
  <2>6. CASE Goes("extend", "started", 0)
    BY <1>f, <2>1, <2>2, <2>6 DEF Goes, Undisturbed, Reached
  <2>7. CASE pc' \in {"wait", "delete", "done"}
    BY <2>7 DEF Reached
  <2> QED BY <1>5, <2>4, <2>5, <2>6, <2>7 DEF LoopEnds, Goes
<1>6. CASE DelayedInitialize
  BY <1>6, <1>f DEF DelayedInitialize, specs, load, Undisturbed, Reached
<1>7. CASE UNCHANGED vars
  BY <1>7, <1>f DEF vars, specs, load, Undisturbed, Reached
<1>8. CASE pc' \notin {"load", "initialize", "extend", "started"}
  BY <1>8 DEF Reached
<1>9. ASSUME \/ Resolve \/ NextSpec \/ Descend \/ EnableIndirectly \/ Enabled \/ NoLoadOption
             \/ Parsed \/ Quit \/ Stop \/ Delete
             \/ \E p \in Plugin : DisableRequiring(p) \/ LoadOption(p) \/ AsyncShutdownFinished(p)
      PROVE  pc' \notin {"load", "initialize", "extend", "started"}
  BY <1>9 DEF Resolve, NextSpec, Descend, EnableIndirectly, Enabled, NoLoadOption, Parsed, Quit,
              Stop, Delete, Forward, Backward, List, DisableRequiring, LoadOption,
              AsyncShutdownFinished
<1> QED BY <1>1, <1>2, <1>3, <1>4, <1>5, <1>6, <1>7, <1>8, <1>9 DEF Next, Manager

(* What the loop over the queue has enabled stays enabled. *)
LEMMA EnabledStep ==
  Typed /\ Typed' /\ Lists /\ Stages /\ Stages' /\ EnabledSoFar /\ [Next]_vars => EnabledSoFar'
<1> SUFFICES ASSUME Typed, Typed', Lists, Stages, Stages', EnabledSoFar, [Next]_vars
             PROVE  EnabledSoFar'
  OBVIOUS
<1>b. pc' \in Before => \A p \in Plugin : state'[p] \in Base
  BY DEF Stages, Starting
<1>o. options \in Nat
  BY PluginAssumption DEF Typed, TypeOK
<1>f. ASSUME meta' = meta, forced' = forced, indirectly' = indirectly
      PROVE  \A p : Effective(p)' <=> Effective(p)
  BY <1>f DEF Effective, Wanted
<1>l. pc' \in Before \ {"enable"} /\ (pc' = "noload" \/ (pc' = "listing" /\ goal' = "noload") => options' > 0)
        => EnabledSoFar'
  BY <1>b DEF EnabledSoFar
<1>n. ASSUME meta' = meta, forced' = forced, indirectly' = indirectly, pc' \notin Before,
             \A p \in Plugin : state'[p] = state[p] \/ state'[p] \in Base \/ state[p] \notin Base
      PROVE  EnabledSoFar'
  BY <1>f, <1>n DEF EnabledSoFar, Before
<1>s. state \in [Plugin -> State]
  BY DEF Typed, TypeOK
<1>1. CASE EnableIndirectly
  <2>1. /\ pc = "enable" /\ pc' = "enable" /\ pos > 0 /\ pos' = pos - 1 /\ queue' = queue
        /\ meta' = meta /\ forced' = forced /\ state' = state
        /\ indirectly' = indirectly \cup
             (IF Effective(Here) THEN {d \in Requires(Here) : ~Effective(d)} ELSE {})
    BY <1>1 DEF EnableIndirectly, specs, load, Here
  <2>2. pos \in DOMAIN queue /\ pos \in Int
    BY <2>1 DEF Typed, TypeOK
  <2>3. /\ \A i \in DOMAIN queue : i \in Int /\ queue[i] \in Plugin
        /\ \A d \in Deps(Here) : \E i \in DOMAIN queue : i < pos /\ queue[i] = d
        /\ Requires(Here) \subseteq Deps(Here)
        /\ \A i, j \in DOMAIN queue : queue[i] = queue[j] => i = j
    BY <2>2, HereFacts DEF Lists, Sorted
  <2>4. \A p : /\ Effective(p) => Effective(p)'
               /\ p \notin Requires(Here) => (Effective(p)' <=> Effective(p))
               /\ Requires(p)' = Requires(p)
    BY <2>1 DEF Effective, Wanted, Requires
  <2>5. \A i \in DOMAIN queue : i >= pos => queue[i] \notin Requires(Here)
    <3>1. SUFFICES ASSUME NEW i \in DOMAIN queue, i >= pos, queue[i] \in Requires(Here) PROVE FALSE
      OBVIOUS
    <3>2. PICK j \in DOMAIN queue : j < pos /\ queue[j] = queue[i]
      BY <2>3, <3>1
    <3>3. i = j
      BY <2>3, <3>2
    <3> QED BY <2>2, <2>3, <3>1, <3>2, <3>3
  <2>6. ASSUME NEW i \in DOMAIN queue, i > pos - 1
        PROVE  Enables(queue[i])'
    <3>1. i >= pos
      BY <2>2, <2>3, <2>6
    <3>2. Effective(queue[i])' <=> Effective(queue[i])
      BY <2>1, <2>4, <2>5, <3>1
    <3>3. CASE i = pos
      <4>1. Effective(Here) => \A d \in Requires(Here) \ meta.absent : Effective(d)'
        BY <2>1, <2>4 DEF Effective
      <4> QED BY <2>1, <2>4, <3>2, <3>3, <4>1 DEF Enables, Here
    <3>4. CASE i # pos
      <4>1. i > pos
        BY <2>2, <2>3, <3>1, <3>4
      <4>2. Enables(queue[i])
        BY <2>1, <4>1 DEF EnabledSoFar
      <4> QED BY <2>1, <2>4, <3>2, <4>2 DEF Enables
    <3> QED BY <3>3, <3>4
  <2>7. \A p \in Plugin : state'[p] \in Base
    BY <1>b, <2>1 DEF Before
  <2> QED BY <2>1, <2>6, <2>7 DEF EnabledSoFar
<1>2. CASE Listed
  <2>1. /\ pc = "listing" /\ pc' = goal /\ goal' = goal /\ options' = options
        /\ meta' = meta /\ forced' = forced /\ indirectly' = indirectly /\ state' = state
        /\ queue' = queue /\ pos' = IF goal = "enable" THEN Len(queue) ELSE 1
        /\ goal \in {"enable", "noload", "load"}
    BY <1>2 DEF Listed, specs, load, Typed, TypeOK
  <2>2. \A p \in Plugin : state'[p] \in Base
    BY <2>1 DEF Stages, Starting, Before
  <2>3. \A i \in DOMAIN queue : ~(i > Len(queue))
    BY DEF Typed, TypeOK
  <2> QED BY <2>1, <2>2, <2>3 DEF EnabledSoFar
<1>3. CASE NoLoadOption
  BY <1>3, <1>l, <1>o DEF NoLoadOption, List, Before
<1>4. CASE Resolve \/ Enabled \/ Parsed \/ \E p \in Plugin : DisableRequiring(p) \/ LoadOption(p)
  BY <1>4, <1>l DEF Resolve, Enabled, Parsed, DisableRequiring, LoadOption, List, Before
<1>5. CASE NextSpec \/ Descend
  BY <1>5, <1>l DEF NextSpec, Descend, EnabledSoFar, Before
<1>6. CASE Load
  <2>1. /\ pc = "load" /\ pc' = "load" /\ meta' = meta /\ forced' = forced
        /\ indirectly' = indirectly /\ pos \in DOMAIN queue
    BY <1>6 DEF Load, Forward
  <2>2. Here \in Plugin
    BY <2>1, HereFacts
  <2>3. \A p \in Plugin : state'[p] \notin Base => state[p] \notin Base \/ (p = Here /\ Effective(Here))
    BY <1>6, <1>s, <2>2 DEF Load, Blame, specs
  <2> QED BY <1>f, <2>1, <2>3 DEF EnabledSoFar, Before
<1>7. CASE Initialize
  <2>1. /\ pc = "initialize" /\ pc' = "initialize" /\ meta' = meta /\ forced' = forced
        /\ indirectly' = indirectly /\ pos \in DOMAIN queue
    BY <1>7 DEF Initialize, Forward
  <2>2. \A p \in Plugin : state'[p] = state[p] \/ state[p] \notin Base
    BY <1>7, <1>s, <2>1, HereFacts DEF Initialize, Blame, specs, Ready, Base
  <2> QED BY <1>n, <2>1, <2>2 DEF Before
<1>8. CASE Extend
  <2>1. /\ pc = "extend" /\ pc' = "extend" /\ meta' = meta /\ forced' = forced
        /\ indirectly' = indirectly /\ pos \in DOMAIN queue
    BY <1>8 DEF Extend, Backward
  <2>2. Here \in alive => state[Here] \notin Base
    BY DEF Stages, Standing, Base, Live, Up
  <2>3. \A p \in Plugin : state'[p] = state[p] \/ state[p] \notin Base
    BY <1>8, <1>s, <2>1, <2>2, HereFacts DEF Extend, Kill, Ready, Base
  <2> QED BY <1>n, <2>1, <2>3 DEF Before
<1>9. CASE Stop
  <2>1. /\ pc = "stop" /\ pc' = "stop" /\ meta' = meta /\ forced' = forced
        /\ indirectly' = indirectly /\ pos \in DOMAIN queue
    BY <1>9 DEF Stop, Forward
  <2>2. \A p \in Plugin : state'[p] = state[p] \/ state[p] \notin Base
    BY <1>9, <1>s, <2>1, HereFacts DEF Stop, Blame, specs, Ready, Base
  <2> QED BY <1>n, <2>1, <2>2 DEF Before
<1>10. CASE Delete
  <2>1. /\ pc = "delete" /\ pc' = "delete" /\ meta' = meta /\ forced' = forced
        /\ indirectly' = indirectly /\ pos \in DOMAIN queue
    BY <1>10 DEF Delete, Backward
  <2>2. Here \in alive => state[Here] \notin Base
    BY DEF Stages, Standing, Base, Live, Up
  <2>3. \A p \in Plugin : state'[p] = state[p] \/ state[p] \notin Base
    BY <1>10, <1>s, <2>1, <2>2, HereFacts DEF Delete, Kill, Ready, Base
  <2> QED BY <1>n, <2>1, <2>3 DEF Before
<1>11. CASE DelayedInitialize \/ LoopEnds \/ Quit \/ \E p \in Plugin : AsyncShutdownFinished(p)
  BY <1>11, <1>n DEF DelayedInitialize, LoopEnds, Goes, Quit, AsyncShutdownFinished, specs, Before
<1>12. CASE UNCHANGED vars
  <2>1. \A p : Requires(p)' = Requires(p)
    BY <1>12 DEF vars, Requires
  <2> QED BY <1>12, <1>f, <2>1 DEF vars, specs, load, EnabledSoFar, Enables
<1> QED BY <1>1, <1>2, <1>3, <1>4, <1>5, <1>6, <1>7, <1>8, <1>9, <1>10, <1>11, <1>12
     DEF Next, Manager

(* At the start nothing has happened to any plugin. *)
LEMMA SaneInit == Init => Sane
<1> SUFFICES ASSUME Init PROVE Sane
  OBVIOUS
<1>1. /\ pc = "resolve" /\ err = {} /\ \A p \in Plugin : state[p] = "Read"
  BY DEF Init
<1>2. EnabledSoFar
  BY <1>1 DEF EnabledSoFar, Base
<1>3. \A S \in SUBSET Plugin : Undisturbed(S)
  BY <1>1 DEF Undisturbed, Chosen, Reached, Before
<1> QED BY <1>2, <1>3 DEF Sane

(* A set that is sound after a step was so before, and none of it has failed. *)
LEMMA SoundBefore ==
  ASSUME Typed, Lists, [Next]_vars, NEW S \in SUBSET Plugin, Sound(S)'
  PROVE  Sound(S) /\ S \cap faulty' = {}
<1>1. meta' = meta
  BY DEF Next, Manager, Resolve, NextSpec, Descend, Listed, EnableIndirectly, Enabled,
         DisableRequiring, Load, Initialize, Extend, Stop, Delete, DelayedInitialize, LoopEnds,
         LoadOption, AsyncShutdownFinished, NoLoadOption, Parsed, Quit, vars
<1>2. faulty \subseteq faulty'
  <2>1. CASE Load
    BY <2>1 DEF Load, specs
  <2>2. CASE Initialize
    BY <2>2 DEF Initialize, specs
  <2>3. CASE faulty' = faulty
    BY <2>3
  <2> QED BY <2>1, <2>2, <2>3
       DEF Next, Manager, Resolve, NextSpec, Descend, Listed, EnableIndirectly, Enabled,
           DisableRequiring, Extend, Stop, Delete, DelayedInitialize, LoopEnds, specs,
           LoadOption, AsyncShutdownFinished, NoLoadOption, Parsed, Quit, vars
<1>3. \A p : Deps(p)' = Deps(p)
  BY <1>1 DEF Deps
<1> QED BY <1>1, <1>2, <1>3 DEF Sound, WithoutCycle

(* Every step leaves the sound plugins on their way. *)
LEMMA SaneStep ==
  Typed /\ Typed' /\ Lists /\ Stages /\ Stages' /\ Sane /\ [Next]_vars => Sane'
<1> SUFFICES ASSUME Typed, Typed', Lists, Stages, Stages', Sane, [Next]_vars PROVE Sane'
  OBVIOUS
<1>1. EnabledSoFar'
  BY EnabledStep DEF Sane
<1>2. ASSUME NEW S \in SUBSET Plugin, Sound(S)'
      PROVE  Undisturbed(S)'
  <2>1. Sound(S) /\ S \cap faulty' = {} /\ Undisturbed(S) /\ EnabledSoFar
    BY <1>2, SoundBefore DEF Sane
  <2>2. S \cap err' = {}
    BY <2>1, SoundErr
  <2>3. Chosen' => \A p \in S : Enables(p)'
    BY <2>1, SoundChosen
  <2>4. Reached(S)'
    BY <2>1, SoundReached
  <2> QED BY <2>2, <2>3, <2>4 DEF Undisturbed
<1> QED BY <1>1, <1>2 DEF Sane

(* Whatever is wrong with some plugins, those it has nothing to do with run.  *)
THEOREM SoundPluginsAlwaysRun == Spec => []SoundPluginsRun
<1>1. Typed /\ Lists /\ Sane => SoundPluginsRun
  <2> SUFFICES ASSUME Typed, Lists, Sane, pc = "started", NEW S \in SUBSET Plugin, Sound(S),
                      NEW p \in S, Wanted(p)
               PROVE  state[p] = "Running"
    BY DEF SoundPluginsRun
  <2>1. Undisturbed(S)
    BY DEF Sane
  <2>2. p \in Queued
    BY <2>1 DEF Undisturbed, Lists, Covered
  <2>3. Effective(p)
    BY SoundFacts DEF Effective
  <2> QED BY <2>1, <2>2, <2>3 DEF Undisturbed, Reached, Queued
<1> QED BY <1>1, TypedInit, TypedStep, ListsInit, ListsStep, StagesInit, StagesStep,
           SaneInit, SaneStep, PTL DEF Spec
=============================================================================
