---------------------------- MODULE BuildContract ----------------------------
(***************************************************************************)
(* What a build job promises to the build step that started it: operations *)
(* are taken in the order of the list, only operations of one group run at *)
(* a time, one result is reported, when nothing runs any more, and success *)
(* only when the list has been worked off.                                 *)
(***************************************************************************)
EXTENDS Integers, Sequences

CONSTANT Jobs       (* the operation lists a build may be started with     *)

VARIABLES
  state,            (* "none", "running", or "quit" once the result is out *)
  ops,              (* the list of the current job                         *)
  outcome,          (* what became of each operation                       *)
  result            (* the results reported so far by this job             *)

vars == <<state, ops, outcome, result>>

Init ==
  /\ state = "none"
  /\ ops = <<>>
  /\ outcome = [i \in 1..Len(ops) |-> "todo"]
  /\ result = <<>>

Begin(job) ==
  /\ state = "none"
  /\ state' = "running"
  /\ ops' = job
  /\ outcome' = [i \in 1..Len(job) |-> "todo"]
  /\ result' = <<>>

(* The first operation left is passed over, or run beside others of its group. *)
Take(i) ==
  /\ state = "running"
  /\ outcome[i] = "todo"
  /\ \A j \in 1..Len(ops) : j < i => outcome[j] # "todo"
  /\ \A j \in 1..Len(ops) : outcome[j] = "running" => ops[j].group = ops[i].group
  /\ \E o \in {"skipped", "running"} : outcome' = [outcome EXCEPT ![i] = o]
  /\ UNCHANGED <<state, ops, result>>

End(i) ==
  /\ state = "running"
  /\ outcome[i] = "running"
  /\ \E o \in {"ok", "failed"} : outcome' = [outcome EXCEPT ![i] = o]
  /\ UNCHANGED <<state, ops, result>>

Report(ok) ==
  /\ state = "running"
  /\ \A i \in 1..Len(ops) : outcome[i] # "running"
  /\ ok => \A i \in 1..Len(ops) : outcome[i] # "todo"
  /\ state' = "quit"
  /\ result' = <<ok>>
  /\ UNCHANGED <<ops, outcome>>

Discard ==
  /\ state = "quit"
  /\ state' = "none"
  /\ UNCHANGED <<ops, outcome, result>>

Next ==
  \/ \E job \in Jobs : Begin(job)
  \/ \E i \in 1..Len(ops) : Take(i) \/ End(i)
  \/ \E ok \in BOOLEAN : Report(ok)
  \/ Discard

Spec == Init /\ [][Next]_vars
=============================================================================
