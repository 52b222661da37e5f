------------------------------ MODULE MCBuilder ------------------------------
(* Instances of Builder: small pools and operation lists. *)
EXTENDS Builder, TLC

Op(g, k) == [group |-> g, kind |-> k]

(* Parallel groups around a sequential one, as a product with two libraries *)
(* and a generator script gives.                                            *)
MCJobs == {
  <<>>,
  <<Op(1, "entering"), Op(2, "tool"), Op(2, "tool"), Op(2, "tool"), Op(3, "tool")>>,
  <<Op(1, "tool"), Op(2, "lua"), Op(3, "tool"), Op(3, "tool")>>,
  <<Op(1, "entering"), Op(2, "tool"), Op(2, "tool"), Op(3, "entering"), Op(4, "tool"), Op(4, "tool")>> }

Symmetry == Permutations(Runner)
=============================================================================
