---------------------------- MODULE MCBreakpoints ----------------------------
(* Instances of Breakpoints. *)
EXTENDS Breakpoints

CONSTANTS b1, b2

OneBp == {b1}
TwoBps == {b1, b2}
OneLine == {1}
TwoLines == {1, 2}
NoCount == {0}
TwoCounts == {0, 1}

(* A breakpoint, one elsewhere, and one that is hit later. *)
ThreeInputs == {[line |-> 1, count |-> 0, enabled |-> TRUE], [line |-> 2, count |-> 0, enabled |-> TRUE],
                [line |-> 1, count |-> 1, enabled |-> TRUE]}
TwoInputs == {p \in ThreeInputs : p.count = 0}

(* Every property but TypeOK excuses a raced breakpoint for good, and an      *)
(* instance with one breakpoint is not followed beyond that.                 *)
Followed == \A b \in Bps : ~h.item[b].raced
=============================================================================
