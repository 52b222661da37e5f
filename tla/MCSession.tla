------------------------------ MODULE MCSession ------------------------------
(* Instances of SessionProjects: two projects in three sessions, and three  *)
(* projects in one session, which is enough for a cycle through a third     *)
(* project.                                                                 *)
EXTENDS SessionProjects, TLC

CONSTANTS a, b, c, default, work, home

TwoProjects == {a, b}
ThreeProjects == {a, b, c}
ThreeSessions == {default, work, home}
OneSession == {default}

(* The projects are interchangeable, and so are the two named sessions.    *)
Symmetry == Permutations(TwoProjects) \cup Permutations({work, home})
ProjectSymmetry == Permutations(ThreeProjects)
=============================================================================
