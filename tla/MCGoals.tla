------------------------------- MODULE MCGoals -------------------------------
(* The instance of Goals for TLC: a goal, the draft it starts from, an edit  *)
(* of it, and two commands under way.                                        *)
EXTENDS Goals, TLC

CONSTANTS g1, d1, d2, r1, r2

MCGoals    == {g1}
MCDrafts   == {d1, d2}
MCGoalOf   == [d \in MCDrafts |-> g1]
MCInitial  == [g \in MCGoals |-> d1]
MCRequests == {r1, r2}
MCMaxRows  == [d \in MCDrafts |-> IF d = d1 THEN 3 ELSE 4]
Symmetry   == Permutations(MCRequests)
=============================================================================
