-------------------------- MODULE MCTeachingTurns --------------------------
(* Instances of TeachingTurns for TLC. *)
EXTENDS TeachingTurns, TLC

CONSTANTS r1, r2, k1, k2, k3, t1, t2, t3, c1, c2, c3

MCTwo   == {r1, r2}
MCCommands == {c1, c2, c3}
MCNone  == {}
MCStart == [key |-> k1, kind |-> "system_start", turn |-> t1]

\* a start, a learner's turn whose key is used again for another, a follow-up
MCSends == {MCStart, [key |-> k2, kind |-> "learner", turn |-> t2],
            [key |-> k2, kind |-> "learner", turn |-> t3],
            [key |-> k3, kind |-> "follow_up", turn |-> t3]}
MCFew   == {MCStart, [key |-> k2, kind |-> "learner", turn |-> t2]}

MCSymmetry == Permutations(MCTwo) \cup Permutations(MCCommands)
=============================================================================
