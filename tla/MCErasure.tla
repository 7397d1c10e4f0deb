----------------------------- MODULE MCErasure -----------------------------
(* Instances of Erasure for TLC. *)
EXTENDS Erasure, TLC

CONSTANTS t1, t2, k1, k2, q1, q2

MCOneTarget  == {t1}
MCTargets    == {t1, t2}
MCKeys       == {k1, k2}
MCSame       == [k \in {k1, k2} |-> t1]
MCOwn        == k1 :> t1 @@ k2 :> t2
MCOneRequest == {q1}
MCRequests   == {q1, q2}
=============================================================================
