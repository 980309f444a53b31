-------------------------- MODULE MCScanLifecycle --------------------------
(* Instances of ScanLifecycle with one scan: two requests for the same key, *)
(* two workers, the recovery job.                                           *)
EXTENDS ScanLifecycle, TLC

CONSTANTS s1, r1, r2, r3, r4, q1, q2, w1, w2

MCScanOf == [r \in Run |-> s1]

MCOneRound == [r \in Run |-> 1]

MCTwoRounds == [r \in Run |-> IF r = r4 THEN 2 ELSE 1]

MCTarget == [q \in Request |-> s1]

MCSymmetry ==
    UNION {Permutations(S) : S \in
        {{r1, r2, r3} \cap Run, {q1, q2} \cap Request, {w1, w2} \cap Worker}}
============================================================================
