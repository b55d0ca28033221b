---------------------------- MODULE CbfVerifier ----------------------------
(***************************************************************************)
(* The barrier certificate (src/cbf_verifier.cpp) of a trajectory whose      *)
(* points carry the barrier h and its derivative.  The condition dh/dt + h/2 *)
(* is kept twice over, in integers.                                         *)
(***************************************************************************)
EXTENDS Integers, Sequences, FiniteSetsExt

Condition(pt) == 2 * pt.hDot + pt.h

Breaches(pt) == pt.h < 0 \/ Condition(pt) < 0

Far == 1000 * 1000 * 1000   \* what the minimum starts from

VerifyTrajectory(points) ==
    LET n == Len(points)
        margin == IF n = 0 THEN 0 ELSE Min({Far} \cup {points[i].h : i \in 1 .. n})
        violations == {i \in 1 .. n : Breaches(points[i])}
    IN  [safe |-> n > 0 /\ violations = {} /\ margin >= 0, margin |-> margin]
=============================================================================
