----------------------------- MODULE MCRegistry -----------------------------
(* Values for the constants of Registry. *)
EXTENDS Registry, TLC

CONSTANTS p1, p2, c1, c2

TwoPids == {p1, p2}
TwoCallers == {c1, c2}

\* Threads are interchangeable.
CallerSymmetry == Permutations(TwoCallers)
=============================================================================
