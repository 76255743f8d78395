------------------------- MODULE MCAttemptLifecycle -------------------------
(* Instances of the Attempt lifecycle for TLC.                                *)
EXTENDS AttemptLifecycle, TLC

CONSTANTS a1, a2, m1, m2

\* Attempts and Workers are each interchangeable.
Symmetric == Permutations(Attempts) \cup Permutations(Machines)
=============================================================================
