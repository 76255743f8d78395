-------------------------- MODULE MCControllerLease --------------------------
(* Instances of the controller lease for TLC: two processes of one Worker and *)
(* one of a second, poorly connected Worker.                                  *)
EXTENDS ControllerLease, TLC

CONSTANTS a1, a2, b1, workerA, workerB

MCIdentityOf == [i \in Instances |-> IF i = b1 THEN workerB ELSE workerA]

\* Two processes of one Worker are interchangeable.
Twins == Permutations({a1, a2})
=============================================================================
