-------------------------- MODULE MCConnectionPool --------------------------
(* Small instances of ConnectionPool for TLC. *)
EXTENDS ConnectionPool, TLC

\* Tasks, and addresses that have not been used, are interchangeable.  Not used
\* where liveness is checked.
Symmetry == Permutations(Tasks) \cup Permutations(Handles)
=============================================================================
