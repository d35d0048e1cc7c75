---------------------------- MODULE MCAsyncExec -----------------------------
(* Small instances of AsyncExec for TLC. *)
EXTENDS AsyncExec, TLC

\* Clients are interchangeable, where no liveness is checked.
Symmetry == Permutations(Clients)
=============================================================================
