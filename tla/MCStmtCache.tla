---------------------------- MODULE MCStmtCache -----------------------------
(* Small instances of StmtCache for TLC. *)
EXTENDS StmtCache, TLC

\* Tasks, texts and addresses are interchangeable.
Symmetry ==
    Permutations(Tasks) \cup Permutations(Sqls) \cup Permutations(Stmts)
=============================================================================
