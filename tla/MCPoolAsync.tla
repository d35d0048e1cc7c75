---------------------------- MODULE MCPoolAsync -----------------------------
(* A small instance of PoolAsync for TLC. *)
EXTENDS PoolAsync, TLC

\* The sensor task of the example, and the writer of the documentation with a
\* batch of two.
MCScripts == {<<"INSERT">>, <<"BEGIN", "INSERT", "INSERT", "COMMIT">>}

Interchangeable == Permutations(Tasks) \cup Permutations(Handles)

\* What of a state an action or a property can still read: of a loan returned not
\* how far its task got; and once a request was refused or dropped, which is for
\* ever, not what the transactions held and what was saved or cut.
Relevant ==
    LET lost == rejected \/ exhausted
    IN  <<vars, exec, loans, queue, busy, exhausted, rejected, failed, late, script,
          [t \in Tasks |-> IF Lent(t) THEN <<loan[t], step[t]>> ELSE <<>>],
          IF lost THEN <<>> ELSE <<txn, saved, cut>>>>
=============================================================================
