------------------------------ MODULE PoolAsync ------------------------------
(***************************************************************************)
(* The pool and the executor together, used as the FreeRTOS example and    *)
(* the documentation use them: a task acquires a connection, submits       *)
(* statements on it with sqlite_async_exec, and releases it at once, while *)
(* the worker still has them to execute.  The pool is ConnectionPool; of   *)
(* the executor there is what RequestService leaves of it: requests are    *)
(* served in order, one at a time, and may be dropped.  Of SQLite there is *)
(* the connection's transaction.                                           *)
(***************************************************************************)
EXTENDS ConnectionPool, Sequences

CONSTANTS
    Scripts,     \* what a task submits on one loan: sequences of statements
    QueueSize,   \* config.queue_size
    MaxLoans,    \* bound on the connections acquired
    MaxFaulty    \* bound on the loans whose statements fail by themselves

Statements == {"BEGIN", "INSERT", "COMMIT"}

ASSUME ScriptsAssumption ==
    /\ Scripts \subseteq Seq(Statements)
    /\ QueueSize \in Nat \ {0}
    /\ MaxLoans \in Nat
    /\ MaxFaulty \in Nat

VARIABLES
    exec,       \* the executor: "up", "draining" (no tasks left) or "down"
    loans,      \* the loans so far; the number names the loan
    loan,       \* the last loan of each task
    script,     \* loan -> what is submitted on it
    step,       \* the statements of its loan a task has submitted
    queue,      \* request_queue
    busy,       \* the request the worker executes, in a sequence
    exhausted,  \* no result slot is left
    txn,        \* connection -> the inserts in its open transaction, by loan
    saved,      \* the inserts in the database
    failed,     \* history: loans with a statement whose verdict is FAILED
    cut,        \* history: loans of whose transaction a release rolled back
    late,       \* history: connections begun on after the loan was returned
    rejected    \* history: sqlite_async_exec returned 0 once

asyncVars == <<exec, loans, loan, script, step, queue, busy, exhausted, txn,
               saved, failed, cut, late, rejected>>
allVars == <<vars, asyncVars>>

-----------------------------------------------------------------------------
(* The tasks *)

\* The loan a task has now.
Lent(t) == held[t] # {}
Submitted(t) == step[t] = Len(script[loan[t]])

\* A call of the pool that changes no loan.
PoolCall(t) ==
    /\ exec = "up"
    /\ \/ AcquireCall(t) /\ loans < MaxLoans
       \/ TakeToken(t)
       \/ TimeOut(t)
       \/ GiveToken(t)
    /\ UNCHANGED asyncVars

\* acquire returns a connection; a task that gets none goes on without.
Borrow(t) ==
    /\ exec = "up"
    /\ loans < MaxLoans
    /\ AcquireIdle(t) \/ AcquireMiss(t)
    /\ IF held' = held
       THEN UNCHANGED <<loans, loan, script, step>>
       ELSE /\ loans' = loans + 1
            /\ loan' = [loan EXCEPT ![t] = loans + 1]
            /\ \E s \in Scripts : script' = [script EXCEPT ![loans + 1] = s]
            /\ step' = [step EXCEPT ![t] = 0]
    /\ UNCHANGED <<exec, queue, busy, exhausted, txn, saved, failed, cut, late,
                   rejected>>

\* sqlite_async_exec, _begin_transaction or _commit_transaction: one at the
\* back of the queue or, the queue being full, a 0 that nobody looks at.
Submit(t) ==
    /\ exec = "up"
    /\ Lent(t)
    /\ ~Submitted(t)
    /\ step' = [step EXCEPT ![t] = @ + 1]
    /\ \E h \in held[t] :
         IF Len(queue) < QueueSize
         THEN /\ queue' = Append(queue, [loan |-> loan[t], at |-> step[t] + 1,
                                         db |-> h])
              /\ rejected' = rejected
         ELSE UNCHANGED queue /\ rejected' = TRUE
    /\ UNCHANGED <<vars, exec, loans, loan, script, busy, exhausted, txn, saved,
                   failed, cut, late>>

\* sqlite_pool_release: its ROLLBACK ends whatever transaction is open.
Return(t) ==
    /\ exec = "up"
    /\ Lent(t)
    /\ Submitted(t)
    /\ \E h \in held[t] :
         /\ Release(t, h)
         /\ LET ended == h \in dirty /\ h \notin dirty'
            IN  /\ cut' = IF ended THEN cut \cup {r[1] : r \in txn[h]} ELSE cut
                /\ txn' = IF ended THEN [txn EXCEPT ![h] = {}] ELSE txn
                /\ late' = IF ended THEN late \ {h} ELSE late
    /\ UNCHANGED <<exec, loans, loan, script, step, queue, busy, exhausted,
                   saved, failed, rejected>>

-----------------------------------------------------------------------------
(* The worker *)

\* The form that takes the newest request first.
TakeLast ==
    /\ busy = <<>>
    /\ queue # <<>>
    /\ busy' = <<queue[Len(queue)]>>
    /\ queue' = SubSeq(queue, 1, Len(queue) - 1)
    /\ UNCHANGED <<vars, exec, loans, loan, script, step, exhausted, txn, saved,
                   failed, cut, late, rejected>>

Take ==
    /\ busy = <<>>
    /\ queue # <<>>
    /\ busy' = <<Head(queue)>>
    /\ queue' = Tail(queue)
    /\ UNCHANGED <<vars, exec, loans, loan, script, step, exhausted, txn, saved,
                   failed, cut, late, rejected>>

\* Nothing is left of the transaction of connection h.
Forget(h) ==
    /\ dirty' = dirty \ {h}
    /\ txn' = [txn EXCEPT ![h] = {}]
    /\ late' = late \ {h}

\* The loans of the connections the tasks have now.
Running == {loan[t] : t \in {u \in Tasks : Lent(u)}}

\* sqlite3_exec succeeds: BEGIN outside a transaction, COMMIT inside one, and
\* INSERT, which outside is a transaction of its own.
Statement(r) ==
    LET sql == script[r.loan][r.at]
        open == r.db \in dirty
        this == <<r.loan, r.at>>
    IN  \/ /\ sql = "BEGIN" /\ ~open
           /\ dirty' = dirty \cup {r.db}
           /\ txn' = [txn EXCEPT ![r.db] = {this}]
           /\ late' = IF r.loan \in Running THEN late ELSE late \cup {r.db}
           /\ UNCHANGED saved
        \/ /\ sql = "INSERT"
           /\ IF open
              THEN txn' = [txn EXCEPT ![r.db] = @ \cup {this}] /\ saved' = saved
              ELSE saved' = saved \cup {this} /\ txn' = txn
           /\ UNCHANGED <<dirty, late>>
        \/ /\ sql = "COMMIT" /\ open
           /\ saved' = saved \cup txn[r.db]
           /\ Forget(r.db)

\* BEGIN in a transaction and COMMIT without one are errors.
Refused(r) ==
    \/ script[r.loan][r.at] = "BEGIN" /\ r.db \in dirty
    \/ script[r.loan][r.at] = "COMMIT" /\ r.db \notin dirty

\* Any statement may fail: a constraint or no memory leaves the transaction as
\* it is, a full disk, an I/O error or no memory while it runs may end it.
StatementFails(r) ==
    /\ Refused(r) \/ Cardinality(failed \cup {r.loan}) <= MaxFaulty
    /\ UNCHANGED <<dirty, txn, late>> \/ Forget(r.db)
    /\ UNCHANGED saved

\* Either way the worker goes on with the next request.
Execute ==
    /\ busy # <<>>
    /\ ~exhausted
    /\ LET r == Head(busy)
       IN  \/ Statement(r) /\ failed' = failed
           \/ StatementFails(r) /\ failed' = failed \cup {r.loan}
    /\ busy' = <<>>
    /\ UNCHANGED <<phase, cursor, db, in_use, num, sem, stats, live, pc, held,
                   exec, loans, loan, script, step, queue, exhausted, cut,
                   rejected>>

\* Once no result slot is left, requests are freed without being executed.
Exhaust ==
    /\ exec = "up"
    /\ ~exhausted
    /\ exhausted' = TRUE
    /\ UNCHANGED <<vars, exec, loans, loan, script, step, queue, busy, txn,
                   saved, failed, cut, late, rejected>>

DropRequest ==
    /\ busy # <<>>
    /\ exhausted
    /\ busy' = <<>>
    /\ UNCHANGED <<vars, exec, loans, loan, script, step, queue, exhausted, txn,
                   saved, failed, cut, late, rejected>>

-----------------------------------------------------------------------------
(* The documented shutdown: the tasks, the executor, the pool *)

DeleteTasks ==
    /\ exec = "up"
    /\ phase = "ready"
    /\ exec' = "draining"
    /\ UNCHANGED <<vars, loans, loan, script, step, queue, busy, exhausted, txn,
                   saved, failed, cut, late, rejected>>

\* sqlite_async_shutdown: the requests left are lost.
AsyncShutdown ==
    /\ exec = "draining"
    /\ exec' = "down"
    /\ queue' = <<>>
    /\ busy' = <<>>
    /\ UNCHANGED <<vars, loans, loan, script, step, exhausted, txn, saved,
                   failed, cut, late, rejected>>

\* sqlite_pool_destroy: sqlite3_close rolls back.
PoolDestroy ==
    /\ exec = "down"
    /\ Destroy
    /\ txn' = [h \in Handles |-> {}]
    /\ late' = {}
    /\ UNCHANGED <<exec, loans, loan, script, step, queue, busy, exhausted,
                   saved, failed, cut, rejected>>

-----------------------------------------------------------------------------

PoolAsyncInit ==
    /\ Init
    /\ exec = "up"
    /\ loans = 0
    /\ loan = [t \in Tasks |-> 0]
    /\ script = [n \in 0..MaxLoans |-> <<>>]
    /\ step = [t \in Tasks |-> 0]
    /\ queue = <<>>
    /\ busy = <<>>
    /\ exhausted = FALSE
    /\ txn = [h \in Handles |-> {}]
    /\ saved = {}
    /\ failed = {}
    /\ cut = {}
    /\ late = {}
    /\ rejected = FALSE

PoolAsyncNext ==
    \/ (CreateSlot \/ CreateReturn) /\ UNCHANGED asyncVars
    \/ Shrink /\ exec = "up" /\ UNCHANGED asyncVars
    \/ \E t \in Tasks :
         \/ PoolCall(t)
         \/ Borrow(t)
         \/ Submit(t)
         \/ Return(t)
    \/ Take
    \/ Execute
    \/ Exhaust
    \/ DropRequest
    \/ DeleteTasks
    \/ AsyncShutdown
    \/ PoolDestroy

PoolAsyncSpec == PoolAsyncInit /\ [][PoolAsyncNext]_allVars

-----------------------------------------------------------------------------
(* Properties *)

Outstanding == {queue[i] : i \in 1..Len(queue)} \cup {busy[i] : i \in 1..Len(busy)}

\* A request outlives the loan of its connection, but not the connection: until
\* the documented shutdown is through, the worker never has a closed handle,
\* though connections are shrunk without a look at the queue.
RequestsOutliveLoansOnly == \A r \in Outstanding : r.db \in live

Inserts(n) == {<<n, i>> : i \in {j \in 1..Len(script[n]) :
                                   script[n][j] = "INSERT"}}
InsertsIn(S) == {r \in S : script[r[1]][r[2]] = "INSERT"}

\* While no request is refused or dropped, a transaction whose statements belong
\* to loans without a failure holds those of one loan only: the loans of a
\* connection exclude each other and the queue keeps their order, although loans
\* end before their requests run and the worker goes on after a failure.
LoansDoNotMix ==
    ~rejected /\ ~exhausted =>
        \A h \in dirty :
            (\A r \in txn[h] : r[1] \notin failed) =>
                \A r, s \in txn[h] : r[1] = s[1]

\* A batch none of whose statements failed is saved whole or not at all, unless
\* a release rolled its transaction back in the middle: its own, as the worker
\* may have begun by then, or that of the next loan.
BatchesAreWhole ==
    ~rejected /\ ~exhausted =>
        \A n \in (1..loans) \ (cut \cup failed) :
            script[n] # <<>> /\ script[n][1] = "BEGIN" =>
                InsertsIn(saved) \cap Inserts(n) \in {{}, Inserts(n)}

\* The connections in the pool are handed over without a transaction, as
\* ExclusiveLease asks, but for one that the worker began after the return.
DirtyOnlyIfLate == \A i \in IdleSlots : db[i] \in dirty => db[i] \in late
=============================================================================
