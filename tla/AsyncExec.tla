----------------------------- MODULE AsyncExec ------------------------------
(***************************************************************************)
(* The asynchronous executor of src/src/sqlite_async.c: client tasks call  *)
(* sqlite_async_exec and sqlite_async_query, which number a request, take  *)
(* a result slot for it and put it on a FreeRTOS queue; one worker task    *)
(* takes requests off the queue, executes them, calls the client back and  *)
(* frees the request.  What async_ctx->mutex, result_pool_mutex and the    *)
(* queue each protect is one atomic step; the fields of a result slot are  *)
(* written by clients and worker with no lock at all, in steps of their    *)
(* own.  The client's handle is used for nothing but the statement.        *)
(***************************************************************************)
EXTENDS Integers, Sequences, FiniteSets

CONSTANTS
    Clients,      \* the tasks that submit requests
    MaxResults,   \* MAX_PENDING_RESULTS
    QueueSize,    \* config.queue_size
    WordSize,     \* 2^32, the range of a uint32_t counter
    MaxRequests   \* bound: the calls a behaviour makes

ASSUME ParametersAssumption ==
    /\ IsFiniteSet(Clients)
    /\ MaxResults \in Nat \ {0}
    /\ QueueSize \in Nat \ {0}
    /\ WordSize \in Nat \ {0, 1}
    /\ MaxRequests \in Nat

VARIABLES
    phase,     \* "down": no context; "up"; "stopping": inside shutdown
    nextId,    \* next_request_id
    pending,   \* stats.pending_requests (the other counters only count)
    results,   \* result_pool: the status and request_id of each slot
    queue,     \* request_queue
    pc,        \* where each client is in its call
    req,       \* the request a client's call has built
    worker,    \* where the worker task is in its loop
    current,   \* the request the worker has received
    calls,     \* history: calls made so far; the number names the request
    log,       \* history: the requests the worker has done, in order
    notified,  \* history: the requests whose callback was invoked
    shared,    \* history: requests whose slot was given to another meanwhile
    skew       \* history: what rejected calls and resets add to pending

clientVars == <<pc, req>>
workerVars == <<worker, current, log, notified>>
vars == <<phase, nextId, pending, results, queue, clientVars, workerVars, calls,
          shared, skew>>

-----------------------------------------------------------------------------

Slots == 1..MaxResults
NoSlot == 0
\* The status of a slot is "pending", "running" or "final", the last for
\* SQLITE_ASYNC_COMPLETED and _FAILED.  SQLITE_ASYNC_PENDING is 0: a slot never
\* used, one that free_result wiped and one allocated to a waiting request look
\* the same.
Blank == [status |-> "pending", id |-> 0]
NoReq == [call |-> 0, id |-> 0, slot |-> NoSlot]

InCall == {"allocate", "fill", "send"}
Busy == {"process", "execute", "callback", "finish"}

\* The requests that exist: built by a call, queued, or with the worker.
Building == {req[c] : c \in {d \in Clients : pc[d] \in InCall}}
Queued == {queue[i] : i \in 1..Len(queue)}
Working == IF worker \in Busy THEN {current} ELSE {}
Outstanding == Building \cup Queued \cup Working

\* A uint32_t.
Word(n) == n % WordSize

Goto(c, label) == pc' = [pc EXCEPT ![c] = label]

-----------------------------------------------------------------------------
(* sqlite_async_init *)

Init ==
    /\ phase = "down"
    /\ nextId = 0
    /\ pending = 0
    /\ results = [s \in Slots |-> Blank]
    /\ queue = <<>>
    /\ pc = [c \in Clients |-> "deleted"]
    /\ req = [c \in Clients |-> NoReq]
    /\ worker = "exited"
    /\ current = NoReq
    /\ calls = 0
    /\ log = <<>>
    /\ notified = {}
    /\ shared = {}
    /\ skew = 0

\* A fresh context, a wiped result pool and a new worker; the application then
\* creates the client tasks.  (An initialization that fails changes nothing.)
Start ==
    /\ phase = "down"
    /\ calls < MaxRequests
    /\ phase' = "up"
    /\ nextId' = 1
    /\ pending' = 0
    /\ results' = [s \in Slots |-> Blank]
    /\ queue' = <<>>
    /\ pc' = [c \in Clients |-> "out"]
    /\ req' = [c \in Clients |-> NoReq]
    /\ worker' = "check"
    /\ current' = NoReq
    /\ skew' = 0
    /\ UNCHANGED <<calls, log, notified, shared>>

-----------------------------------------------------------------------------
(* sqlite_async_exec and sqlite_async_query, as the calls of a client; the    *)
(* transaction calls are sqlite_async_exec with a fixed statement             *)

Submit(c) ==
    /\ phase = "up"
    /\ pc[c] = "out"
    /\ calls < MaxRequests
    /\ calls' = calls + 1
    /\ req' = [req EXCEPT ![c] = [call |-> calls + 1, id |-> nextId,
                                  slot |-> NoSlot]]
    /\ nextId' = Word(nextId + 1)
    /\ pending' = Word(pending + 1)
    /\ Goto(c, "allocate")
    /\ UNCHANGED <<phase, results, queue, workerVars, shared, skew>>

\* The slots allocate_result takes for free: `status == 0`, whoever has them.
\* The first form takes those with a verdict as well; the second goes one past
\* the end of the array.
IdleSlots == {s \in Slots : results[s].status # "running"}
SlotsPastEnd == {s \in 1..(MaxResults + 1) :
                   s \in Slots => results[s].status = "pending"}
FreeSlots == {s \in Slots : results[s].status = "pending"}

\* allocate_result: the first free slot, or none.
Allocate(c) ==
    /\ pc[c] = "allocate"
    /\ IF FreeSlots = {}
       THEN UNCHANGED <<req, results, shared>>
       ELSE \E s \in FreeSlots :
              LET sharers == {r.call : r \in {q \in Outstanding : q.slot = s}}
              IN  /\ \A f \in FreeSlots : s <= f
                  /\ req' = [req EXCEPT ![c].slot = s]
                  /\ results' = [results EXCEPT ![s] = Blank]
                  /\ shared' = IF sharers = {} THEN shared
                               ELSE shared \cup sharers \cup {req[c].call}
    /\ Goto(c, "fill")
    /\ UNCHANGED <<phase, nextId, pending, queue, workerVars, calls, skew>>

\* The form that leaves the request_id of the slot alone.
FillStatus(c) ==
    /\ pc[c] = "fill"
    /\ results' = [s \in Slots |->
                     IF s = req[c].slot
                     THEN [results[s] EXCEPT !.status = "pending"]
                     ELSE results[s]]
    /\ Goto(c, "send")
    /\ UNCHANGED <<phase, nextId, pending, queue, req, workerVars, calls,
                   shared, skew>>

\* The client writes its request_id and PENDING into the slot, without a lock.
Fill(c) ==
    /\ pc[c] = "fill"
    /\ results' = [s \in Slots |->
                     IF s = req[c].slot
                     THEN [status |-> "pending", id |-> req[c].id]
                     ELSE results[s]]
    /\ Goto(c, "send")
    /\ UNCHANGED <<phase, nextId, pending, queue, req, workerVars, calls, shared,
                   skew>>

\* xQueueSend puts the request at the back and the call returns its id.
Send(c) ==
    /\ pc[c] = "send"
    /\ Len(queue) < QueueSize
    /\ queue' = Append(queue, req[c])
    /\ req' = [req EXCEPT ![c] = NoReq]
    /\ Goto(c, "out")
    /\ UNCHANGED <<phase, nextId, pending, results, workerVars, calls, shared,
                   skew>>

\* free_result, which does nothing for a request without a slot.
FreeResult(slot) ==
    results' = [s \in Slots |-> IF s = slot THEN Blank ELSE results[s]]

\* The queue stays full for a second: the slot is wiped, the request freed and
\* the call returns 0.  pending_requests is not decremented.
SendFails(c) ==
    /\ pc[c] = "send"
    /\ Len(queue) = QueueSize
    /\ FreeResult(req[c].slot)
    /\ req' = [req EXCEPT ![c] = NoReq]
    /\ skew' = skew + 1
    /\ Goto(c, "out")
    /\ UNCHANGED <<phase, nextId, pending, queue, workerVars, calls, shared>>

-----------------------------------------------------------------------------
(* sqlite_async_worker_task *)

\* The form that takes the newest request first.
ReceiveLast ==
    /\ worker = "receive"
    /\ queue # <<>>
    /\ current' = queue[Len(queue)]
    /\ queue' = SubSeq(queue, 1, Len(queue) - 1)
    /\ worker' = "process"
    /\ UNCHANGED <<phase, nextId, pending, results, clientVars, calls, log,
                   notified, shared, skew>>

Receive ==
    /\ worker = "receive"
    /\ queue # <<>>
    /\ current' = Head(queue)
    /\ queue' = Tail(queue)
    /\ worker' = "process"
    /\ UNCHANGED <<phase, nextId, pending, results, clientVars, calls, log,
                   notified, shared, skew>>

\* The form whose worker gives up when no request comes.
ReceiveGivesUp ==
    /\ worker = "receive"
    /\ queue = <<>>
    /\ worker' = "exited"
    /\ UNCHANGED <<phase, nextId, pending, results, queue, clientVars, current,
                   calls, log, notified, shared, skew>>

\* xQueueReceive returns after 100 ms without a request.
ReceiveTimesOut ==
    /\ worker = "receive"
    /\ queue = <<>>
    /\ worker' = "check"
    /\ UNCHANGED <<phase, nextId, pending, results, queue, clientVars, current,
                   calls, log, notified, shared, skew>>

\* process_async_request returns at once for a request without a slot;
\* otherwise the slot is marked as running.
Process ==
    /\ worker = "process"
    /\ IF current.slot = NoSlot
       THEN /\ worker' = "finish"
            /\ log' = Append(log, [call |-> current.call, executed |-> FALSE])
            /\ UNCHANGED results
       ELSE /\ worker' = "execute"
            /\ results' = [results EXCEPT ![current.slot].status = "running"]
            /\ UNCHANGED log
    /\ UNCHANGED <<phase, nextId, pending, queue, clientVars, current, notified,
                   calls, shared, skew>>

\* The statement is executed and the slot gets its verdict.
Execute ==
    /\ worker = "execute"
    /\ results' = [results EXCEPT ![current.slot].status = "final"]
    /\ log' = Append(log, [call |-> current.call, executed |-> TRUE])
    /\ worker' = "callback"
    /\ UNCHANGED <<phase, nextId, pending, queue, clientVars, current, notified,
                   calls, shared, skew>>

Callback ==
    /\ worker = "callback"
    /\ notified' = notified \cup {current.call}
    /\ worker' = "finish"
    /\ UNCHANGED <<phase, nextId, pending, results, queue, clientVars, current,
                   log, calls, shared, skew>>

\* The worker's decrement of pending_requests; the first form forgets it.
LeaveCounted == pending' = pending
Uncount == pending' = Word(pending - 1)

\* The request is freed; its result is kept for status queries.
Finish ==
    /\ worker = "finish"
    /\ Uncount
    /\ worker' = "check"
    /\ current' = NoReq
    /\ UNCHANGED <<phase, nextId, results, queue, clientVars, log, notified,
                   calls, shared, skew>>

\* The stop bit and is_running, tested at the end and the start of each turn.
CheckStop ==
    /\ worker = "check"
    /\ worker' = IF phase = "up" THEN "receive" ELSE "exited"
    /\ UNCHANGED <<phase, nextId, pending, results, queue, clientVars, current,
                   calls, log, notified, shared, skew>>

-----------------------------------------------------------------------------
(* sqlite_async_reset_stats and sqlite_async_shutdown *)

ResetStats ==
    /\ phase = "up"
    /\ pending' = 0
    /\ skew' = -Cardinality(Outstanding)
    /\ UNCHANGED <<phase, nextId, results, queue, clientVars, workerVars,
                   calls, shared>>

\* The documented shutdown deletes the clients, wherever they are, and then
\* calls sqlite_async_shutdown, which tells the worker to stop.
Stop ==
    /\ phase = "up"
    /\ phase' = "stopping"
    /\ pc' = [c \in Clients |-> "deleted"]
    /\ req' = [c \in Clients |-> NoReq]
    /\ UNCHANGED <<nextId, pending, results, queue, workerVars, calls, shared,
                   skew>>

\* 100 ms later the worker is deleted, whatever it is doing, and the queue
\* with the requests still on it.
Dispose ==
    /\ phase = "stopping"
    /\ phase' = "down"
    /\ worker' = "exited"
    /\ current' = NoReq
    /\ queue' = <<>>
    /\ UNCHANGED <<nextId, pending, results, clientVars, calls, log, notified,
                   shared, skew>>

-----------------------------------------------------------------------------

Client(c) ==
    \/ Submit(c)
    \/ Allocate(c)
    \/ Fill(c)
    \/ Send(c)
    \/ SendFails(c)

Worker ==
    \/ Receive
    \/ ReceiveTimesOut
    \/ Process
    \/ Execute
    \/ Callback
    \/ Finish
    \/ CheckStop

Next ==
    \/ Start
    \/ \E c \in Clients : Client(c)
    \/ Worker
    \/ ResetStats
    \/ Stop
    \/ Dispose

Spec == Init /\ [][Next]_vars

\* The worker is scheduled (nothing of higher priority runs for ever), and its
\* statements and callbacks end.  Clients and the application owe nothing.
FairSpec == Spec /\ WF_vars(Worker)

-----------------------------------------------------------------------------
(* Properties *)

Requests == [call : 0..MaxRequests, id : 0..(WordSize - 1),
             slot : Slots \cup {NoSlot}]

Results == [status : {"pending", "running", "final"}, id : 0..(WordSize - 1)]

\* Types; in particular the queue never holds more than its size.
TypeOK ==
    /\ phase \in {"down", "up", "stopping"}
    /\ nextId \in 0..(WordSize - 1)
    /\ pending \in 0..(WordSize - 1)
    /\ results \in [Slots -> Results]
    /\ queue \in Seq(Requests) /\ Len(queue) <= QueueSize
    /\ pc \in [Clients -> {"deleted", "out"} \cup InCall]
    /\ req \in [Clients -> Requests]
    /\ worker \in {"receive", "check", "exited"} \cup Busy
    /\ current \in Requests
    /\ calls \in 0..MaxRequests
    /\ log \in Seq([call : 1..MaxRequests, executed : BOOLEAN])
    /\ notified \subseteq 1..MaxRequests
    /\ shared \subseteq 1..MaxRequests
    /\ skew \in Int

\* pending_requests is the number of outstanding requests, off by exactly the
\* rejected calls (never counted out) and what the last reset left uncounted:
\* the decrements of the worker and the increments of the clients, under their
\* lock at different times, are never lost.
PendingIsOffBySkew ==
    phase = "up" => pending = Word(Cardinality(Outstanding) + skew)

\* The result a callback is given is the one of its own request, finished, in
\* every behaviour where the slot was not handed to another call meanwhile:
\* the unlocked writes do no other harm.
ResultWrongOnlyIfShared ==
    worker = "callback" /\ current.call \notin shared =>
        /\ results[current.slot].id = current.id
        /\ results[current.slot].status = "final"

\* Every slot has a verdict, and no request still to be executed has a slot.
Exhausted ==
    /\ phase = "up"
    /\ \A s \in Slots : results[s].status = "final"
    /\ \A r \in Building \cup Queued : r.slot = NoSlot
    /\ worker \in {"process", "execute"} => current.slot = NoSlot

\* Results are kept and never given back, so exhaustion is for ever: until the
\* next initialization no request is executed again.
ExhaustionIsPermanent ==
    [][Exhausted /\ phase' = "up" => /\ Exhausted'
                                     /\ \A i \in DOMAIN log' \ DOMAIN log :
                                          ~log'[i].executed]_vars

\* The executor serves requests in the order of the queue: what waits is what
\* the worker has received and not logged, then the queue.
Waiting ==
    LET received == IF worker \in {"process", "execute"} THEN <<current>>
                    ELSE <<>>
        line == received \o queue
    IN  [i \in 1..Len(line) |-> line[i].call]

Service == INSTANCE RequestService
             WITH Calls <- 1..MaxRequests,
                  phase <- phase,
                  waiting <- Waiting,
                  served <- [i \in 1..Len(log) |-> log[i].call]

\* Every behaviour of the executor serves each accepted request at most once,
\* in the order of acceptance, whatever its priority; and nothing but the end
\* of a shutdown loses one.
ImplementsService == Service!ServiceSpec

\* Every request that got on the queue is taken off it and done with, however
\* many clients keep submitting, unless the executor is shut down.
QueuedIsDone ==
    \A n \in 1..MaxRequests :
        (phase = "up" /\ \E r \in Queued : r.call = n)
            ~> (phase # "up" \/ \E i \in 1..Len(log) : log[i].call = n)

\* The comment in allocate_result: a slot whose status is 0 is a "Free slot".
\* No two outstanding requests have the same one.
SlotsAreExclusive ==
    \A r1, r2 \in Outstanding :
        r1.slot = r2.slot /\ r1.slot # NoSlot => r1 = r2

\* The comment in the worker: "Invoke callback if provided".  A request that
\* the worker frees has had its callback.
DoneMeansNotified == [][Finish => current.call \in notified]_vars
=============================================================================
