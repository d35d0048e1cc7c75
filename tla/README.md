# Verification of SQLite Micro (sqmini)

TLA+ specifications of SQLite Micro, a wrapper that runs SQLite on ESP32 and RP2040 under
FreeRTOS: the connection pool, the asynchronous executor, the prepared-statement cache, the
pool and the executor used together, and the library's core with its file drivers and the part
of SQLite that works on them. TLC checks them on small instances; TLAPS proves theorems about
them for every value of their constants. Paths below are relative to the repository, which is
checked out in `src/` (so the pool is `src/src/sqlite_pool.c`).

## 1. Inventory

| Component | Source | State | Operations | Modelled in |
|---|---|---|---|---|
| Connection pool | `sqlite_pool.c`, `sqlite_pool.h` | array of connections (`db`, `in_use`), `num_connections`, a mutex, the counting semaphore `available_sem`, gauges and counters | create, acquire, release, shrink, destroy; get_stats and validate only read | `ConnectionPool` |
| Asynchronous executor | `sqlite_async.c`, `sqlite_async.h` | context (`is_running`, `next_request_id`, stats, mutex, stop bit), request queue, `result_pool` of 64 slots with a mutex of its own, the worker task | init, shutdown, exec, query, begin / commit / rollback, reset_stats; the worker's loop. get_stats and exec_wait leave the state alone; cancel, wait and get_status are declared and not defined | `AsyncExec` |
| Statement cache | `sqlite_cache.c`, `sqlite_cache.h` | array of entries (`sql`, `stmt`, `in_use`, `last_access_time`), `current_size`, a mutex, counters | create, get_stmt, release_stmt, clear, evict_lru, destroy; get_stats only reads | `StmtCache` |
| Core | `sqlite_micro.c` | the flag `sqlite_initialized`; the mounted storage | init, register_vfs, storage_init, open, shutdown; get_stats only reads | `SqliteMicro` |
| VFS drivers | `vfs/vfs_littlefs.c`, `vfs_spiffs.c`, `vfs_sdcard.c` | one file descriptor per open file; the mount | the `sqlite3_vfs` and `sqlite3_io_methods` tables, registration, mounting | `VfsDriver` |
| Platform layer | `platform/pico_hal_littlefs.c` | none | three functions that print and return 0, one of which is called | `VfsDriver` |
| Vendored SQLite | `sqlite3.c`, ... | pager and page cache of a connection; the list of drivers; `isInit` | read and write transactions, commit, rollback; initialize, shutdown, vfs_register | the pager of `sqlite3.c` in `SharedDatabase`, initialization in `SqliteMicro`; elsewhere external: opens, statements, transactions |
| Example sketches | `examples/esp32/...`, `docs/FREERTOS.md` | | the order in which an application calls the library | `PoolAsync`, `SqliteMicro` |
| Monitor, backup | `sqlite_monitor.h`, `sqlite_backup.h` | | declarations without definitions | no |

**Interactions.** Application tasks acquire a connection from the pool, use it directly, or pass
it to the executor, which runs the statement on it in the worker task and calls the task back;
a statement cache belongs to one connection and is used by whoever uses that. The components
share no state with each other apart from the SQLite objects: the pool opens and closes
connections (through `sqlite_micro_open`), the cache prepares and finalizes statements, the
executor does neither. All connections of a program work on one database file, each with a page
cache of its own, through a driver that locks nothing.

**What is hard.** The pool's semaphore lives outside its mutex, so that several tasks are
between the two at once; opens fail in three ways and at any time; an address is reused after
it is freed. The executor's result slots are written by clients and worker without a lock, and
a free slot cannot be told from a waiting one. The cache reads an entry after giving its mutex
back, and its `current_size` is not the number of its entries. A connection is returned to the
pool while its requests are still queued. The file drivers grant every lock, create no file, and
keep the journal of a transaction in memory only; mounts, writes and statements fail and power
goes. Mounting, registering and opening depend on each other in ways that only the order of the
calls decides. The full list, each at its line and with the properties that watch it, is under
`hazards` in `PROJECT.json`.

**What makes each correct.**
- Pool: a connection is lent to one task at a time, open and without a transaction; it is
  closed only when nobody holds it; tokens, flags and gauges agree; a task waits or times out
  only when the connections are lent; waiting tasks are served, and do not all wait for each other.
- Executor: an accepted request is executed once, in order, and its callback gets its own
  result; the gauge of pending requests is right; nothing queued is forgotten, and only a shutdown
  loses it.
- Cache: a statement got for a text was prepared from it, comes back reset, and lives until it
  is released; no entry holds a finalized statement; destroy finalizes all.
- Pool and executor: a queued request never loses its connection; unless a statement of it fails,
  a batch is saved whole or not at all and shares no transaction with another loan's.
- Database: what was committed is in the file, through failed writes and a power loss, and is
  what every connection reads, from its cache too: its calls are transactions.
- Core: the driver registered is the one used; a program that makes the documented calls in the
  documented order has its database open.

## 2. Modules

| Module | What it is |
|---|---|
| `ConnectionPool` | the pool |
| `ExclusiveLease` | abstract specification: leases of objects, one holder at a time, open and clean |
| `MCConnectionPool` | TLC instance of the pool: its symmetry |
| `ConnectionPoolProofs` | theorems about the pool's counting: tokens, slots, gauges, time-outs, waiting for each other, what is open at the end |
| `PoolLeaseProofs` | theorems about its loans, and the refinement of `ExclusiveLease` |
| `AsyncExec` | the executor |
| `RequestService` | abstract specification: accept, serve in order, lose at the end of a shutdown |
| `MCAsyncExec` | TLC instance of the executor: its symmetry |
| `AsyncExecProofs` | theorems about the executor's requests, gauge and result slots, and the refinement of `RequestService` |
| `StmtCache` | the cache |
| `MCStmtCache` | TLC instance of the cache: its symmetry |
| `StmtCacheProofs` | theorems about the cache's entries and loans, and the refinement of `ExclusiveLease` |
| `PoolAsync` | the pool and the executor, used together as the examples do |
| `MCPoolAsync` | TLC instance of it: the statements the tasks submit, symmetry |
| `PoolAsyncProofs` | theorems about the two together: connections, transactions and batches of queued requests |
| `VfsDriver` | the file drivers: open flags, reading and writing, mounting |
| `SharedDatabase` | SQLite's pager on such a driver, with several connections |
| `TransactionalStore` | abstract specification: transactions that see the committed database and their own updates |
| `SqliteMicro` | the core, with the two above under it; its specification is that of all three |
| `MCSqliteMicro` | TLC instance: boards, symmetry, where not to go on |
| `SqliteMicroProofs` | theorems about types, mounting, registering and opening |
| `DatabaseProofs` | theorems about the data: what is committed and what is read |
| `StoreProofs` | the refinement of `TransactionalStore` |

Common conventions. What a mutex protects is one action, because no other task sees the state
in between; everything a function does outside its mutex is an action of its own. Array slots
are numbered from 1. A `sqlite3*` or `sqlite3_stmt*` is an address: a member of a finite set
that returns to it when the object is freed, so that a stale pointer can come to equal a new
one. Counters that only count events (`total_acquires`, `completed_requests`, `cache_hits`, ...)
are left out; gauges, which also go down, are kept. A function's tests for NULL arguments are
left out, as are allocation failures that make a call return without a change. Where a mutant
of the code is worth having (a guard dropped, a reset forgotten), the mutated operator stands
beside the original and its comment says so; nothing else uses it.

### ConnectionPool

`db`, `in_use`, `num`, `sem` and `stats` are the fields of `sqlite_pool_s`; `phase` and `cursor`
place the pool in its life and `sqlite_pool_create` in its loop; `live` and `dirty` are the
allocated objects and those with an open transaction (SQLite's state); `pc` and `held` say
where each task is in a call and what acquire has returned to it.

- create: `CreateSlot` per turn of the loop (a failed open leaves a hole, and its token), then
  `CreateReturn`.
- acquire: `AcquireCall`, then `TakeToken` or `TimeOut` on the semaphore, then under the mutex
  `AcquireIdle` (the first idle slot) or `AcquireMiss` (open one in the first empty slot if
  below the maximum; else NULL). The peak gauge is updated by the first only.
- release: `Release` under the mutex (the first slot in use with that address, the ROLLBACK),
  then `GiveToken`. If no slot matches it fails and gives nothing.
- `Shrink` takes any set of idle slots for old enough, and closes as `Doomed` says.
- `Destroy` follows the documented shutdown (`docs/FREERTOS.md:607-625`): tasks are deleted
  first, wherever they are, then every slot is closed without a lock.

`OpenFails` has the three ways an open fails (`FaultKinds`): `no_handle` leaves NULL (storage
init failed, or no memory); `closed_handle` is `sqlite_micro_open` after `sqlite3_close(*ppDb)`,
which leaves the pointer; `open_handle` is plain `sqlite3_open`, which leaves an error object.
The constant `OpenFaults` selects among them. `held` is a set, so a dangling pointer that
equals a connection the same task already holds is counted once: the runs and findings with
such pointers let a task hold one connection.

### AsyncExec

A client's call is `Submit` (id and counters, under the mutex), `Allocate` (under the pool's
mutex), `Fill` (no lock), and `Send` or `SendFails`. exec, query and the transaction calls have
the same steps. The worker's turn is `Receive` or `ReceiveTimesOut`, `Process` (drops a request
without a slot, or marks the slot RUNNING), `Execute`, `Callback`, `Finish`, `CheckStop`.
`ResetStats`, `Stop` and `Dispose` (100 ms later, wherever the worker is) complete it. Status
is `pending` (0, also free), `running` or `final`. Every request has a callback. Counters wrap
at `WordSize`. History variables: `calls` names requests, `log` and `notified` record what the
worker did, `shared` the requests whose slot was given to another while they were outstanding,
`skew` what rejected calls and resets add to the gauge.

### StmtCache

`entries` and `size` (`current_size`) are the cache's; `live`, `text` and `dirty` are SQLite's
statements, their SQL and whether they have been bound or stepped since a reset; `hit` is the
entry a task has hit and will read again after the unlock (`GetHit`, `GetReturn`). `GetMiss`
has the three ways to find a slot: the first empty one; when all are full and `current_size` is
at its maximum, the victim's, with `current_size` one less; otherwise `entries[current_size]`,
which it overwrites without finalizing. `Clear`, `EvictLru`, `Release` search only the first
`current_size` entries, as the code does. `Tick` is the tick count. `owner`, fixed at the start, says
how the application uses the cache: one task has it for itself, holds no more statements than there
are entries and clears it only when it holds none; or (`NULL`) all tasks use it, within the bounds
`MaxInUse` and `ClearBusy`.

### PoolAsync

`PoolAsync` extends `ConnectionPool`, whose actions are parts of its own, with an executor reduced
to what `RequestService` leaves: a FIFO queue, one request at a time, requests that may be refused
(queue full) or dropped (no result slot). A loan is one connection acquired; `script` is what a task
submits on it (`Scripts`): the sensor task's single INSERT, or the documentation's batch
(`docs/FREERTOS.md:333-357`, with two inserts instead of ten). `Submit` sends the next statement,
`Return` releases after the last: the request it sent is served later, on a connection that another
task may have by then. `Execute` is `process_async_request` with either verdict. `Statement` is a
`sqlite3_exec` that succeeds: `dirty` of the pool is the set of connections in a transaction, `txn`
the inserts it holds. `StatementFails` is one that does not: a BEGIN in a transaction or a COMMIT
without one is refused, and any statement may fail by itself, which leaves the transaction as it is
(a constraint, no memory to prepare it) or ends it (SQLite rolls back on its own when the disk is
full, on an I/O error or without memory while it runs). Then the worker only marks the request
FAILED and takes the next one: the rest of a batch and its COMMIT run. `failed` names the loans it
happened to. `Return` records what the ROLLBACK of a release undoes (`cut`). `DeleteTasks`,
`AsyncShutdown`, `PoolDestroy` are the documented shutdown in its order; the documentation's wait of
a second before it guarantees nothing and is left out.

### VfsDriver, SharedDatabase, SqliteMicro

`VfsDriver` is the state of the storage, `content` (what reads return) and `flash` (what a power
loss leaves for sure), and the driver's calls. `AccessMode` is the translation of SQLite's open
flags. The three drivers are the same code; SPIFFS on an ESP32 mounts like LittleFS, so
`MCSqliteMicro` has four boards, an ESP32 and an RP2040 with LittleFS or an SD card. `MountFlash`
and `MountCard` may fail at any time, and always fail a second time; of a card that does not mount
the SPI bus stays initialized (`bus`), so that later calls fail before they reach the card. On an
RP2040 `PicoFlash` reports success and `PicoCard` may report either (it mounts a FatFS volume), and
nothing in the repository connects the POSIX calls of the drivers with a file system there. A
formatting at a failed mount (`format_if_mount_failed` of the ESP32's flash drivers) would empty a
storage whose file system is broken; it is left out with the storage's own decay. `SharedDatabase`
is SQLite's rollback pager as the drivers see it: `pager[c]` has the state of `Pager.eState`
(`commit`, `undo` split `WRITER_DBMOD` by what is being done), the page cache, `dbFileVers`, the
in-memory journal, `journalHdr` (`synced`, the records that may go back to the file). Its actions
are the pager's calls, one per page written or played back, so that another connection, a failure or
a power loss comes between any two:

- read: `SharedLock` (with the check of the change counter), `GetPage`, `EndRead`;
- write: `Begin`, `WritePage`, `Spill` (a cache that is full), `CommitStart`, `WriteBack`,
  `SyncFile`, `Finish`;
- undo: `Rollback`, `UndoPage`, `UndoDone`, with `UndoFails` for the error state.

`Lock` grants everything, as `littlefs_lock` does, and records in `disturbed` when a real lock would
not have been granted. `torn` records a power loss in the middle of a commit (the journal is in
memory and gone) and a rollback that failed twice. Nothing is claimed about the data after either,
and both are reachable; the claim is that these are the only ways to lose anything.

Abstractions: of a page, the number of its updates; the database does not change its size; a
transaction updates a page once; clean pages stay in the cache; a page is as large as the sector
the drivers report (4096), as in a database made on another machine with SQLite's defaults - the
driver creates none itself. The drivers' iVersion is 1, so SQLite has no WAL on them and
`enable_wal` of the pool changes nothing.

`SqliteMicro` adds `sqlite_initialized`, SQLite's `isInit` and the head of its list of drivers.
`MicroInit`, `RegisterVfs`, `MicroOpen` (with or without a vfs_config; it initializes and mounts)
and `Shutdown` are the functions of `sqlite_micro.c`; `Mount` is the application's call of the
`sqlite_micro_init_*` function, which the examples make before they open; `PlainOpen` is
`sqlite3_open` as the pool calls it without a vfs_config. `example` follows the examples: the storage
was reported mounted (`mounted`), and the open that comes last (`LastStep`: with a vfs_config, the
library initialized and the driver registered) was refused (`refused`). Opened through SQLite's own driver
(`builtin`), a connection only opens and closes. `sqlite_config.h`, which asks for
`SQLITE_OMIT_AUTOINIT`, is included by no file of the library: registering initializes SQLite.
`PowerLoss` restarts the board: everything but the storage is as at first.

### Abstract specifications

`ExclusiveLease` says what users of the pool and of the cache rely on: an object is lent to one
task at a time; when it is lent it is open and nothing of its last use is left (`dirty`); it is
not closed while lent. The pool maps `open` to its live objects, `lent` to `held`. The cache
counts a statement as lent from the hit, before the task has it (`Lent`), and only if one task has
the cache for itself. `RequestService` says that accepted requests are served at most once and in
order of acceptance, and lost only at the end of a shutdown that was begun: it is `up`, then
`stopping` from the stop bit on, then `down`. The executor's `waiting` is what the worker has received
and not finished, then the queue (`Waiting`).

`TransactionalStore` says what a program expects of its connections: a transaction sees the database
as committed last and its own updates, until its end; one transaction at a time updates, and commits
when no other is open; one given up, or lost to a power failure, leaves nothing. `SharedDatabase` maps
`committed` to the history variable `expected`, and a client's `view` to what its connection would
read of every page, from its cache or else from the file, in any state in which it may read (`View`),
so the refinement speaks of the pages not read yet too, and of a file half written. The commit is
the step that syncs the file. `void` is `disturbed \/ torn`: the promise ends when two connections
overlap in a way that locks would have prevented, or when a commit or a rollback is cut short.

## 3. Runs

| Run | Instance | Shows |
|---|---|---|
| `pool_faults` | 3 tasks, one of them patient, min 2, max 3, all faults, fair | `PoolInv` (types, and the inductive invariant of the proofs), `TokensMatchConnections`, `NeverAboveMinimum`, `StatsMatchSlots`, `TimeOutMeansBusy`, `KeepsServing` |
| `pool_lease` | 3 tasks holding up to 2, min 4, max 5, faults without a handle | `HeldIsPooled`, `CleanHandover`, `DestroyClosesAll`, `NeverAllWait`, and the refinement of `ExclusiveLease` |
| `pool_dangling` (violation) | 2 tasks, min 1, max 2, `closed_handle` | `HeldIsPooled` fails |
| `async` | 2 clients, 2 slots, queue of 2, words mod 4, 4 calls, fair | `TypeOK`, `PendingIsOffBySkew`, `ResultWrongOnlyIfShared`, `ExhaustionIsPermanent`, the refinement of `RequestService`, `QueuedIsDone` |
| `async_shared` (violation) | the same | `SlotsAreExclusive` fails |
| `async_silent` (violation) | the same with 1 slot | `DoneMeansNotified` fails |
| `cache` | 2 tasks, 3 texts, 2 entries; one of the two has the cache for itself, or both use it, hold up to 3 and clear at any time | `TypeOK`, `EntriesAreLive`, `OwnerHoldsRight`, and the refinement of `ExclusiveLease` |
| `cache_leak` (violation) | 1 task, 4 texts, 2 entries, 1 held | `DestroyFinalizesAll` fails |
| `cache_race` (violation) | 2 tasks, 3 texts, 3 entries, at most 2 held | `HeldIsRight` fails |
| `pool_async` | 2 tasks, min 1, max 2, opens that fail, queue of 4, 3 loans of an INSERT or a batch, statements failing at will | `RequestsOutliveLoansOnly`, `LoansDoNotMix`, `BatchesAreWhole`, `DirtyOnlyIfLate` |
| `embedded_database` | 4 boards, 2 connections, 3 pages, 3 commits, failing mounts, writes and syncs, power loss | `TypeOK`, `CommittedIntact`, `ReadersSeeCommitted`, `DriverCreatesNothing`, `DriverRegisteredThisTime`, and the refinement of `TransactionalStore` |
| `example_opens` (violation) | an ESP32 and an RP2040 with LittleFS, 1 connection | `ExampleOpens` fails, on either board |

**Bounds.** Pool: three tasks put one in each of the places that matter (waiting for a token,
between the semaphore and the mutex, about to give one); max above min leaves room for the growth
the code intends, and in `pool_faults` one more address than slots lets an address be reused. Three
tasks that hold one connection each and wait for a second block each other in a pool of three: with
a minimum of four (`pool_lease`) `NeverAllWait` claims that they do not, and with an open that
failed it claims nothing. Executor: `MaxRequests` bounds the calls of a behaviour; 4 are twice the
slots, so slots are shared, run out, and the queue fills while the worker is busy; `WordSize` 4
makes every counter wrap. Cache: 2 entries are an evicted and a hidden one, and 3 texts and
addresses force evictions; the run that two tasks race in has 3 entries, so that the hidden one is
neither the evicted nor the first; `MaxTick` makes ties and strict orders of access times.
`MaxInUse` bounds the statements held together when there is no `owner`: with 3 on 2 entries every
entry can be in use at a miss. Pool and executor: one connection makes the loans follow each other
on it, two tasks and three loans put a batch before, between and after other loans; the queue holds
one batch, so that it is full at times (`rejected`). `MaxFaulty` bounds the loans whose statements
fail by themselves, at any step and in both ways; it is the number of loans, so that all of them
may. The view `Relevant` of `MCPoolAsync` tells states apart by what an action or a property can
still read: not by how far a task got in a loan it has returned and, once a request was refused or
dropped, not by the rows of transactions. Database: two connections are enough for a cache to be
stale; two pages beside the first let a spill, a write and a playback stop in the middle; with three
commits a connection skips one and comes back. `MaxCommits` also bounds the updates of a page (and
so the change counter). The constraint `Followed` of `MCSqliteMicro` checks a state that is
`disturbed` or `torn` but does not go on from it: the properties about data claim nothing there, and
those about the core do not depend on it. Nor does it go on from a refused open, which leaves all
but `example` as it was.

**Symmetry** is used on tasks, addresses and connections, in runs without liveness only.
**Deadlock** is not checked: a destroyed pool or cache, and an executor at its bound of calls, have
no next step. It is checked in `embedded_database`.

**Fairness.** `pool_faults`: weak fairness of each task's steps inside a call and of releases
(the documentation insists that every acquire is followed by a release); none of `Begin`,
`Shrink`, `Destroy` or of calling acquire. No strong fairness of `TakeToken`: FreeRTOS wakes a
waiter when a token is given, but another task may take the token before the woken one runs, so
a single task may starve and `KeepsServing` promises only that some task is served, as long as the
pool has a connection at all: with every open failing there may be none. `async`:
weak fairness of the worker, which polls in a loop at its own priority, and whose statements
and callbacks return; nothing of the clients or the application.

**Findings** (`findings` in `PROJECT.json` quotes the lines). 2 to 6 and 8 are the counterexamples
of the violation runs; 1, 7 and 9 are properties that hold of the code while the documentation says
otherwise.
1. *The pool never grows* (`NeverAboveMinimum`, `pool_faults`). `available_sem` starts at
   `min_connections` and only a release adds to it, so a task waits for a token before the code that
   would open another connection is reached. That code only refills holes that failed opens left, and
   shrink never closes anything. Raising `max_connections`, as the troubleshooting page advises,
   changes nothing.
2. *acquire can return a closed handle* (`pool_dangling`) when `sqlite3_open` fails inside
   `sqlite_micro_open`.
3. *Result slots are shared* (`async_shared`): PENDING is 0 and so is the mark of a free slot.
4. *Requests are dropped in silence* (`async_silent`) once 64 results are kept: they are accepted and
   given an id, and never executed; the callback never comes. `ExhaustionIsPermanent` shows that this
   lasts until the next init.
5. *A cache hit can return another task's statement* (`cache_race`), by the read after the unlock and
   the `current_size--` of an eviction.
6. *The cache leaks statements* (`cache_leak`). After every eviction the next miss overwrites the last
   entry, however recently it was used, and nobody finalizes its statement, not even destroy.
7. *Priorities do nothing* (`ImplementsService`, `async`): the queue is strictly first come, first
   served, where the documentation has a priority queue.
8. *The examples open nothing* (`example_opens`). On an ESP32 the application mounts and
   `sqlite_micro_open` mounts again, which is refused; on an RP2040 the mount is reported done and
   never made. `BUILDING.md` gives the output of a successful open.
9. *No database is ever created* (`DriverCreatesNothing`, `embedded_database`): the driver drops
   SQLite's CREATE, while the examples start from an empty storage and create their tables.

What passes is as telling: a token is never lost except by an open that fails while it is spent, and
then never such that a connection is out of reach (`TokensMatchConnections`, `TimeOutMeansBusy`);
the unlocked writes of the executor harm only requests whose slot was shared
(`ResultWrongOnlyIfShared`); a cache that one task has for itself, with no more statements held than
there are entries, lends the right ones in spite of `current_size` (`OwnerHoldsRight`,
`ImplementsLease`). Releasing a connection before its requests have run is less dangerous than it
looks: loans of one connection still follow each other in the queue (`LoansDoNotMix`), and since the
pool never shrinks below its minimum no queued request loses its connection
(`RequestsOutliveLoansOnly`); but the ROLLBACK of a release can hit the batch of the loan before or
its own (`cut`), which `BatchesAreWhole` has to except. It also excepts batches with a statement
that failed, which the worker saves in part; such a failure harms no other batch, though: where it
leaves a transaction open, or ends it early, what follows is refused, joins it or is saved alone,
and a later batch whose own statements all succeed is whole. Through the drivers a connection never
loses what was committed to a failed write, only to another connection it overlaps with or to a
power loss within a commit.

## 4. Proofs

`ConnectionPoolProofs` proves, for every finite set of tasks, any set of addresses, all
`MinConn <= MaxConn`, and every choice of `OpenFaults`, from `SizesAssumption` and
`SetsAssumption` only:

- `PoolInvariant`: `Spec => []PoolInv`;
- `TypeCorrect`, `TokensMatch`, `PoolNeverGrows`, `StatsMatch`, its parts;
- `TimeOutJustified`: `Spec => TimeOutMeansBusy`;
- `NoConnectionLeaks`: `Spec => []InUseIsHeld`, and `NoDeadlock`: `Spec => []NeverAllWait`.

None of the parts of `PoolInv` is inductive alone. That the pool never grows rests on tokens: in
`AcquireMiss` the caller's own token is counted in `Promised`, every open connection is in use, so
`num + 1 <= Promised <= MinConn` and opening one more stays in bounds (`MissCounts`). That tokens
stay in bounds rests in turn on `num = |OpenSlots|` and `in_use \subseteq OpenSlots`
(`SlotsMatchCounters`), and on what the phase says of the calls (`PhaseMatchesCalls`). That shrink
closes nothing is `ShrinkClosesNothing`, from `NeverAboveMinimum`; without it shrink would break
`stats.total = num`. That is also why shrink is a stuttering step (`ShrinkStutters`). `GiveTokenInv`
also shows that a give is never refused at the semaphore's maximum. The lemmas `CountsAreNaturals`
and `MovingCounts` do the counting of tasks by place, from the library's theorems on finite sets;
then there is one lemma per action.

`NoDeadlock` gives the size a pool needs when tasks hold up to `HoldLimit` connections and wait for
ever: more than `|Tasks| * (HoldLimit - 1)`, whatever opens failed. It counts. Without a token or a
call on its way, `TokensMatchConnections` says that all `num` connections are in use; each of them
is held by some task (`InUseIsHeld`), and no two slots hold the same one (`SlotsHoldLive`); a task
that waits holds fewer than it may (`HeldIsBounded`). So if all who hold something wait, at most
`|Tasks| * (HoldLimit - 1)` are in use (`HeldAreCounted`, which maps the slots injectively to pairs
of a task and a number). These three facts, `WaitInv`, are inductive together with `PoolInv`; TLC
checked them with every kind of fault first. `InUseIsHeld` holds with dangling pointers too: a
release of a wrong address frees a slot that is held, never the other way round.

`DestroyedIsEmpty` (`Spec => []DestroyClosesAll`) assumes `NoOpenHandle` only: no failed open leaves
an object allocated, as none does that goes through `sqlite_micro_open`. Then every live connection is
in a slot (`AllPooled`), and closing the slots closes all, also when tasks work with dangling
pointers. After a plain `sqlite3_open` that fails the object it leaves is in no slot and nobody closes it.

`PoolLeaseProofs` proves, under the further assumption `NoHandleLeft` (a failed open leaves NULL
in `*ppDb`, as when the storage does not mount), that the loans are right:

- `LeaseInvariant`: `Spec => []LeaseInv`, and its parts `LoansArePooled` and `HandoverIsClean`;
- `PoolImplementsLease`: `Spec => ImplementsLease`.

`HeldIsPooled` is not inductive alone: that an idle slot's connection is held by nobody needs the
slots to hold distinct connections, and that a newly opened one is in no slot needs the slots to
hold live ones only; `SlotsAreLive` says both, and with `CleanHandover` and `dirty \subseteq live`
it makes `LeaseInv`, inductive together with `PoolInv`. There is one lemma per action that touches
a loan; each also states the change of `live`, `held` and `dirty` it makes, which is what
`StepRefines` needs to name the step of `ExclusiveLease`. The assumption is needed: with
`closed_handle`, TLC finds `HeldIsPooled` violated (`pool_dangling`).

`TypeCorrect` gives the types, and with them that no gauge wraps.

`AsyncExecProofs` proves, from `ParametersAssumption` only, for any finite set of clients, any
numbers of slots and queue places and counters of any width:

- `ExecInvariant`: `Spec => []ExecInv`, and its parts `TypeCorrect` and `PendingIsCounted`;
- `ResultsAreRight`: `Spec => []ResultWrongOnlyIfShared`;
- `ExhaustionLasts`: `Spec => ExhaustionIsPermanent`;
- `ExecImplementsService`: `Spec => ImplementsService`.

That the gauge counts the requests needs each request to be at one place only, with one client, at
one place of the queue or with the worker (`PlacesOK`), so that an action moves one element
of `Outstanding` or adds or removes one, and arithmetic modulo `WordSize` (`WordOfSum`). That a slot not
shared has its request's result needs more than the property says: `SlotsOK` follows the slot from the
client's write on, `SharingKnown` says that two requests with one slot are both in `shared`, and
`SlotTaken` that a request gets a slot once. The refinement needs `LogOK` and `PlacesOK`: a
request put on the queue was never on it or served before. There is one lemma per action.

`StmtCacheProofs` proves, from `SetsAssumption` and `CacheAssumption`, for any number of tasks,
texts, statements and entries, any use of them and clears at any time:

- `CacheInvariant`: `Spec => []CacheInv` (`TypeOK` and `EntriesAreLive`, inductive together), and
  its parts `TypeCorrect` and `EntriesStayLive`;
- `LoanInvariant`: `Spec => []LoanInv`, and its part `HeldAreRight`: `Spec => []OwnerHoldsRight`;
- `CacheImplementsLease`: `Spec => ImplementsLease`.

The last two speak of the behaviours with an `owner`. `LoanInv` says why `current_size` does no harm
there: only the last entry can be in the array and out of reach (`LastMayHide`), because only a full
array is evicted from, which hides its last entry, and the next miss takes that entry and grows
`current_size` back; the entries in use within reach are the ones lent (`UseMatchesLoans`); and a
caller that misses holds fewer statements than there are entries, so that an idle one exists for the
victim to be (`SomeIdle`). Without an `owner` TLC finds `HeldIsRight` violated (`cache_race`).

`SqliteMicroProofs` proves, from `PagesAssumption`, `TargetsAssumption` and `BoundAssumption` (pages
are numbers; there is no SPIFFS on an RP2040; the number of commits does not reach the mark of a
torn page), for any boards, pages, connections and bound of commits, that `Inv` is invariant (the types of
core, storage and pagers with what each state of a pager implies for its cache and journal; what
registration and mounting have to do with open connections), and from it `TypeCorrect`,
`NothingIsCreated`, `DriverIsRegistered`.

`DatabaseProofs` proves from the same assumptions

- `CommittedStays`: `Spec => []CommittedIntact`;
- `ReadersAreCurrent`: `Spec => []ReadersSeeCommitted`.

Neither is inductive: both say what holds between transactions or of a reader, and the steps that could
break them are in the middle of a write. `DataInv` says of a program in which connections have taken
turns and no commit was cut short (`Calm`) that the states of two pagers exclude each other as real
locks would have made them (`LocksExclude`), and of each pager, by state (`PagerOK`): a cache
kept without a lock is as committed if its version is the current one, and versions never come back
(`OpenOK`); with a lock it is as committed (`ReaderOK`); in a write exactly the pages in the journal are
changed, the journal has the committed contents, and what is written to the file has a synced record
(`WriterOK`); and in a rollback every page that is not as committed has a record still to come
(`UndoOK`, `UndoCacheOK`). A `Calm` state is only reached from `Calm` ones, as `disturbed` and `torn`
never fall back.

`StoreProofs` proves `DatabaseImplementsStore`: `Spec => ImplementsStore`, for any pages,
connections and boards, from the same assumptions. What a transaction is to see follows from its
pager's state and journal alone (`Promise`: as committed, and one update more of each page with a
record), and `DataInv` is strong enough to show that it is what the connection reads (`Sees`, from
`PromiseKept`), whichever pages are cached, written or undone. A step of one connection therefore
changes its own view only, by what happens to its state and journal, and each of the pager's actions
is then named as a step of the store or a stutter: `SharedLock` starts, the first write of a page
updates, `SyncFile` commits, the end of a transaction or of a rollback gives up; reading, spilling,
writing back and playing back are stutters (one lemma per action, `SharedLockStores` to
`PowerLossStores`). That no other transaction sees an update or a commit is `LocksExclude`.

`PoolAsyncProofs` proves of pool and executor together, from `SizesAssumption`, `SetsAssumption` and
`ScriptsAssumption`, that what is proved of the pool holds under the executor too (`PoolUnderneath`:
`PoolAsyncSpec => P!Spec`, where `P` is `PoolLeaseProofs` without the transactions, which the worker
begins at any time); and, under `OneLoanEach` (a task has one connection at a time, `HoldLimit = 1`,
and a failed open leaves no handle), for any tasks, loans, connections, queue and scripts, also
scripts with statements in no sensible order:

- `RequestsAreServable`: `PoolAsyncSpec => []RequestsOutliveLoansOnly`;
- `HandoverIsCleanButForLate`: `PoolAsyncSpec => []DirtyOnlyIfLate`;

and if also `ScriptsAreBatches` (BEGIN only first, COMMIT only last in a script, neither without the
other), for any such scripts:

- `LoansStayApart`: `PoolAsyncSpec => []LoansDoNotMix`;
- `BatchesStayWhole`: `PoolAsyncSpec => []BatchesAreWhole`.

All four are parts of one invariant, `AsyncInv`, about the line of requests (`Line`, the worker's
and then the queue's). The pool lends a connection to one task at a time, so the requests on it are
those of one loan after the other, each in the order of its script (`OrderOK`). When nothing is
refused or dropped and scripts are batches, a loan with a request in the line has its last statement
in the line too, or still to be submitted by the task that has the connection (`ScriptsComplete`).
An open transaction then is that of a loan whose COMMIT is ahead, before any request of a later
loan, unless a statement of that loan failed (`BegunBy`); after a failure the COMMIT may have run
without effect and later loans join the transaction, but never a batch that nothing befell
(`Sound`), since its BEGIN would have been refused (`TxnsFollow`). So what is done of a sound batch
(`Done`: no longer in the line nor ahead of it) is in one transaction of its own until all of it is
saved (`BatchesFollow`). `Outcome` reduces what `Execute` can do to five cases (begins, joins, saves
itself, commits, fails), and `ExecuteIsSafe` and `ExecuteFollows` go through them. Neither uses
`MaxFaulty`: any number of loans may have statements that fail. TLC checked `AsyncInv` on the
instance of `pool_async`, with one loan whose statements fail, before it was proved.

**What stays with TLC.** Liveness (`KeepsServing`, `QueuedIsDone`), which TLAPS does not reach. No
module that is proved about declares a recursive operator. TLC evaluates every assumption on every
run.

## 5. Not modelled

- `Destroy` racing a call, clients deleted while they hold a mutex, a second init during a
  shutdown: the documented shutdown excludes them.
- Tasks that hold several connections in a pool too small for it (they can deadlock by their own
  choice; `NeverAllWait` says which pools are large enough).
- Row callbacks, error messages, execution times. `AsyncExec` has one verdict of a statement
  (`final`); what a failed statement means for the batch it is in is in `PoolAsync`.
- Two connections that overlap in spite of locks that should have kept them apart, and a power loss
  within a commit: both are reached, and nothing is claimed of the data after them.
- Formatting a storage whose mount fails.
- `sqlite_pool_validate`, which prepares a statement on every connection and changes nothing.
- In the drivers: truncate and delete (no journal is ever a file, no database changes its size),
  and the functions without state (names, time, sleep, randomness, dlopen).
- In SQLite: everything above the pager (b-tree, parser, virtual machine), WAL, savepoints,
  super-journals, hot journals (a journal file cannot exist), pages smaller than a sector,
  databases that grow. What is modelled of it are some 1,500 lines of the 220,000 of `sqlite3.c`;
  the rest, and `shell.c`, is third-party code that the repository carries unchanged.
- `sqlite_monitor.h` and `sqlite_backup.h`, whose functions exist nowhere.

## 6. Plan

Done: the pool, the executor and the cache, their abstract specifications and the proofs about all
three; pool and executor together, core, drivers and pager, with the proofs about them. Left, in this
order:

1. The full executor, instead of `RequestService`, under `PoolAsync`; `ExecImplementsService` justifies
   the shorter form meanwhile.
2. Pages smaller than a sector, which SQLite journals and writes by the sector.
