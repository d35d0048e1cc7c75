--------------------------- MODULE SharedDatabase ---------------------------
(***************************************************************************)
(* Connections of one program that share a database file through a driver  *)
(* of src/src/vfs: the rollback-journal pager of src/src/sqlite3.c with    *)
(* each connection's page cache, over xOpen, xRead, xWrite and xSync of    *)
(* the driver, whose xLock and xUnlock do nothing and report success.      *)
(*                                                                         *)
(* Of a page only how often it was updated is kept.  A transaction updates *)
(* pages that exist, each once; clean pages stay in the cache; a page is   *)
(* not smaller than a sector of the storage.                               *)
(***************************************************************************)
EXTENDS VfsDriver, Sequences, FiniteSets

CONSTANTS
    Conns,        \* connections: sqlite3 objects
    MaxCommits,   \* bound on the commits and on the updates of a page
    Faults        \* writes and syncs may fail

ASSUME BoundAssumption == MaxCommits \in 0..(Garbled - 1)

VARIABLES
    pager,       \* the pager of each connection: a record, see Opened
    expected,    \* history: page -> the updates of it committed so far
    disturbed,   \* history: a lock was granted that another one excludes
    torn         \* history: a commit was cut short, or its undoing failed

dbVars == <<pager, expected, disturbed, torn>>

-----------------------------------------------------------------------------

NoCache == [p \in {} |-> 0]
Cached(c) == DOMAIN pager[c].cache
WithPage(cache, p, value) ==
    [q \in DOMAIN cache \cup {p} |-> IF q = p THEN value ELSE cache[q]]

\* A pager that holds no lock: the journal is a sequence of the pages' contents
\* before the transaction, of which the first `synced` ones are covered by
\* journalHdr; `vers` is dbFileVers.
Opened(mode) ==
    [state |-> "open", mode |-> mode, cache |-> NoCache, vers |-> 0,
     dirty |-> {}, journal |-> <<>>, synced |-> 0, next |-> 1]
Closed == [Opened("MEMORY") EXCEPT !.state = "closed"]

In(c, states) == pager[c].state \in states
Active == {"reader", "locked", "cachemod", "dbmod"}
\* The file is being changed.
Writing == {"dbmod", "commit", "undo", "error"}

Journaled(c) == {pager[c].journal[i].page : i \in 1..Len(pager[c].journal)}
\* A page is journaled as it is before its update; the first form would take it
\* as it is afterwards.
RecordAfter(c, p) == [page |-> p, orig |-> pager[c].cache[p] + 1]
Record(c, p) == [page |-> p, orig |-> pager[c].cache[p]]
Original(c, p) ==
    LET i == CHOOSE i \in 1..Len(pager[c].journal) :
                 pager[c].journal[i].page = p
    IN  pager[c].journal[i].orig

-----------------------------------------------------------------------------
(* Locks: littlefs_lock and its copies grant whatever is asked *)

LockOf(c) ==
    CASE In(c, {"closed", "open"}) -> "NONE"
      [] In(c, {"reader"}) -> "SHARED"
      [] In(c, {"locked", "cachemod"}) -> "RESERVED"
      [] OTHER -> "EXCLUSIVE"

\* The locks of other connections with which SQLite does not expect to get one.
Excluding(lock) ==
    CASE lock = "SHARED" -> {"EXCLUSIVE"}
      [] lock = "RESERVED" -> {"RESERVED", "EXCLUSIVE"}
      [] lock = "EXCLUSIVE" -> {"SHARED", "RESERVED", "EXCLUSIVE"}

Lock(c, lock) ==
    disturbed' = (disturbed \/ \E d \in Conns \ {c} :
                                   LockOf(d) \in Excluding(lock))

-----------------------------------------------------------------------------
(* Reading *)

\* The cache survives when the change counter of the file is that of the last
\* read of page 1; the other form trusts it always.
KeepCache(c) == pager[c].cache
ValidCache(c) ==
    IF pager[c].vers = Read(Header) THEN pager[c].cache ELSE NoCache

\* A SHARED lock, the check of the cache, and the read of page 1.
SharedLock(c) ==
    /\ In(c, {"open"})
    /\ Lock(c, "SHARED")
    /\ LET kept == ValidCache(c)
       IN  pager' = [pager EXCEPT
             ![c].state = "reader",
             ![c].cache = IF Header \in DOMAIN kept THEN kept
                          ELSE WithPage(kept, Header, Read(Header)),
             ![c].vers = IF Header \in DOMAIN kept THEN @ ELSE Read(Header)]
    /\ UNCHANGED <<storageVars, expected, torn>>

GetPage(c, p) ==
    /\ In(c, Active)
    /\ p \notin Cached(c)
    /\ pager' = [pager EXCEPT ![c].cache = WithPage(@, p, Read(p))]
    /\ UNCHANGED <<storageVars, expected, disturbed, torn>>

EndRead(c) ==
    /\ In(c, {"reader"})
    /\ pager' = [pager EXCEPT ![c].state = "open"]
    /\ UNCHANGED <<storageVars, expected, disturbed, torn>>

-----------------------------------------------------------------------------
(* Writing *)

Begin(c) ==
    /\ In(c, {"reader"})
    /\ Lock(c, "RESERVED")
    /\ pager' = [pager EXCEPT ![c].state = "locked"]
    /\ UNCHANGED <<storageVars, expected, torn>>

\* The journal, opened by the first write of a transaction, is a file unless
\* journal_mode is MEMORY.
OpenJournal(c) ==
    IF In(c, {"locked"}) /\ pager[c].mode # "MEMORY"
    THEN Opens(mounted, "journal", JournalFlags) /\ FileOpened("journal")
    ELSE files' = files

WritePage(c, p) ==
    /\ In(c, {"locked", "cachemod", "dbmod"})
    /\ p \in Cached(c) \ Journaled(c)
    /\ p # Header
    /\ pager[c].cache[p] < MaxCommits
    /\ OpenJournal(c)
    /\ pager' = [pager EXCEPT
         ![c].state = IF @ = "locked" THEN "cachemod" ELSE @,
         ![c].journal = Append(@, Record(c, p)),
         ![c].cache[p] = @ + 1,
         ![c].dirty = @ \cup {p}]
    /\ UNCHANGED <<target, mounted, bus, content, flash, expected, disturbed,
                   torn>>

\* pager_error: the pages in memory are not trusted any more, and the journal
\* is played back from its beginning.
InError(c) ==
    [pager[c] EXCEPT !.state = "error", !.cache = NoCache, !.dirty = {},
                     !.next = 1]

\* The cache is full: a page of the transaction is written before its end.
\* The journal records made since the last sync of the journal are synced.
Spill(c, p) ==
    /\ In(c, {"cachemod", "dbmod"})
    /\ p \in pager[c].dirty
    /\ Lock(c, "EXCLUSIVE")
    /\ LET unsynced == \E i \in 1..Len(pager[c].journal) :
               pager[c].journal[i].page = p /\ i > pager[c].synced
       IN  \/ /\ Write(p, pager[c].cache[p])
              /\ pager' = [pager EXCEPT
                   ![c].state = "dbmod",
                   ![c].synced = IF unsynced THEN Len(pager[c].journal) ELSE @,
                   ![c].dirty = @ \ {p}]
           \/ /\ Faults
              /\ WriteFails(p)
              /\ pager' = [pager EXCEPT ![c] =
                   [InError(c) EXCEPT
                      !.synced = IF unsynced THEN Len(pager[c].journal)
                                 ELSE @]]
    /\ UNCHANGED <<expected, torn>>

-----------------------------------------------------------------------------
(* Commit *)

\* The change counter is incremented in page 1, the file locked and the journal
\* synced; or nothing was written and there is nothing to do.
CommitStart(c) ==
    /\ In(c, {"cachemod", "dbmod"})
    /\ pager[c].vers < MaxCommits
    /\ expected[Header] < MaxCommits
    /\ Lock(c, "EXCLUSIVE")
    /\ pager' = [pager EXCEPT
         ![c].state = "commit",
         ![c].journal = Append(@, Record(c, Header)),
         ![c].cache[Header] = pager[c].vers + 1,
         ![c].dirty = @ \cup {Header},
         ![c].synced = Len(pager[c].journal) + 1]
    /\ UNCHANGED <<storageVars, expected, torn>>

\* The dirty pages are written in order.  A failed write makes the statement
\* roll back; dbFileVers follows page 1 in any case.
WriteBack(c) ==
    /\ In(c, {"commit"})
    /\ \E p \in pager[c].dirty :
         /\ \A q \in pager[c].dirty : p <= q
         /\ LET vers == IF p = Header THEN pager[c].cache[p] ELSE pager[c].vers
            IN  \/ /\ Write(p, pager[c].cache[p])
                   /\ pager' = [pager EXCEPT ![c].dirty = @ \ {p},
                                             ![c].vers = vers]
                \/ /\ Faults
                   /\ WriteFails(p)
                   /\ pager' = [pager EXCEPT ![c].state = "undo",
                                             ![c].next = 1,
                                             ![c].vers = vers]
    /\ UNCHANGED <<expected, disturbed, torn>>

\* The sync of the file is the commit.
SyncFile(c) ==
    /\ In(c, {"commit"})
    /\ pager[c].dirty = {}
    /\ \/ /\ Sync
          /\ pager' = [pager EXCEPT ![c].state = "finished"]
          /\ expected' = [p \in Pages |-> IF p \in Journaled(c)
                                          THEN expected[p] + 1 ELSE expected[p]]
       \/ /\ Faults
          /\ pager' = [pager EXCEPT ![c].state = "undo", ![c].next = 1]
          /\ UNCHANGED <<storageVars, expected>>
    /\ UNCHANGED <<disturbed, torn>>

\* The journal is closed and the lock lowered to SHARED.  The first form leaves
\* journalHdr to the next transaction.
EndKeepingHeader(c, cache) ==
    [pager[c] EXCEPT !.state = "reader", !.cache = cache, !.dirty = {},
                     !.journal = <<>>, !.next = 1]
EndTransaction(c, cache) ==
    [pager[c] EXCEPT !.state = "reader", !.cache = cache, !.dirty = {},
                     !.journal = <<>>, !.synced = 0, !.next = 1]

Finish(c) ==
    /\ In(c, {"finished"})
    /\ pager' = [pager EXCEPT ![c] = EndTransaction(c, pager[c].cache)]
    /\ UNCHANGED <<storageVars, expected, disturbed, torn>>

-----------------------------------------------------------------------------
(* Rollback *)

\* While only the cache was changed, only the cache is restored.
Rollback(c) ==
    /\ \/ /\ In(c, {"locked", "cachemod"})
          /\ pager' = [pager EXCEPT ![c] = EndTransaction(c,
               [p \in Cached(c) |-> IF p \in Journaled(c) THEN Original(c, p)
                                    ELSE pager[c].cache[p]])]
       \/ /\ In(c, {"dbmod"})
          /\ pager' = [pager EXCEPT ![c].state = "undo", ![c].next = 1]
    /\ UNCHANGED <<storageVars, expected, disturbed, torn>>

\* The records that go back to the file: those synced before it was changed.
\* The other form takes the offset after the last one for that of a record.
BeforeSync(c, i) == i < pager[c].synced
IsSynced(c, i) == i <= pager[c].synced

\* Rolling back failed: the error is recovered from when the connection gives
\* up its last page; failing again, it forgets the journal.
UndoFails(c) ==
    IF In(c, {"undo"})
    THEN pager' = [pager EXCEPT ![c] = InError(c)] /\ torn' = torn
    ELSE pager' = [pager EXCEPT ![c] = Opened(@.mode)] /\ torn' = TRUE

UndoPage(c) ==
    /\ In(c, {"undo", "error"})
    /\ pager[c].next <= Len(pager[c].journal)
    /\ LET r == pager[c].journal[pager[c].next]
       IN  \/ /\ IF IsSynced(c, pager[c].next) THEN Write(r.page, r.orig)
                 ELSE UNCHANGED storageVars
              /\ pager' = [pager EXCEPT
                   ![c].next = @ + 1,
                   ![c].cache = IF r.page \in DOMAIN @
                                THEN [@ EXCEPT ![r.page] = r.orig] ELSE @,
                   ![c].vers = IF r.page = Header /\ Header \in Cached(c)
                               THEN r.orig ELSE @]
              /\ torn' = torn
           \/ /\ Faults
              /\ IsSynced(c, pager[c].next)
              /\ WriteFails(r.page)
              /\ UndoFails(c)
    /\ UNCHANGED <<expected, disturbed>>

\* The file is synced and the journal closed; after an error the cache is empty
\* and the lock given up.
UndoDone(c) ==
    /\ In(c, {"undo", "error"})
    /\ pager[c].next > Len(pager[c].journal)
    /\ \/ /\ Sync
          /\ pager' = [pager EXCEPT ![c] =
               IF @.state = "undo" THEN EndTransaction(c, @.cache)
               ELSE Opened(@.mode)]
          /\ torn' = torn
       \/ /\ Faults
          /\ UndoFails(c)
          /\ UNCHANGED storageVars
    /\ UNCHANGED <<expected, disturbed>>

-----------------------------------------------------------------------------

DatabaseInit ==
    /\ pager = [c \in Conns |-> Closed]
    /\ expected = content
    /\ disturbed = FALSE
    /\ torn = FALSE

DatabaseNext ==
    \E c \in Conns :
      \/ SharedLock(c)
      \/ \E p \in Pages : GetPage(c, p)
      \/ EndRead(c)
      \/ Begin(c)
      \/ \E p \in DataPages : WritePage(c, p)
      \/ \E p \in DataPages : Spill(c, p)
      \/ CommitStart(c)
      \/ WriteBack(c)
      \/ SyncFile(c)
      \/ Finish(c)
      \/ Rollback(c)
      \/ UndoPage(c)
      \/ UndoDone(c)

-----------------------------------------------------------------------------
(* Properties *)

Counts == 0..MaxCommits \cup {Garbled}
Caches == UNION {[S -> Counts] : S \in SUBSET Pages}

Pagers ==
    [state : Active \cup Writing \cup {"closed", "open", "finished"},
     mode : {"MEMORY", "DELETE"}, cache : Caches, vers : Counts,
     dirty : SUBSET Pages, journal : Seq([page : Pages, orig : Counts]),
     synced : Nat, next : Nat]

PagerTypeOK ==
    /\ pager \in [Conns -> Pagers]
    /\ \A c \in Conns :
         /\ pager[c].synced <= Len(pager[c].journal)
         /\ pager[c].next \in 1..(Len(pager[c].journal) + 1)
    /\ expected \in [Pages -> Nat]
    /\ disturbed \in BOOLEAN
    /\ torn \in BOOLEAN

\* As long as connections take turns the way locks would have made them, and no
\* commit is cut short, the file holds exactly the transactions committed,
\* between transactions and after a power loss, whatever writes and syncs fail.
CommittedIntact ==
    ~disturbed /\ ~torn /\ (\A c \in Conns : ~In(c, Writing)) =>
        content = expected /\ flash = expected

\* Then a connection that reads, and one that has changed its cache only, reads
\* what was committed last, from a cache it kept across other connections'
\* transactions too; its own updates are the only difference.
ReadersSeeCommitted ==
    ~disturbed /\ ~torn =>
        \A c \in Conns : In(c, {"reader", "locked", "cachemod"}) =>
            \A p \in Cached(c) \ Journaled(c) : pager[c].cache[p] = expected[p]

\* What the transaction of a connection reads of each page: as long as it may
\* read, also when its pages are being written.
View(c) ==
    IF In(c, Active \cup {"commit", "finished"})
    THEN [p \in Pages |-> IF p \in Cached(c) THEN pager[c].cache[p] ELSE Read(p)]
    ELSE NoCache

Store == INSTANCE TransactionalStore WITH
    Keys <- Pages, Clients <- Conns, committed <- expected,
    view <- [c \in Conns |-> View(c)], void <- disturbed \/ torn
=============================================================================
