----------------------------- MODULE SqliteMicro -----------------------------
(***************************************************************************)
(* The library's core, src/src/sqlite_micro.c: initialization, the choice  *)
(* of the file driver, mounting the storage, opening a database, and the   *)
(* shutdown; with what SQLite's own initialization does to the list of     *)
(* drivers.  The connections opened through the library's driver work on   *)
(* the database as in SharedDatabase; of one opened through SQLite's own   *)
(* driver only its open and its close are modelled.                        *)
(***************************************************************************)
EXTENDS SharedDatabase

VARIABLES
    initialized,   \* sqlite_initialized of sqlite_micro.c
    lib,           \* isInit of SQLite
    dflt,          \* the head of SQLite's list of drivers
    via,           \* connection -> the driver it was opened through
    current,       \* history: the driver was registered since SQLite's init
    example,       \* history: how far the program has followed the examples
    given          \* history: the files the application or SQLite's driver made

lifeVars == <<initialized, lib, dflt, via, current, example, given>>
vars == <<storageVars, dbVars, lifeVars>>

-----------------------------------------------------------------------------
(* Initialization and registration *)

\* sqlite3_initialize, once: SQLite's own driver is put at the head of the
\* list, on which ours is still after a shutdown.  The first form puts it there
\* only if the list is empty.
AfterFirstInit == IF dflt = "none" THEN "builtin" ELSE dflt
AfterInit == IF lib THEN dflt ELSE "builtin"

LibInit == lib' = TRUE /\ dflt' = AfterInit

MicroInit ==
    /\ initialized' = TRUE
    /\ IF initialized THEN UNCHANGED <<lib, dflt>> ELSE LibInit
    /\ UNCHANGED <<storageVars, dbVars, via, current, example, given>>

\* sqlite3_vfs_register initializes SQLite, not the library.
RegisterVfs ==
    /\ lib' = TRUE
    /\ dflt' = "driver"
    /\ current' = TRUE
    /\ UNCHANGED <<storageVars, dbVars, initialized, via, example, given>>

-----------------------------------------------------------------------------
(* Mounting *)

\* The application mounts the storage, as the examples do before they register
\* the driver and open.
Mount ==
    /\ \E ok \in BOOLEAN :
         /\ IF target.storage = "sdcard" THEN MountCardOf(target.platform, ok)
            ELSE MountFlashOf(target.platform, ok)
         /\ example' = IF ok /\ example = "begun" THEN "mounted" ELSE example
    /\ UNCHANGED <<target, files, content, flash, dbVars, initialized, lib, dflt,
                   via, current, given>>

\* sqlite_micro_storage_init, on every open with a vfs_config.
StorageInit(config, ok) ==
    IF config /\ target.storage # "sdcard"
    THEN MountFlashOf(target.platform, ok)
    ELSE ok /\ UNCHANGED <<mounted, bus>>

-----------------------------------------------------------------------------
(* Opening and closing *)

\* sqlite3_open through the default driver `driver`.
OpenSucceeds(c, driver, there, mode) ==
    /\ IF driver = "driver"
       THEN /\ Opens(there, "database", MainDbFlags)
            /\ given' = given
            /\ pager' = [pager EXCEPT ![c] = Opened(mode)]
       ELSE /\ there
            /\ given' = given \cup {"database"}
            /\ pager' = pager
    /\ FileOpened("database")
    /\ via' = [via EXCEPT ![c] = driver]

OpenFails(driver, there) ==
    /\ IF driver = "driver" THEN ~Opens(there, "database", MainDbFlags)
       ELSE ~there
    /\ UNCHANGED <<files, given, pager, via>>

\* The result of PRAGMA journal_mode=MEMORY is ignored: when it cannot read the
\* database the connection keeps its journal in a file.
ModeSet == {"MEMORY"} \cup (IF Faults THEN {"DELETE"} ELSE {})

\* The open is the last step of an example: the library is initialized, the
\* storage was reported mounted and the driver is registered.
LastStep(config) ==
    config /\ initialized /\ current /\ example = "mounted"

MicroOpen(c, config) ==
    /\ via[c] = "none"
    /\ initialized' = TRUE
    /\ IF initialized THEN UNCHANGED <<lib, dflt>> ELSE LibInit
    /\ \/ /\ \/ /\ StorageInit(config, FALSE)
                /\ UNCHANGED <<files, given, pager, via>>
             \/ /\ StorageInit(config, TRUE)
                /\ OpenFails(dflt', mounted')
          /\ example' = IF LastStep(config) THEN "refused" ELSE example
       \/ /\ StorageInit(config, TRUE)
          /\ \E mode \in ModeSet : OpenSucceeds(c, dflt', mounted', mode)
          /\ example' = example
    /\ UNCHANGED <<target, content, flash, expected, disturbed, torn, current>>

\* sqlite3_open called directly, as the pool does without a vfs_config.
PlainOpen(c) ==
    /\ via[c] = "none"
    /\ LibInit
    /\ \/ OpenFails(dflt', mounted)
       \/ OpenSucceeds(c, dflt', mounted, "DELETE")
    /\ UNCHANGED <<target, mounted, bus, content, flash, expected, disturbed,
                   torn, initialized, current, example>>

\* sqlite3_close, when the connection is idle.
Close(c) ==
    /\ via[c] # "none"
    /\ In(c, {"open", "closed"})
    /\ via' = [via EXCEPT ![c] = "none"]
    /\ pager' = [pager EXCEPT ![c] = Closed]
    /\ UNCHANGED <<storageVars, expected, disturbed, torn, initialized, lib,
                   dflt, current, example, given>>

\* sqlite_micro_shutdown, after every connection was closed.
Shutdown ==
    /\ \A c \in Conns : via[c] = "none"
    /\ initialized
    /\ initialized' = FALSE
    /\ lib' = FALSE
    /\ current' = FALSE
    /\ UNCHANGED <<storageVars, dbVars, dflt, via, example, given>>

\* The board loses power and starts again.
PowerLoss ==
    /\ LosePower
    /\ pager' = [c \in Conns |-> Closed]
    /\ torn' = (torn \/ \E c \in Conns : In(c, Writing))
    /\ initialized' = FALSE
    /\ lib' = FALSE
    /\ dflt' = "none"
    /\ via' = [c \in Conns |-> "none"]
    /\ current' = FALSE
    /\ example' = "begun"
    /\ UNCHANGED <<expected, disturbed, given>>

-----------------------------------------------------------------------------

\* The database is on the storage already, or there is none.
Init ==
    /\ target \in Targets
    /\ mounted = FALSE
    /\ bus = FALSE
    /\ files \in {{}, {"database"}}
    /\ content = [p \in Pages |-> 0]
    /\ flash = content
    /\ DatabaseInit
    /\ initialized = FALSE
    /\ lib = FALSE
    /\ dflt = "none"
    /\ via = [c \in Conns |-> "none"]
    /\ current = FALSE
    /\ example = "begun"
    /\ given = files

Next ==
    \/ DatabaseNext /\ UNCHANGED lifeVars
    \/ MicroInit
    \/ RegisterVfs
    \/ Mount
    \/ \E c \in Conns :
         \/ \E config \in BOOLEAN : MicroOpen(c, config)
         \/ PlainOpen(c)
         \/ Close(c)
    \/ Shutdown
    \/ PowerLoss

Spec == Init /\ [][Next]_vars

-----------------------------------------------------------------------------
(* Properties *)

TypeOK ==
    /\ target \in Targets
    /\ mounted \in BOOLEAN
    /\ bus \in BOOLEAN
    /\ files \subseteq {"database", "journal"}
    /\ content \in [Pages -> Counts]
    /\ flash \in [Pages -> Counts]
    /\ PagerTypeOK
    /\ initialized \in BOOLEAN
    /\ lib \in BOOLEAN
    /\ dflt \in {"none", "builtin", "driver"}
    /\ via \in [Conns -> {"none", "builtin", "driver"}]
    /\ current \in BOOLEAN
    /\ example \in {"begun", "mounted", "refused"}
    /\ given \subseteq {"database"}

\* The driver creates no file, whatever SQLite asks for.  A connection whose
\* journal is a file can therefore read and never write: only those of
\* sqlite_micro_open, with their journal in memory, change anything.
DriverCreatesNothing ==
    /\ files \subseteq given
    /\ \A c \in Conns : pager[c].journal # <<>> => pager[c].mode = "MEMORY"

\* A connection goes through the library's driver only if the application
\* registered it since SQLite was initialized last: a shutdown undoes it.
DriverRegisteredThisTime ==
    \A c \in Conns : via[c] = "driver" => lib /\ current

\* The examples, README.md:66-89 and BUILDING.md:285-293 ("Database opened
\* successfully!"): a program that initializes the library, mounts the storage,
\* registers the driver and then opens with a vfs_config has its database open.
ExampleOpens == example # "refused"

\* The rollback journal, the page caches and the change counter make transactions
\* of the connections' calls: TransactionalStore is implemented, until two of
\* them overlap where nothing locks or a commit is cut short.
ImplementsStore == Store!StoreSpec
=============================================================================
