----------------------------- MODULE VfsDriver ------------------------------
(***************************************************************************)
(* The file drivers of src/src/vfs: vfs_littlefs.c, and vfs_spiffs.c and   *)
(* vfs_sdcard.c, which are the same code with other names, over the POSIX  *)
(* files of the storage.  One database file is modelled, with the rollback *)
(* journal SQLite keeps beside it; a page of the database is a number.     *)
(* What open, read, write and fsync do is that of the storage, outside the *)
(* repository.                                                             *)
(***************************************************************************)
EXTENDS Naturals

CONSTANTS
    DataPages,   \* the pages of the database that hold rows
    Targets      \* the boards built for: records of platform and storage

Header == 1   \* the page with the file change counter
Pages == {Header} \cup DataPages

Platforms == {"ESP32", "RP2040"}
Storages == {"spiffs", "littlefs", "sdcard"}

ASSUME PagesAssumption == DataPages \subseteq Nat \ {0, Header}
\* There is no SPIFFS on an RP2040.
ASSUME TargetsAssumption ==
    /\ Targets \subseteq [platform : Platforms, storage : Storages]
    /\ [platform |-> "RP2040", storage |-> "spiffs"] \notin Targets

VARIABLES
    target,     \* the board, which never changes
    mounted,    \* the storage is mounted
    bus,        \* the SPI bus of the SD card is initialized
    files,      \* the files that exist: "database", "journal"
    content,    \* page -> what a read of the database returns
    flash       \* page -> what is there after a power loss for sure

storageVars == <<target, mounted, bus, files, content, flash>>

-----------------------------------------------------------------------------
(* xOpen *)

\* How SQLite opens a database and its journal.
MainDbFlags == {"READWRITE", "CREATE", "MAIN_DB"}
JournalFlags == {"READWRITE", "CREATE", "MAIN_JOURNAL"}

\* SQLite's flags as POSIX flags, and the form that gives CREATE its meaning
\* whatever the access.
CreateHeeded(flags) ==
    CASE "READONLY" \in flags -> {"O_RDONLY"}
      [] "READWRITE" \in flags /\ "CREATE" \in flags -> {"O_RDWR", "O_CREAT"}
      [] OTHER -> {"O_RDWR"}
AccessMode(flags) ==
    IF "READONLY" \in flags THEN {"O_RDONLY"}
    ELSE IF "READWRITE" \in flags THEN {"O_RDWR"}
    ELSE IF "CREATE" \in flags THEN {"O_RDWR", "O_CREAT"}
    ELSE {"O_RDONLY"}

\* POSIX open of a file, the storage being mounted or not.  (O_EXCL asks for
\* nothing here: SQLite gives it for temporary files only, which have no name.)
Opens(there, name, flags) ==
    /\ there
    /\ name \in files \/ "O_CREAT" \in AccessMode(flags)

\* An open has succeeded: the file is there now.
FileOpened(name) == files' = files \cup {name}

-----------------------------------------------------------------------------
(* xRead, xWrite and xSync of the database *)

Read(p) == content[p]

Write(p, value) ==
    /\ content' = [content EXCEPT ![p] = value]
    /\ UNCHANGED <<target, mounted, bus, files, flash>>

\* A write that fails may have changed a part of the page.
Garbled == 255
WriteFails(p) ==
    /\ content' \in {content, [content EXCEPT ![p] = Garbled]}
    /\ UNCHANGED <<target, mounted, bus, files, flash>>

Sync ==
    /\ flash' = content
    /\ UNCHANGED <<target, mounted, bus, files, content>>

\* Of what was written since the last sync, any part is lost.
LosePower ==
    /\ content' \in {f \in [Pages -> {content[p] : p \in Pages}
                                      \cup {flash[p] : p \in Pages}] :
                       \A p \in Pages : f[p] \in {content[p], flash[p]}}
    /\ flash' = content'
    /\ mounted' = FALSE
    /\ bus' = FALSE
    /\ UNCHANGED <<target, files>>

-----------------------------------------------------------------------------
(* Mounting; ok is the result *)

\* sqlite_micro_init_spiffs and sqlite_micro_init_littlefs_esp32: a mount may fail
\* (no partition, a broken file system, no memory), and the ESP-IDF refuses to
\* mount a partition a second time.
MountFlash(ok) ==
    /\ ok => ~mounted
    /\ mounted' = (mounted \/ ok)
    /\ bus' = bus

\* sqlite_micro_init_sdcard on an ESP32, called by the application: the SPI bus
\* cannot be initialized a second time, and stays so when the card then fails to
\* mount.
MountCard(ok) ==
    /\ ok => ~bus
    /\ mounted' = (mounted \/ ok)
    /\ bus' \in IF ok THEN {TRUE} ELSE {bus, TRUE}

\* On an RP2040 nothing in the repository connects a file system to the POSIX
\* calls of the drivers: sqlite_micro_init_littlefs_rp2040 reports success and
\* mounts nothing, sqlite_micro_init_sdcard mounts a FatFS volume they never see.
PicoFlash(ok) == ok /\ UNCHANGED <<mounted, bus>>
PicoCard == UNCHANGED <<mounted, bus>>

MountFlashOf(platform, ok) ==
    IF platform = "ESP32" THEN MountFlash(ok) ELSE PicoFlash(ok)
MountCardOf(platform, ok) ==
    IF platform = "ESP32" THEN MountCard(ok) ELSE PicoCard
=============================================================================
