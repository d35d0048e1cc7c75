------------------------- MODULE SqliteMicroProofs --------------------------
(***************************************************************************)
(* The library's core and the connections below it, for any pages, number  *)
(* of connections and boards: the types, and what the driver's xOpen, the  *)
(* registration of the driver and the mounting of the storage lead to.     *)
(* The assumptions are those of VfsDriver and SharedDatabase.              *)
(***************************************************************************)
EXTENDS SqliteMicro, TLAPS

\* One pager: page 1 is in the cache while a transaction is open, a changed page
\* is in the cache, and only a write transaction has a journal, in memory.
Sound(r) ==
    /\ r.synced <= Len(r.journal)
    /\ r.next \in 1..(Len(r.journal) + 1)
    /\ r.state \notin {"closed", "open", "error"} => Header \in DOMAIN r.cache
    /\ r.dirty \subseteq DOMAIN r.cache
    /\ r.state \in {"closed", "open", "reader", "locked"} =>
           r.journal = <<>> /\ r.dirty = {}
    /\ r.state \in {"cachemod", "dbmod"} \/ r.journal # <<>> =>
           r.mode = "MEMORY"

\* The database: pagers, storage and history.
PagersSound ==
    /\ pager \in [Conns -> Pagers]
    /\ \A c \in Conns : Sound(pager[c])

StorageSound ==
    /\ content \in [Pages -> Counts]
    /\ flash \in [Pages -> Counts]
    /\ files \subseteq given
    /\ given \subseteq {"database"}

HistorySound ==
    /\ expected \in [Pages -> Nat]
    /\ disturbed \in BOOLEAN
    /\ torn \in BOOLEAN

DatabaseSound == PagersSound /\ StorageSound /\ HistorySound

\* A cache maps some of the pages to contents.
LEMMA CacheOf ==
    ASSUME NEW f \in Caches
    PROVE  /\ DOMAIN f \subseteq Pages
           /\ f \in [DOMAIN f -> Counts]
BY DEF Caches

\* Whatever maps some of the pages to contents is a cache.
LEMMA IsCache ==
    ASSUME NEW f, f \in [DOMAIN f -> Counts], DOMAIN f \subseteq Pages
    PROVE  f \in Caches
BY DEF Caches

\* A page read into a cache leaves the others as they are.
LEMMA WithPageIsCache ==
    ASSUME NEW f \in Caches, NEW p \in Pages, NEW v \in Counts
    PROVE  /\ WithPage(f, p, v) \in Caches
           /\ DOMAIN WithPage(f, p, v) = DOMAIN f \cup {p}
           /\ \A q \in DOMAIN f : q # p => WithPage(f, p, v)[q] = f[q]
           /\ WithPage(f, p, v)[p] = v
<1>1. DOMAIN WithPage(f, p, v) = DOMAIN f \cup {p}
  BY DEF WithPage
<1>2. WithPage(f, p, v) \in [DOMAIN f \cup {p} -> Counts]
  BY CacheOf DEF WithPage
<1>3. WithPage(f, p, v) \in Caches
  BY <1>1, <1>2, CacheOf, IsCache
<1> QED
  BY <1>1, <1>3, CacheOf DEF WithPage

\* A sound record put in the place of a connection's keeps all of them sound.
LEMMA NewPager ==
    ASSUME PagersSound, NEW c \in Conns, NEW r \in Pagers, Sound(r),
           pager' = [pager EXCEPT ![c] = r]
    PROVE  PagersSound'
BY DEF PagersSound

\* A step that changes pagers only needs to keep those sound.
LEMMA OnlyPager ==
    ASSUME DatabaseSound, PagersSound', given' = given,
           UNCHANGED <<storageVars, expected>>,
           disturbed' \in BOOLEAN, torn' \in BOOLEAN
    PROVE  DatabaseSound'
BY DEF DatabaseSound, StorageSound, HistorySound, storageVars

\* A write, failed or not, leaves the database's pages with contents.
LEMMA WriteSound ==
    ASSUME StorageSound, given' = given, NEW p \in Pages, NEW v \in Counts,
           Write(p, v) \/ WriteFails(p)
    PROVE  StorageSound'
<1>1. Garbled \in Counts
  BY DEF Counts
<1> QED
  BY <1>1 DEF StorageSound, Write, WriteFails

\* An element of a sequence is of its set.
LEMMA Element ==
    ASSUME NEW S, NEW s \in Seq(S), NEW i \in 1..Len(s)
    PROVE  s[i] \in S
OBVIOUS

\* What soundness says of the pages and the journal of one connection.
LEMMA ThePager ==
    ASSUME PagersSound, NEW c \in Conns
    PROVE  /\ pager[c] \in Pagers
           /\ Sound(pager[c])
           /\ Cached(c) \subseteq Pages
           /\ \A p \in Cached(c) : pager[c].cache[p] \in Counts
           /\ \A i \in 1..Len(pager[c].journal) :
                /\ pager[c].journal[i] \in [page : Pages, orig : Counts]
                /\ pager[c].journal[i].page \in Journaled(c)
<1>1. pager[c] \in Pagers /\ Sound(pager[c])
  BY DEF PagersSound
<1>2. pager[c].cache \in Caches
  BY <1>1 DEF Pagers
<1>3. pager[c].journal \in Seq([page : Pages, orig : Counts])
  BY <1>1 DEF Pagers
<1>4. /\ Cached(c) \subseteq Pages
      /\ \A p \in Cached(c) : pager[c].cache[p] \in Counts
  BY <1>2, CacheOf DEF Cached
<1>5. ASSUME NEW i \in 1..Len(pager[c].journal)
      PROVE  /\ pager[c].journal[i] \in [page : Pages, orig : Counts]
             /\ pager[c].journal[i].page \in Journaled(c)
  <2>1. pager[c].journal[i] \in [page : Pages, orig : Counts]
    BY <1>3, Element
  <2> QED
    BY <2>1 DEF Journaled
<1> QED
  BY <1>1, <1>4, <1>5

\* Page 1 is in the cache when the SHARED lock is there, kept or read again.
LEMMA SharedLockSound ==
    ASSUME DatabaseSound, NEW c \in Conns, SharedLock(c), given' = given
    PROVE  DatabaseSound'
<1> DEFINE kept == ValidCache(c)
           cache == IF Header \in DOMAIN kept THEN kept
                    ELSE WithPage(kept, Header, Read(Header))
           vers == IF Header \in DOMAIN kept THEN pager[c].vers
                   ELSE Read(Header)
           r == [pager[c] EXCEPT !.state = "reader", !.cache = cache,
                                 !.vers = vers]
<1> USE DEF DatabaseSound
<1>1. pager[c] \in Pagers /\ Sound(pager[c]) /\ pager[c].state = "open"
  BY DEF PagersSound, SharedLock, In
<1>2. pager' = [pager EXCEPT ![c] = r]
  BY DEF SharedLock, PagersSound
<1>3. Header \in Pages /\ Read(Header) \in Counts
  BY DEF StorageSound, Read, Pages
<1>4. kept \in Caches
  BY <1>1, IsCache DEF ValidCache, NoCache, Pagers
<1>5. cache \in Caches /\ Header \in DOMAIN cache /\ vers \in Counts
  <2> HIDE DEF kept
  <2>1. CASE Header \in DOMAIN kept
    BY <1>1, <1>4, <2>1 DEF Pagers
  <2>2. CASE Header \notin DOMAIN kept
    <3>1. cache = WithPage(kept, Header, Read(Header)) /\ vers = Read(Header)
      BY <2>2
    <3>2. /\ WithPage(kept, Header, Read(Header)) \in Caches
          /\ DOMAIN WithPage(kept, Header, Read(Header)) = DOMAIN kept \cup {Header}
      BY <1>3, <1>4, WithPageIsCache
    <3> QED
      BY <1>3, <3>1, <3>2
  <2> QED
    BY <2>1, <2>2
<1> HIDE DEF kept, cache, vers
<1>6. r \in Pagers
  BY <1>1, <1>5 DEF Pagers, Active
<1>7. Sound(r)
  BY <1>1, <1>5 DEF Sound, Pagers
<1> QED
  BY <1>2, <1>6, <1>7, NewPager, OnlyPager DEF SharedLock, Lock, HistorySound

\* Reading a page adds to the cache.
LEMMA GetPageSound ==
    ASSUME DatabaseSound, NEW c \in Conns, NEW p \in Pages, GetPage(c, p),
           given' = given
    PROVE  DatabaseSound'
<1> DEFINE cache == WithPage(pager[c].cache, p, Read(p))
           r == [pager[c] EXCEPT !.cache = cache]
<1> USE DEF DatabaseSound
<1>1. pager[c] \in Pagers /\ Sound(pager[c]) /\ pager[c].state \in Active
  BY DEF PagersSound, GetPage, In
<1>2. pager' = [pager EXCEPT ![c] = r]
  BY DEF GetPage, PagersSound
<1>3. Read(p) \in Counts /\ pager[c].cache \in Caches
  BY <1>1 DEF StorageSound, Read, Pagers
<1>4. cache \in Caches /\ DOMAIN cache = Cached(c) \cup {p}
  BY <1>3, WithPageIsCache DEF Cached
<1> HIDE DEF cache
<1>5. r \in Pagers
  BY <1>1, <1>4 DEF Pagers, Active
<1>6. Sound(r)
  BY <1>1, <1>4 DEF Sound, Pagers, Cached
<1> QED
  BY <1>2, <1>5, <1>6, NewPager, OnlyPager DEF GetPage, HistorySound

\* The end of a read and the begin of a write change the lock only.
LEMMA EndReadSound ==
    ASSUME DatabaseSound, NEW c \in Conns, EndRead(c) \/ Begin(c),
           given' = given
    PROVE  DatabaseSound'
<1> USE DEF DatabaseSound
<1>1. pager[c] \in Pagers /\ Sound(pager[c]) /\ pager[c].state = "reader"
  BY DEF PagersSound, EndRead, Begin, In
<1>2. PICK s \in {"open", "locked"} :
          pager' = [pager EXCEPT ![c] = [pager[c] EXCEPT !.state = s]]
  BY DEF EndRead, Begin, PagersSound
<1> DEFINE r == [pager[c] EXCEPT !.state = s]
<1>3. r \in Pagers /\ r.state = s
  BY <1>1 DEF Pagers, Active
<1>4. Sound(r)
  BY <1>1 DEF Sound, Pagers
<1> QED
  BY <1>2, <1>3, <1>4, NewPager, OnlyPager
  DEF EndRead, Begin, Lock, HistorySound

\* What WritePage does to the record of its connection.
LEMMA WritePageStep ==
    ASSUME PagersSound, NEW c \in Conns, NEW p, WritePage(c, p)
    PROVE  pager' = [pager EXCEPT ![c] = [pager[c] EXCEPT
             !.state = IF pager[c].state = "locked" THEN "cachemod"
                       ELSE pager[c].state,
             !.journal = Append(pager[c].journal, Record(c, p)),
             !.cache = [pager[c].cache EXCEPT ![p] = @ + 1],
             !.dirty = pager[c].dirty \cup {p}]]
<1> DEFINE state == IF pager[c].state = "locked" THEN "cachemod"
                    ELSE pager[c].state
           rec == Record(c, p)
           journal == Append(pager[c].journal, rec)
           cache == [pager[c].cache EXCEPT ![p] = @ + 1]
           dirty == pager[c].dirty \cup {p}
<1> HIDE DEF rec
<1>1. pager \in [Conns -> Pagers]
  BY DEF PagersSound
<1>2. pager' = [pager EXCEPT ![c].state = IF @ = "locked" THEN "cachemod"
                                          ELSE @,
                             ![c].journal = Append(@, rec),
                             ![c].cache[p] = @ + 1,
                             ![c].dirty = @ \cup {p}]
  BY DEF WritePage, rec
<1>3. pager' = [pager EXCEPT ![c].state = state, ![c].journal = journal,
                             ![c].cache = cache, ![c].dirty = dirty]
  BY <1>1, <1>2, SMTT(30)
<1> HIDE DEF state, journal, cache, dirty
<1>4. pager' = [pager EXCEPT ![c] = [pager[c] EXCEPT
        !.state = state, !.journal = journal, !.cache = cache,
        !.dirty = dirty]]
  BY <1>1, <1>3
<1> QED
  BY <1>4 DEF state, rec, journal, cache, dirty

\* The same of CommitStart.
LEMMA CommitStartStep ==
    ASSUME PagersSound, NEW c \in Conns, CommitStart(c)
    PROVE  pager' = [pager EXCEPT ![c] = [pager[c] EXCEPT
             !.state = "commit",
             !.journal = Append(pager[c].journal, Record(c, Header)),
             !.cache = [pager[c].cache EXCEPT ![Header] = pager[c].vers + 1],
             !.dirty = pager[c].dirty \cup {Header},
             !.synced = Len(pager[c].journal) + 1]]
<1> DEFINE rec == Record(c, Header)
           vers == pager[c].vers + 1
           journal == Append(pager[c].journal, rec)
           cache == [pager[c].cache EXCEPT ![Header] = vers]
           dirty == pager[c].dirty \cup {Header}
           synced == Len(pager[c].journal) + 1
<1> HIDE DEF rec, vers, synced
<1>1. pager \in [Conns -> Pagers]
  BY DEF PagersSound
<1>2. pager' = [pager EXCEPT ![c].state = "commit",
                             ![c].journal = Append(@, rec),
                             ![c].cache[Header] = vers,
                             ![c].dirty = @ \cup {Header},
                             ![c].synced = synced]
  BY DEF CommitStart, rec, vers, synced
<1>3. pager' = [pager EXCEPT ![c].state = "commit", ![c].journal = journal,
                             ![c].cache = cache, ![c].dirty = dirty,
                             ![c].synced = synced]
  BY <1>1, <1>2, SMTT(30)
<1> HIDE DEF journal, cache, dirty
<1>4. pager' = [pager EXCEPT ![c] = [pager[c] EXCEPT
        !.state = "commit", !.journal = journal, !.cache = cache,
        !.dirty = dirty, !.synced = synced]]
  BY <1>1, <1>3
<1> QED
  BY <1>4 DEF rec, vers, journal, cache, dirty, synced

\* A page is journaled before it is changed; a journal in a file cannot be
\* opened, so the connection has its journal in memory.
LEMMA WritePageSound ==
    ASSUME DatabaseSound, NEW c \in Conns, NEW p \in DataPages,
           WritePage(c, p), given' = given
    PROVE  DatabaseSound'
<1> DEFINE state == IF pager[c].state = "locked" THEN "cachemod"
                    ELSE pager[c].state
           journal == Append(pager[c].journal, Record(c, p))
           cache == [pager[c].cache EXCEPT ![p] = @ + 1]
           dirty == pager[c].dirty \cup {p}
           r == [pager[c] EXCEPT !.state = state, !.journal = journal,
                                 !.cache = cache, !.dirty = dirty]
<1> USE DEF DatabaseSound
<1>1. /\ pager[c] \in Pagers
      /\ Sound(pager[c])
      /\ pager[c].state \in {"locked", "cachemod", "dbmod"}
  BY DEF PagersSound, WritePage, In
<1>2. p \in Pages /\ p \in Cached(c) /\ pager[c].cache[p] \in Counts
  BY ThePager DEF WritePage, Pages
<1>3. pager' = [pager EXCEPT ![c] = r]
  BY WritePageStep
<1>4. pager[c].mode = "MEMORY" /\ files' = files
  <2>1. CASE pager[c].state = "locked"
    <3>1. "journal" \notin files
      BY DEF StorageSound
    <3>2. "O_CREAT" \notin AccessMode(JournalFlags)
      BY DEF AccessMode, JournalFlags
    <3> QED
      BY <1>1, <2>1, <3>1, <3>2 DEF WritePage, OpenJournal, Opens, In, Pagers
  <2>2. CASE pager[c].state \in {"cachemod", "dbmod"}
    BY <1>1, <2>2 DEF Sound, WritePage, OpenJournal, In
  <2> QED
    BY <1>1, <2>1, <2>2
<1>5. cache \in Caches /\ DOMAIN cache = Cached(c)
  <2>1. pager[c].cache[p] + 1 \in Counts
    <3>1. pager[c].cache[p] < MaxCommits
      BY DEF WritePage
    <3> QED
      BY <1>2, <3>1, BoundAssumption DEF Counts, Garbled
  <2>2. pager[c].cache \in [Cached(c) -> Counts] /\ Cached(c) \subseteq Pages
    BY <1>1, CacheOf DEF Pagers, Cached
  <2> QED
    BY <2>1, <2>2, IsCache
<1>6. /\ Record(c, p) \in [page : Pages, orig : Counts]
      /\ pager[c].journal \in Seq([page : Pages, orig : Counts])
  BY <1>1, <1>2 DEF Record, Pagers
<1>7. /\ journal \in Seq([page : Pages, orig : Counts])
      /\ Len(journal) = Len(pager[c].journal) + 1
      /\ Len(pager[c].journal) \in Nat
      /\ dirty \in SUBSET Pages
      /\ dirty \subseteq Cached(c)
  BY <1>1, <1>2, <1>6 DEF Pagers, Sound, Cached
<1>8. state \in {"cachemod", "dbmod"}
  BY <1>1
<1> HIDE DEF state, journal, cache, dirty
<1>9. r \in Pagers
  BY <1>1, <1>5, <1>7, <1>8 DEF Pagers, Active
<1>10. Sound(r)
  BY <1>1, <1>4, <1>5, <1>7, <1>8 DEF Sound, Pagers, Cached
<1>11. PagersSound'
  BY <1>3, <1>9, <1>10, NewPager
<1> QED
  BY <1>4, <1>11, OnlyPager DEF WritePage, HistorySound, storageVars

\* A pager just opened, and a closed one, are sound.
LEMMA OpenedSound ==
    ASSUME NEW mode \in {"MEMORY", "DELETE"}
    PROVE  /\ Opened(mode) \in Pagers /\ Sound(Opened(mode))
           /\ Closed \in Pagers /\ Sound(Closed)
<1>1. NoCache \in Caches /\ DOMAIN NoCache = {}
  BY IsCache DEF NoCache
<1>2. <<>> \in Seq([page : Pages, orig : Counts]) /\ Len(<<>>) = 0
  OBVIOUS
<1>3. 0 \in Counts
  BY BoundAssumption DEF Counts
<1>4. Opened(mode) \in Pagers /\ Opened("MEMORY") \in Pagers
  BY <1>1, <1>2, <1>3 DEF Opened, Pagers
<1>5. Closed \in Pagers
  BY <1>4 DEF Closed, Opened, Pagers
<1>6. Sound(Opened(mode))
  BY <1>1, <1>2 DEF Opened, Sound
<1>7. Sound(Closed)
  BY <1>1, <1>2 DEF Closed, Opened, Sound
<1> QED
  BY <1>4, <1>5, <1>6, <1>7

\* So is a pager at the end of a transaction.
LEMMA EndTransactionSound ==
    ASSUME PagersSound, NEW c \in Conns, NEW cache \in Caches,
           Header \in DOMAIN cache
    PROVE  /\ EndTransaction(c, cache) \in Pagers
           /\ Sound(EndTransaction(c, cache))
<1>1. pager[c] \in Pagers
  BY DEF PagersSound
<1>2. <<>> \in Seq([page : Pages, orig : Counts]) /\ Len(<<>>) = 0
  OBVIOUS
<1> DEFINE r == EndTransaction(c, cache)
<1>3. /\ r \in Pagers
      /\ r.state = "reader" /\ r.cache = cache /\ r.dirty = {}
      /\ r.journal = <<>> /\ r.synced = 0 /\ r.next = 1
  BY <1>1, <1>2 DEF EndTransaction, Pagers, Active
<1> HIDE DEF r
<1>4. Sound(r)
  BY <1>2, <1>3 DEF Sound
<1> QED
  BY <1>3, <1>4 DEF r

\* So is one that gave up its cache and still has its journal.
LEMMA InErrorSound ==
    ASSUME PagersSound, NEW c \in Conns
    PROVE  InError(c) \in Pagers /\ Sound(InError(c))
<1>1. pager[c] \in Pagers /\ Sound(pager[c])
  BY DEF PagersSound
<1>2. NoCache \in Caches /\ DOMAIN NoCache = {}
  BY IsCache DEF NoCache
<1> DEFINE r == InError(c)
<1>3. /\ r \in Pagers
      /\ r.state = "error" /\ r.cache = NoCache /\ r.dirty = {}
      /\ r.journal = pager[c].journal /\ r.synced = pager[c].synced
      /\ r.next = 1 /\ r.mode = pager[c].mode
  BY <1>1, <1>2 DEF InError, Pagers, Writing
<1>4. Len(pager[c].journal) \in Nat
  BY <1>1 DEF Pagers
<1> HIDE DEF r
<1>5. Sound(r)
  BY <1>1, <1>2, <1>3, <1>4 DEF Sound
<1> QED
  BY <1>3, <1>5 DEF r

\* A rollback that fails, once and twice.
LEMMA UndoFailsSound ==
    ASSUME DatabaseSound, NEW c \in Conns, UndoFails(c)
    PROVE  PagersSound' /\ torn' \in BOOLEAN
<1>1. pager[c].mode \in {"MEMORY", "DELETE"}
  BY DEF DatabaseSound, PagersSound, Pagers
<1>2. CASE In(c, {"undo"})
  BY <1>2, InErrorSound, NewPager
  DEF UndoFails, DatabaseSound, HistorySound
<1>3. CASE ~In(c, {"undo"})
  <2>1. pager' = [pager EXCEPT ![c] = Opened(pager[c].mode)] /\ torn' = TRUE
    BY <1>3 DEF UndoFails
  <2> QED
    BY <1>1, <2>1, OpenedSound, NewPager DEF DatabaseSound
<1> QED
  BY <1>2, <1>3

\* A page written before the end of its transaction, its record being synced.
LEMMA SpillSound ==
    ASSUME DatabaseSound, NEW c \in Conns, NEW p \in DataPages, Spill(c, p),
           given' = given
    PROVE  DatabaseSound'
<1> USE DEF DatabaseSound
<1> DEFINE unsynced == \E i \in 1..Len(pager[c].journal) :
               pager[c].journal[i].page = p /\ i > pager[c].synced
           synced == IF unsynced THEN Len(pager[c].journal) ELSE pager[c].synced
           r == [pager[c] EXCEPT !.state = "dbmod", !.synced = synced,
                                 !.dirty = pager[c].dirty \ {p}]
           e == [InError(c) EXCEPT !.synced = synced]
<1>1. /\ pager[c] \in Pagers /\ Sound(pager[c])
      /\ pager[c].state \in {"cachemod", "dbmod"}
      /\ p \in pager[c].dirty
  BY DEF PagersSound, Spill, In
<1>2. p \in Pages /\ p \in Cached(c) /\ pager[c].cache[p] \in Counts
  BY <1>1, ThePager DEF Sound, Cached, Pages
<1>3. /\ Len(pager[c].journal) \in Nat
      /\ synced \in Nat
      /\ synced <= Len(pager[c].journal)
  BY <1>1 DEF Sound, Pagers
<1>4. CASE Write(p, pager[c].cache[p]) /\ pager' = [pager EXCEPT ![c] = r]
  <2> HIDE DEF synced
  <2>1. r \in Pagers
    BY <1>1, <1>3 DEF Pagers, Writing
  <2>2. Sound(r)
    BY <1>1, <1>3 DEF Sound, Pagers
  <2>3. PagersSound'
    BY <1>4, <2>1, <2>2, NewPager
  <2> QED
    BY <1>2, <1>4, <2>3, WriteSound DEF Spill, Lock, HistorySound
<1>5. CASE WriteFails(p) /\ pager' = [pager EXCEPT ![c] = e]
  <2> HIDE DEF synced
  <2>1. InError(c) \in Pagers /\ Sound(InError(c))
    BY InErrorSound
  <2>2. InError(c).journal = pager[c].journal
    BY <1>1 DEF InError, Pagers
  <2>3. e \in Pagers
    BY <1>3, <2>1 DEF Pagers
  <2>4. Sound(e)
    BY <1>3, <2>1, <2>2 DEF Sound, Pagers
  <2>5. PagersSound'
    BY <1>5, <2>3, <2>4, NewPager
  <2> QED
    BY <1>2, <1>5, <2>5, WriteSound DEF Spill, Lock, HistorySound
<1>6. \/ Write(p, pager[c].cache[p]) /\ pager' = [pager EXCEPT ![c] = r]
      \/ WriteFails(p) /\ pager' = [pager EXCEPT ![c] = e]
  <2>1. \/ /\ Write(p, pager[c].cache[p])
           /\ pager' = [pager EXCEPT
                ![c].state = "dbmod",
                ![c].synced = IF unsynced THEN Len(pager[c].journal) ELSE @,
                ![c].dirty = @ \ {p}]
        \/ /\ WriteFails(p)
           /\ pager' = [pager EXCEPT ![c] =
                [InError(c) EXCEPT
                   !.synced = IF unsynced THEN Len(pager[c].journal) ELSE @]]
    BY DEF Spill
  <2>2. InError(c).synced = pager[c].synced
    BY <1>1 DEF InError, Pagers
  <2> HIDE DEF unsynced
  <2>3. [InError(c) EXCEPT
           !.synced = IF unsynced THEN Len(pager[c].journal) ELSE @] = e
    BY <2>2
  <2>4. [pager EXCEPT ![c].state = "dbmod",
           ![c].synced = IF unsynced THEN Len(pager[c].journal) ELSE @,
           ![c].dirty = @ \ {p}] = [pager EXCEPT ![c] = r]
    BY <1>1 DEF PagersSound
  <2> QED
    BY <2>1, <2>3, <2>4
<1> QED
  BY <1>4, <1>5, <1>6

\* The journal of a commit, page 1 included, is synced as a whole.
LEMMA CommitStartSound ==
    ASSUME DatabaseSound, NEW c \in Conns, CommitStart(c), given' = given
    PROVE  DatabaseSound'
<1> USE DEF DatabaseSound
<1> DEFINE journal == Append(pager[c].journal, Record(c, Header))
           cache == [pager[c].cache EXCEPT ![Header] = pager[c].vers + 1]
           dirty == pager[c].dirty \cup {Header}
           synced == Len(pager[c].journal) + 1
           r == [pager[c] EXCEPT !.state = "commit", !.journal = journal,
                                 !.cache = cache, !.dirty = dirty,
                                 !.synced = synced]
<1>1. /\ pager[c] \in Pagers /\ Sound(pager[c])
      /\ pager[c].state \in {"cachemod", "dbmod"}
  BY DEF PagersSound, CommitStart, In
<1>2. /\ Header \in Pages /\ Header \in Cached(c)
      /\ pager[c].cache[Header] \in Counts
  BY <1>1, ThePager DEF Sound, Cached, Pages
<1>3. pager' = [pager EXCEPT ![c] = r]
  BY CommitStartStep
<1>4. cache \in Caches /\ DOMAIN cache = Cached(c)
  <2>1. pager[c].vers + 1 \in Counts
    <3>1. pager[c].vers < MaxCommits /\ pager[c].vers \in Counts
      BY <1>1 DEF CommitStart, Pagers
    <3> QED
      BY <3>1, BoundAssumption DEF Counts, Garbled
  <2>2. pager[c].cache \in [Cached(c) -> Counts] /\ Cached(c) \subseteq Pages
    BY <1>1, CacheOf DEF Pagers, Cached
  <2> QED
    BY <2>1, <2>2, IsCache
<1>5. /\ Record(c, Header) \in [page : Pages, orig : Counts]
      /\ pager[c].journal \in Seq([page : Pages, orig : Counts])
  BY <1>1, <1>2 DEF Record, Pagers
<1>6. /\ journal \in Seq([page : Pages, orig : Counts])
      /\ Len(journal) = synced
      /\ synced \in Nat /\ Len(pager[c].journal) \in Nat
      /\ dirty \in SUBSET Pages
      /\ dirty \subseteq Cached(c)
  BY <1>1, <1>2, <1>5 DEF Pagers, Sound, Cached
<1>7. synced = Len(pager[c].journal) + 1
  OBVIOUS
<1> HIDE DEF journal, cache, dirty, synced
<1>8. r \in Pagers
  BY <1>1, <1>4, <1>6 DEF Pagers, Writing
<1>9. Sound(r)
  BY <1>1, <1>2, <1>4, <1>6, <1>7 DEF Sound, Pagers, Cached
<1>10. PagersSound'
  BY <1>3, <1>8, <1>9, NewPager
<1> QED
  BY <1>10, OnlyPager DEF CommitStart, Lock, HistorySound

\* Writing the dirty pages.
LEMMA WriteBackSound ==
    ASSUME DatabaseSound, NEW c \in Conns, WriteBack(c), given' = given
    PROVE  DatabaseSound'
<1> USE DEF DatabaseSound
<1>1. pager[c] \in Pagers /\ Sound(pager[c]) /\ pager[c].state = "commit"
  BY DEF PagersSound, WriteBack, In
<1>2. PICK p \in pager[c].dirty :
         LET vers == IF p = Header THEN pager[c].cache[p] ELSE pager[c].vers
         IN  \/ /\ Write(p, pager[c].cache[p])
                /\ pager' = [pager EXCEPT ![c].dirty = @ \ {p},
                                          ![c].vers = vers]
             \/ /\ WriteFails(p)
                /\ pager' = [pager EXCEPT ![c].state = "undo",
                                          ![c].next = 1,
                                          ![c].vers = vers]
  BY DEF WriteBack
<1>3. p \in Pages /\ p \in Cached(c) /\ pager[c].cache[p] \in Counts
  BY <1>1, ThePager DEF Sound, Cached
<1> DEFINE vers == IF p = Header THEN pager[c].cache[p] ELSE pager[c].vers
           r == [pager[c] EXCEPT !.dirty = @ \ {p}, !.vers = vers]
           u == [pager[c] EXCEPT !.state = "undo", !.next = 1, !.vers = vers]
<1>4. vers \in Counts
  BY <1>1, <1>3 DEF Pagers
<1>5. \/ Write(p, pager[c].cache[p]) /\ pager' = [pager EXCEPT ![c] = r]
      \/ WriteFails(p) /\ pager' = [pager EXCEPT ![c] = u]
  BY <1>1, <1>2 DEF PagersSound
<1> HIDE DEF vers
<1>6. r \in Pagers /\ u \in Pagers
  BY <1>1, <1>4 DEF Pagers, Writing
<1>7. Len(pager[c].journal) \in Nat
  BY <1>1 DEF Pagers
<1>8. Sound(r) /\ Sound(u)
  BY <1>1, <1>7 DEF Sound, Pagers
<1>9. PagersSound'
  BY <1>5, <1>6, <1>8, NewPager
<1> QED
  BY <1>3, <1>5, <1>9, WriteSound DEF WriteBack, HistorySound

\* The sync of the file, or its failure.
LEMMA SyncFileSound ==
    ASSUME DatabaseSound, NEW c \in Conns, SyncFile(c), given' = given
    PROVE  DatabaseSound'
<1> USE DEF DatabaseSound
<1>1. pager[c] \in Pagers /\ Sound(pager[c]) /\ pager[c].state = "commit"
  BY DEF PagersSound, SyncFile, In
<1> DEFINE f == [pager[c] EXCEPT !.state = "finished"]
           u == [pager[c] EXCEPT !.state = "undo", !.next = 1]
<1>2. pager' = [pager EXCEPT ![c] = f] \/ pager' = [pager EXCEPT ![c] = u]
  BY <1>1 DEF SyncFile, PagersSound
<1>3. f \in Pagers /\ u \in Pagers
  BY <1>1 DEF Pagers, Writing
<1>4. Len(pager[c].journal) \in Nat
  BY <1>1 DEF Pagers
<1>5. Sound(f) /\ Sound(u)
  BY <1>1, <1>4 DEF Sound, Pagers
<1>6. PagersSound'
  BY <1>2, <1>3, <1>5, NewPager
<1>7. StorageSound'
  BY DEF SyncFile, Sync, StorageSound, storageVars
<1>8. HistorySound'
  BY DEF SyncFile, HistorySound
<1> QED
  BY <1>6, <1>7, <1>8

\* The end of a commit.
LEMMA FinishSound ==
    ASSUME DatabaseSound, NEW c \in Conns, Finish(c), given' = given
    PROVE  DatabaseSound'
<1> USE DEF DatabaseSound
<1>1. pager[c] \in Pagers /\ Sound(pager[c]) /\ pager[c].state = "finished"
  BY DEF PagersSound, Finish, In
<1>2. pager[c].cache \in Caches /\ Header \in DOMAIN pager[c].cache
  BY <1>1 DEF Pagers, Sound
<1>3. PagersSound'
  BY <1>2, EndTransactionSound, NewPager DEF Finish
<1> QED
  BY <1>3, OnlyPager DEF Finish, HistorySound

\* The cache is restored from the journal, or the file is going to be.
LEMMA RollbackSound ==
    ASSUME DatabaseSound, NEW c \in Conns, Rollback(c), given' = given
    PROVE  DatabaseSound'
<1> USE DEF DatabaseSound
<1>1. pager[c] \in Pagers /\ Sound(pager[c])
  BY DEF PagersSound
<1>2. CASE In(c, {"locked", "cachemod"})
  <2> DEFINE cache == [p \in Cached(c) |-> IF p \in Journaled(c)
                         THEN Original(c, p) ELSE pager[c].cache[p]]
  <2>1. ASSUME NEW p \in Cached(c)
        PROVE  cache[p] \in Counts
    <3>1. CASE p \in Journaled(c)
      <4>1. \E i \in 1..Len(pager[c].journal) : pager[c].journal[i].page = p
        BY <3>1 DEF Journaled
      <4>2. PICK i \in 1..Len(pager[c].journal) :
                Original(c, p) = pager[c].journal[i].orig
        BY <4>1 DEF Original
      <4>3. pager[c].journal[i] \in [page : Pages, orig : Counts]
        BY ThePager
      <4> QED
        BY <3>1, <4>2, <4>3
    <3>2. CASE p \notin Journaled(c)
      BY <3>2, ThePager
    <3> QED
      BY <3>1, <3>2
  <2>2. DOMAIN cache = Cached(c) /\ Cached(c) \subseteq Pages
    BY ThePager
  <2>3. cache \in Caches /\ Header \in DOMAIN cache
    <3>1. cache \in [Cached(c) -> Counts]
      BY <2>1
    <3>2. Header \in Cached(c)
      BY <1>1, <1>2 DEF Sound, In, Cached
    <3> QED
      BY <2>2, <3>1, <3>2, IsCache
  <2>4. pager' = [pager EXCEPT ![c] = EndTransaction(c, cache)]
    BY <1>2 DEF Rollback, In
  <2> HIDE DEF cache
  <2> QED
    BY <2>3, <2>4, EndTransactionSound, NewPager, OnlyPager
    DEF Rollback, HistorySound
<1>3. CASE In(c, {"dbmod"})
  <2> DEFINE u == [pager[c] EXCEPT !.state = "undo", !.next = 1]
  <2>1. pager[c].state = "dbmod" /\ pager' = [pager EXCEPT ![c] = u]
    BY <1>3 DEF Rollback, In, PagersSound
  <2>2. u \in Pagers /\ Len(pager[c].journal) \in Nat
    <3>1. pager[c] \in Pagers /\ "undo" \in Writing
      BY <1>1 DEF Writing
    <3>2. u \in Pagers
      BY <3>1 DEF Pagers
    <3>3. Len(pager[c].journal) \in Nat
      BY <3>1 DEF Pagers
    <3> QED
      BY <3>2, <3>3
  <2>3. Sound(u)
    BY <1>1, <2>1, <2>2 DEF Sound, Pagers
  <2> QED
    BY <2>1, <2>2, <2>3, NewPager, OnlyPager DEF Rollback, HistorySound
<1> QED
  BY <1>2, <1>3 DEF Rollback

\* A record of the journal goes back to the cache and to the file.
LEMMA UndoPageSound ==
    ASSUME DatabaseSound, NEW c \in Conns, UndoPage(c), given' = given
    PROVE  DatabaseSound'
<1> USE DEF DatabaseSound
<1> DEFINE i == pager[c].next
           rec == pager[c].journal[i]
           cache == IF rec.page \in DOMAIN pager[c].cache
                    THEN [pager[c].cache EXCEPT ![rec.page] = rec.orig]
                    ELSE pager[c].cache
           vers == IF rec.page = Header /\ Header \in Cached(c)
                   THEN rec.orig ELSE pager[c].vers
           r == [pager[c] EXCEPT !.next = i + 1, !.cache = cache,
                                 !.vers = vers]
<1>1. /\ pager[c] \in Pagers /\ Sound(pager[c])
      /\ pager[c].state \in {"undo", "error"}
      /\ i + 1 \in Nat /\ Len(pager[c].journal) \in Nat
      /\ i \in 1..Len(pager[c].journal)
  <2>1. /\ pager[c] \in Pagers /\ Sound(pager[c])
        /\ pager[c].state \in {"undo", "error"}
        /\ i <= Len(pager[c].journal)
    BY DEF PagersSound, UndoPage, In
  <2>2. i \in Nat /\ Len(pager[c].journal) \in Nat
    BY <2>1 DEF Pagers
  <2>3. i \in 1..(Len(pager[c].journal) + 1)
    BY <2>1 DEF Sound
  <2> QED
    BY <2>1, <2>2, <2>3
<1>2. rec \in [page : Pages, orig : Counts]
  BY <1>1, ThePager
<1>3. rec.page \in Pages /\ rec.orig \in Counts
  BY <1>2
<1>4. \/ /\ Write(rec.page, rec.orig) \/ UNCHANGED storageVars
         /\ pager' = [pager EXCEPT ![c] = r]
         /\ torn' = torn
      \/ WriteFails(rec.page) /\ UndoFails(c)
  BY <1>1 DEF UndoPage, PagersSound
<1>5. CASE /\ Write(rec.page, rec.orig) \/ UNCHANGED storageVars
           /\ pager' = [pager EXCEPT ![c] = r]
           /\ torn' = torn
  <2>1. cache \in Caches /\ DOMAIN cache = Cached(c)
    <3>1. pager[c].cache \in [Cached(c) -> Counts] /\ Cached(c) \subseteq Pages
      BY <1>1, CacheOf DEF Pagers, Cached
    <3> HIDE DEF rec
    <3>2. CASE rec.page \in DOMAIN pager[c].cache
      <4>1. cache = [pager[c].cache EXCEPT ![rec.page] = rec.orig]
        BY <3>2
      <4>2. cache \in [Cached(c) -> Counts]
        BY <1>3, <3>1, <4>1
      <4> QED
        BY <3>1, <4>2, IsCache
    <3>3. CASE rec.page \notin DOMAIN pager[c].cache
      BY <1>1, <3>3 DEF Pagers, Cached
    <3> QED
      BY <3>2, <3>3
  <2>2. vers \in Counts
    BY <1>1, <1>3 DEF Pagers
  <2> HIDE DEF cache, vers, rec
  <2> DEFINE n == i + 1
  <2>7. n \in Nat /\ n \in 1..(Len(pager[c].journal) + 1)
    BY <1>1
  <2> HIDE DEF n
  <2>8. r = [pager[c] EXCEPT !.next = n, !.cache = cache, !.vers = vers]
    BY DEF n
  <2> HIDE DEF r
  <2>3. r \in Pagers
    BY <1>1, <2>1, <2>2, <2>7, <2>8 DEF Pagers
  <2>4. Sound(r)
    <3>1. /\ r.next = n /\ r.cache = cache /\ r.dirty = pager[c].dirty
          /\ r.journal = pager[c].journal /\ r.synced = pager[c].synced
          /\ r.mode = pager[c].mode /\ r.state = pager[c].state
      BY <1>1, <2>8 DEF Pagers
    <3> QED
      BY <1>1, <2>1, <2>7, <3>1 DEF Sound, Cached
  <2>5. PagersSound'
    BY <1>5, <2>3, <2>4, NewPager
  <2>6. StorageSound'
    BY <1>3, <1>5, WriteSound DEF StorageSound, storageVars
  <2> QED
    BY <1>5, <2>5, <2>6 DEF UndoPage, HistorySound
<1>6. CASE WriteFails(rec.page) /\ UndoFails(c)
  <2>1. StorageSound'
    BY <1>3, <1>6, WriteSound
  <2> QED
    BY <1>6, <2>1, UndoFailsSound DEF UndoPage, HistorySound
<1> QED
  BY <1>4, <1>5, <1>6

\* The end of a rollback.
LEMMA UndoDoneSound ==
    ASSUME DatabaseSound, NEW c \in Conns, UndoDone(c), given' = given
    PROVE  DatabaseSound'
<1> USE DEF DatabaseSound
<1>1. /\ pager[c] \in Pagers /\ Sound(pager[c])
      /\ pager[c].state \in {"undo", "error"}
  BY DEF PagersSound, UndoDone, In
<1>2. CASE Sync /\ torn' = torn
           /\ pager' = [pager EXCEPT ![c] =
                IF pager[c].state = "undo" THEN EndTransaction(c, pager[c].cache)
                ELSE Opened(pager[c].mode)]
  <2>1. PagersSound'
    <3>1. CASE pager[c].state = "undo"
      <4>1. pager[c].cache \in Caches /\ Header \in DOMAIN pager[c].cache
        BY <1>1, <3>1 DEF Pagers, Sound
      <4> QED
        BY <1>2, <3>1, <4>1, EndTransactionSound, NewPager
    <3>2. CASE pager[c].state = "error"
      <4>1. pager[c].mode \in {"MEMORY", "DELETE"}
        BY <1>1 DEF Pagers
      <4> QED
        BY <1>2, <3>2, <4>1, OpenedSound, NewPager
    <3> QED
      BY <1>1, <3>1, <3>2
  <2>2. StorageSound'
    BY <1>2 DEF Sync, StorageSound
  <2> QED
    BY <1>2, <2>1, <2>2 DEF UndoDone, HistorySound
<1>3. CASE UndoFails(c) /\ UNCHANGED storageVars
  <2>1. StorageSound'
    BY <1>3 DEF StorageSound, storageVars
  <2> QED
    BY <1>3, <2>1, UndoFailsSound DEF UndoDone, HistorySound
<1> QED
  BY <1>2, <1>3 DEF UndoDone

\* Every step of a connection keeps the database sound.
LEMMA DatabaseNextSound ==
    ASSUME DatabaseSound, DatabaseNext, given' = given
    PROVE  DatabaseSound'
BY SharedLockSound, GetPageSound, EndReadSound, WritePageSound, SpillSound,
   CommitStartSound, WriteBackSound, SyncFileSound, FinishSound, RollbackSound,
   UndoPageSound, UndoDoneSound
DEF DatabaseNext

-----------------------------------------------------------------------------
(* The library's core *)

\* An initialized library has an initialized SQLite, and a driver found first was
\* registered since.
RegistrationSound ==
    /\ initialized \in BOOLEAN
    /\ lib \in BOOLEAN
    /\ dflt \in {"none", "builtin", "driver"}
    /\ via \in [Conns -> {"none", "builtin", "driver"}]
    /\ current \in BOOLEAN
    /\ initialized => lib
    /\ lib => dflt # "none"
    /\ lib /\ dflt = "driver" => current
    /\ DriverRegisteredThisTime

\* What a mount changes.
MountsSound ==
    /\ target \in Targets
    /\ mounted \in BOOLEAN
    /\ bus \in BOOLEAN
    /\ example \in {"begun", "mounted", "refused"}

\* The inductive invariant.
Inv ==
    /\ DatabaseSound
    /\ RegistrationSound
    /\ MountsSound

\* A board that starts for the first time.
LEMMA InitInv == Init => Inv
<1> SUFFICES ASSUME Init PROVE Inv
  OBVIOUS
<1>1. 0 \in Counts
  BY BoundAssumption DEF Counts
<1>2. PagersSound
  BY OpenedSound DEF Init, DatabaseInit, PagersSound
<1>3. StorageSound
  BY <1>1 DEF Init, StorageSound
<1>4. HistorySound
  BY DEF Init, DatabaseInit, HistorySound
<1>5. RegistrationSound
  BY DEF Init, RegistrationSound, DriverRegisteredThisTime
<1>6. MountsSound
  BY DEF Init, MountsSound
<1> QED
  BY <1>2, <1>3, <1>4, <1>5, <1>6 DEF Inv, DatabaseSound

\* SQLite's initialization puts its own driver first, so that ours is first
\* only if it was registered since.
LEMMA LibInitSound ==
    ASSUME RegistrationSound, initialized' \in BOOLEAN,
           (initialized /\ UNCHANGED <<lib, dflt>>) \/ LibInit,
           current' = current
    PROVE  /\ lib' = TRUE
           /\ dflt' \in {"builtin", "driver"}
           /\ dflt' = "driver" => current
           /\ via' = via => RegistrationSound'
<1>1. /\ lib' = TRUE
      /\ (dflt' = dflt /\ lib) \/ dflt' = "builtin"
  BY DEF RegistrationSound, LibInit, AfterInit
<1>2. dflt' = "driver" => current
  BY <1>1 DEF RegistrationSound
<1> QED
  BY <1>1, <1>2 DEF RegistrationSound, DriverRegisteredThisTime

\* An open goes through the driver that is first.
LEMMA OpenRegistered ==
    ASSUME RegistrationSound, initialized' \in BOOLEAN,
           (initialized /\ UNCHANGED <<lib, dflt>>) \/ LibInit,
           current' = current,
           NEW c \in Conns,
           via' = [via EXCEPT ![c] = dflt'] \/ via' = via
    PROVE  RegistrationSound'
<1>1. /\ lib' = TRUE
      /\ dflt' \in {"builtin", "driver"}
      /\ dflt' = "driver" => current
      /\ via' = via => RegistrationSound'
  BY LibInitSound
<1>2. CASE via' = [via EXCEPT ![c] = dflt']
  <2>1. dflt' \in {"none", "builtin", "driver"}
    BY <1>1 DEF RegistrationSound
  <2>2. via' \in [Conns -> {"none", "builtin", "driver"}]
    BY <1>2, <2>1 DEF RegistrationSound
  <2>3. ASSUME NEW d \in Conns, via'[d] = "driver" PROVE current
    BY <1>1, <1>2, <2>3 DEF RegistrationSound, DriverRegisteredThisTime
  <2> QED
    BY <1>1, <2>1, <2>2, <2>3 DEF RegistrationSound, DriverRegisteredThisTime
<1> QED
  BY <1>1, <1>2

\* A mount, successful or not, of whichever storage.
LEMMA MountSound ==
    ASSUME MountsSound, NEW ok \in BOOLEAN, target' = target,
           \/ MountCardOf(target.platform, ok)
           \/ MountFlashOf(target.platform, ok),
           example' \in {"begun", "mounted", "refused"}
    PROVE  MountsSound'
BY DEF MountsSound, MountCardOf, MountFlashOf, MountCard, MountFlash, PicoFlash,
       PicoCard

\* The mount that an open with a vfs_config includes.
LEMMA StorageInitSound ==
    ASSUME MountsSound, NEW config \in BOOLEAN, NEW ok \in BOOLEAN,
           target' = target, StorageInit(config, ok),
           example' \in {example, "refused"}
    PROVE  MountsSound'
<1>1. example' \in {"begun", "mounted", "refused"}
  BY DEF MountsSound
<1>2. CASE config /\ target.storage # "sdcard"
  BY <1>1, <1>2, MountSound DEF StorageInit
<1>3. CASE ~(config /\ target.storage # "sdcard")
  BY <1>1, <1>3 DEF StorageInit, MountsSound
<1> QED
  BY <1>2, <1>3

\* An open through the driver finds the database there, SQLite's own may make it.
LEMMA OpenSound ==
    ASSUME DatabaseSound, NEW c \in Conns, NEW driver, NEW there,
           NEW mode \in {"MEMORY", "DELETE"},
           OpenSucceeds(c, driver, there, mode) \/ OpenFails(driver, there),
           UNCHANGED <<content, flash, expected, disturbed, torn>>
    PROVE  DatabaseSound'
<1> USE DEF DatabaseSound
<1>1. HistorySound'
  BY DEF HistorySound
<1>2. PagersSound'
  <2>1. pager' = [pager EXCEPT ![c] = Opened(mode)] \/ pager' = pager
    BY DEF OpenSucceeds, OpenFails
  <2>2. Opened(mode) \in Pagers /\ Sound(Opened(mode))
    BY OpenedSound
  <2> QED
    BY <2>1, <2>2, NewPager DEF PagersSound
<1>3. files' \subseteq given' /\ given' \subseteq {"database"}
  <2>1. CASE OpenSucceeds(c, driver, there, mode) /\ driver = "driver"
    <3>1. "O_CREAT" \notin AccessMode(MainDbFlags)
      BY DEF AccessMode, MainDbFlags
    <3>2. "database" \in files
      BY <2>1, <3>1 DEF OpenSucceeds, Opens
    <3> QED
      BY <2>1, <3>2 DEF OpenSucceeds, FileOpened, StorageSound
  <2>2. CASE OpenSucceeds(c, driver, there, mode) /\ driver # "driver"
    BY <2>2 DEF OpenSucceeds, FileOpened, StorageSound
  <2>3. CASE OpenFails(driver, there)
    BY <2>3 DEF OpenFails, StorageSound
  <2> QED
    BY <2>1, <2>2, <2>3
<1>4. StorageSound'
  BY <1>3 DEF StorageSound
<1> QED
  BY <1>1, <1>2, <1>4

\* sqlite_micro_open, whichever of its steps fails.
LEMMA MicroOpenInv ==
    ASSUME Inv, NEW c \in Conns, NEW config \in BOOLEAN, MicroOpen(c, config)
    PROVE  Inv'
<1> USE DEF Inv
<1>1. /\ target' = target /\ current' = current /\ initialized' = TRUE
      /\ (initialized /\ UNCHANGED <<lib, dflt>>) \/ LibInit
      /\ UNCHANGED <<content, flash, expected, disturbed, torn>>
  BY DEF MicroOpen
<1>2. example' \in {example, "refused"}
  BY DEF MicroOpen
<1>3. CASE StorageInit(config, FALSE) /\ UNCHANGED <<files, given, pager, via>>
  <2>1. MountsSound'
    BY <1>1, <1>2, <1>3, StorageInitSound
  <2>2. DatabaseSound'
    BY <1>1, <1>3
    DEF DatabaseSound, PagersSound, StorageSound, HistorySound
  <2> QED
    BY <1>1, <1>3, <2>1, <2>2, OpenRegistered
<1>4. ASSUME StorageInit(config, TRUE),
             \/ OpenFails(dflt', mounted')
             \/ \E mode \in ModeSet : OpenSucceeds(c, dflt', mounted', mode)
      PROVE  Inv'
  <2>1. MountsSound'
    BY <1>1, <1>2, <1>4, StorageInitSound
  <2>2. ModeSet \subseteq {"MEMORY", "DELETE"}
    BY DEF ModeSet
  <2>3. DatabaseSound'
    BY <1>1, <1>4, <2>2, OpenSound
  <2>4. via' = via \/ via' = [via EXCEPT ![c] = dflt']
    BY <1>4 DEF OpenFails, OpenSucceeds
  <2> QED
    BY <1>1, <2>1, <2>3, <2>4, OpenRegistered
<1> QED
  BY <1>3, <1>4 DEF MicroOpen

\* sqlite3_open.
LEMMA PlainOpenInv ==
    ASSUME Inv, NEW c \in Conns, PlainOpen(c)
    PROVE  Inv'
<1> USE DEF Inv
<1>1. /\ UNCHANGED <<target, mounted, bus, example>> /\ current' = current
      /\ initialized' = initialized
      /\ LibInit
      /\ UNCHANGED <<content, flash, expected, disturbed, torn>>
  BY DEF PlainOpen
<1>2. OpenFails(dflt', mounted) \/ OpenSucceeds(c, dflt', mounted, "DELETE")
  BY DEF PlainOpen
<1>3. MountsSound'
  BY <1>1 DEF MountsSound
<1>4. DatabaseSound'
  BY <1>1, <1>2, OpenSound
<1>5. via' = via \/ via' = [via EXCEPT ![c] = dflt']
  BY <1>2 DEF OpenFails, OpenSucceeds
<1>6. initialized' \in BOOLEAN
  BY <1>1 DEF RegistrationSound
<1> QED
  BY <1>1, <1>3, <1>4, <1>5, <1>6, OpenRegistered

\* sqlite3_close.
LEMMA CloseInv ==
    ASSUME Inv, NEW c \in Conns, Close(c)
    PROVE  Inv'
<1> USE DEF Inv
<1>1. PagersSound'
  BY OpenedSound, NewPager DEF Close, DatabaseSound
<1>2. DatabaseSound'
  BY <1>1, OnlyPager DEF Close, DatabaseSound, HistorySound
<1>3. RegistrationSound'
  BY DEF Close, RegistrationSound, DriverRegisteredThisTime
<1>4. MountsSound'
  BY DEF Close, MountsSound, storageVars
<1> QED
  BY <1>2, <1>3, <1>4

\* After a power loss the pagers are closed and the storage is not mounted.
LEMMA PowerLossInv ==
    ASSUME Inv, PowerLoss
    PROVE  Inv'
<1> USE DEF Inv
<1>1. PagersSound'
  BY OpenedSound DEF PowerLoss, PagersSound
<1>2. content' \in [Pages -> Counts] /\ flash' = content'
  BY DEF PowerLoss, LosePower, DatabaseSound, StorageSound
<1>3. StorageSound'
  BY <1>2 DEF PowerLoss, LosePower, DatabaseSound, StorageSound
<1>4. HistorySound'
  BY DEF PowerLoss, DatabaseSound, HistorySound
<1>5. RegistrationSound'
  BY DEF PowerLoss, RegistrationSound, DriverRegisteredThisTime
<1>6. MountsSound'
  BY DEF PowerLoss, LosePower, MountsSound
<1> QED
  BY <1>1, <1>3, <1>4, <1>5, <1>6 DEF DatabaseSound

\* No step of a connection mounts anything.
LEMMA SameBoard ==
    ASSUME DatabaseNext
    PROVE  target' = target /\ mounted' = mounted /\ bus' = bus
<1>1. PICK c \in Conns :
        \/ SharedLock(c) \/ EndRead(c) \/ Begin(c) \/ CommitStart(c)
        \/ WriteBack(c) \/ SyncFile(c) \/ Finish(c) \/ Rollback(c)
        \/ UndoPage(c) \/ UndoDone(c)
        \/ \E p \in Pages : GetPage(c, p)
        \/ \E p \in DataPages : WritePage(c, p) \/ Spill(c, p)
  BY DEF DatabaseNext
<1> USE DEF storageVars, Write, WriteFails, Sync
<1>2. CASE SharedLock(c) \/ EndRead(c) \/ Begin(c) \/ CommitStart(c)
           \/ Finish(c) \/ Rollback(c)
  BY <1>2 DEF SharedLock, EndRead, Begin, CommitStart, Finish, Rollback
<1>3. CASE WriteBack(c)
  BY <1>3 DEF WriteBack
<1>4. CASE SyncFile(c)
  BY <1>4 DEF SyncFile
<1>5. CASE UndoPage(c)
  BY <1>5 DEF UndoPage
<1>6. CASE UndoDone(c)
  BY <1>6 DEF UndoDone
<1>7. CASE \E p \in Pages : GetPage(c, p)
  BY <1>7 DEF GetPage
<1>8. CASE \E p \in DataPages : WritePage(c, p) \/ Spill(c, p)
  BY <1>8 DEF WritePage, Spill
<1> QED
  BY <1>1, <1>2, <1>3, <1>4, <1>5, <1>6, <1>7, <1>8

\* Every step of the library keeps the invariant.
LEMMA NextInv == Inv /\ [Next]_vars => Inv'
<1> SUFFICES ASSUME Inv, [Next]_vars PROVE Inv'
  OBVIOUS
<1> USE DEF Inv
<1>1. ASSUME UNCHANGED <<storageVars, dbVars, given>>
      PROVE  DatabaseSound'
  BY <1>1 DEF storageVars, dbVars, DatabaseSound, PagersSound, StorageSound,
              HistorySound
<1>2. ASSUME UNCHANGED <<initialized, lib, dflt, via, current>>
      PROVE  RegistrationSound'
  BY <1>2 DEF RegistrationSound, DriverRegisteredThisTime
<1>3. ASSUME UNCHANGED <<target, mounted, bus, example>>
      PROVE  MountsSound'
  BY <1>3 DEF MountsSound
<1>5. ASSUME DatabaseNext /\ UNCHANGED lifeVars
      PROVE  Inv'
  <2>1. target' = target /\ mounted' = mounted /\ bus' = bus
    BY <1>5, SameBoard
  <2> QED
    BY <1>2, <1>3, <1>5, <2>1, DatabaseNextSound DEF lifeVars
<1>6. ASSUME MicroInit
      PROVE  Inv'
  <2>1. RegistrationSound'
    BY <1>6, LibInitSound DEF MicroInit
  <2> QED
    BY <1>1, <1>3, <1>6, <2>1 DEF MicroInit, storageVars
<1>7. ASSUME RegisterVfs
      PROVE  Inv'
  <2>1. RegistrationSound'
    BY <1>7 DEF RegisterVfs, RegistrationSound, DriverRegisteredThisTime
  <2> QED
    BY <1>1, <1>3, <1>7, <2>1 DEF RegisterVfs, storageVars
<1>8. ASSUME Mount
      PROVE  Inv'
  <2>1. MountsSound'
    <3>1. PICK ok \in BOOLEAN :
            /\ IF target.storage = "sdcard" THEN MountCardOf(target.platform, ok)
               ELSE MountFlashOf(target.platform, ok)
            /\ example' = IF ok /\ example = "begun" THEN "mounted" ELSE example
      BY <1>8 DEF Mount
    <3>2. example' \in {"begun", "mounted", "refused"}
      BY <3>1 DEF MountsSound
    <3> QED
      BY <1>8, <3>1, <3>2, MountSound DEF Mount
  <2>2. DatabaseSound'
    BY <1>8 DEF Mount, dbVars, DatabaseSound, PagersSound, StorageSound,
                HistorySound
  <2> QED
    BY <1>2, <1>8, <2>1, <2>2 DEF Mount
<1>9. ASSUME Shutdown
      PROVE  Inv'
  <2>1. RegistrationSound'
    BY <1>9 DEF Shutdown, RegistrationSound, DriverRegisteredThisTime
  <2> QED
    BY <1>1, <1>3, <1>9, <2>1 DEF Shutdown, storageVars
<1>10. CASE UNCHANGED vars
  BY <1>1, <1>2, <1>3, <1>10 DEF vars, lifeVars, storageVars
<1> QED
  BY <1>5, <1>6, <1>7, <1>8, <1>9, <1>10, MicroOpenInv, PlainOpenInv, CloseInv,
     PowerLossInv
  DEF Next

\* The invariant holds throughout.
LEMMA Invariance == Spec => []Inv
BY InitInv, NextInv, PTL DEF Spec

\* Every variable keeps its type, the records of all pagers included, for any
\* boards, pages and number of connections.
THEOREM TypeCorrect == Spec => []TypeOK
<1>1. Inv => TypeOK
  <2> SUFFICES ASSUME Inv PROVE TypeOK
    OBVIOUS
  <2>1. PagerTypeOK
    BY DEF Inv, DatabaseSound, PagersSound, HistorySound, PagerTypeOK, Sound
  <2> QED
    BY <2>1 DEF Inv, DatabaseSound, StorageSound, RegistrationSound,
                MountsSound, TypeOK
<1> QED
  BY <1>1, Invariance, PTL

\* The driver never makes a file, so only a connection whose journal is in
\* memory has ever changed a page, for any number of connections.
THEOREM NothingIsCreated == Spec => []DriverCreatesNothing
<1>1. Inv => DriverCreatesNothing
  BY DEF Inv, DatabaseSound, PagersSound, StorageSound, Sound,
         DriverCreatesNothing
<1> QED
  BY <1>1, Invariance, PTL

\* No connection goes through a driver registered before the last shutdown.
THEOREM DriverIsRegistered == Spec => []DriverRegisteredThisTime
<1>1. Inv => DriverRegisteredThisTime
  BY DEF Inv, RegistrationSound
<1> QED
  BY <1>1, Invariance, PTL
=============================================================================
