--------------------------- MODULE DatabaseProofs ---------------------------
(***************************************************************************)
(* What the connections do to the data, for any pages and any number of    *)
(* connections: the file holds what was committed, and readers see it, as  *)
(* long as the connections take turns the way locks would have made them.  *)
(***************************************************************************)
EXTENDS SqliteMicroProofs

\* Locks that nothing enforces were respected all the same, no commit torn.
Calm == ~disturbed /\ ~torn

\* The states of a pager without a lock, with a RESERVED and an EXCLUSIVE one.
Unlocked == {"closed", "open"}
Reserved == {"locked", "cachemod"}
Exclusive == Writing \cup {"finished"}

\* Two connections may be in these states at once.
Compatible(s, t) ==
    /\ s \in Exclusive => t \in Unlocked
    /\ t \in Exclusive => s \in Unlocked
    /\ s \in Reserved => t \notin Reserved

LocksExclude ==
    \A c, d \in Conns : c # d => Compatible(pager[c].state, pager[d].state)

\* CommittedIntact, in the form used below.
FileIntact ==
    (\A c \in Conns : pager[c].state \notin Writing) =>
        content = expected /\ flash = expected

\* The records of a journal: one from a to b is of page p.
RecordIn(r, a, b, p) == \E i \in a..b : r.journal[i].page = p
Recorded(r, p) == RecordIn(r, 1, Len(r.journal), p)
\* A cache as committed.
Fresh(r, e) == \A p \in DOMAIN r.cache : r.cache[p] = e[p]

\* A cache kept without a lock counts for something only while its version is the
\* current one; versions never come back.
OpenOK(r, e) ==
    r.state = "open" =>
        /\ r.vers <= e[Header]
        /\ r.vers = e[Header] => Fresh(r, e)

\* With a SHARED lock it is up to date.
ReaderOK(r, e) ==
    r.state \in {"reader", "locked", "finished"} =>
        /\ r.vers = e[Header]
        /\ Fresh(r, e)

\* The journal has the committed contents.
OriginalsKept(r, e) ==
    \A i \in 1..Len(r.journal) : r.journal[i].orig = e[r.journal[i].page]

\* A page the transaction has changed and written to the file.
Written(r, p) == Recorded(r, p) /\ p \notin r.dirty

\* A write transaction: exactly the pages in the journal are updated, and what is
\* written to the file has a synced record.
ChangesOK(r, f, e) ==
    /\ OriginalsKept(r, e)
    /\ \A p \in DOMAIN r.cache :
         r.cache[p] = IF Recorded(r, p) THEN e[p] + 1 ELSE e[p]
    /\ \A p \in Pages : Recorded(r, p) => p \in DOMAIN r.cache
    /\ \A p \in r.dirty : Recorded(r, p)
    /\ \A p \in Pages :
         IF Written(r, p)
         THEN f[p] = r.cache[p] /\ RecordIn(r, 1, r.synced, p)
         ELSE f[p] = e[p]

\* The version and page 1 change in the commit only.
WriterOK(r, f, e) ==
    /\ r.state \in {"cachemod", "dbmod", "commit"} => ChangesOK(r, f, e)
    /\ r.state \in {"cachemod", "dbmod"} =>
           ~Recorded(r, Header) /\ r.vers = e[Header]
    /\ r.state = "commit" =>
           /\ Recorded(r, Header)
           /\ r.synced = Len(r.journal)
           /\ Header \in r.dirty \/ r.vers = e[Header] + 1

\* A rollback: every page not as committed has a synced record still to come.
UndoOK(r, f, e) ==
    r.state \in {"undo", "error"} =>
        /\ OriginalsKept(r, e)
        /\ \A p \in Pages : f[p] = e[p] \/ RecordIn(r, r.next, r.synced, p)

\* The same of the cache, and of the version.
UndoCacheOK(r, e) ==
    r.state = "undo" =>
        /\ \A p \in DOMAIN r.cache :
             r.cache[p] = e[p] \/ RecordIn(r, r.next, Len(r.journal), p)
        /\ \/ r.vers = e[Header]
           \/ RecordIn(r, r.next, Len(r.journal), Header)

\* One pager r, the file f and what is committed, e.
PagerOK(r, f, e) ==
    /\ OpenOK(r, e)
    /\ ReaderOK(r, e)
    /\ WriterOK(r, f, e)
    /\ UndoOK(r, f, e)
    /\ UndoCacheOK(r, e)

DataOK ==
    /\ LocksExclude
    /\ FileIntact
    /\ \A c \in Conns : PagerOK(pager[c], content, expected)

\* A connection that is not open has no pager.
NotOpened == \A c \in Conns : via[c] = "none" => pager[c].state = "closed"

\* The inductive invariant of the data, beside Inv.
DataInv == NotOpened /\ (Calm => DataOK)

-----------------------------------------------------------------------------
(* Locks *)

\* What the absence of a lock says of a pager.
LEMMA ExclusiveLock ==
    ASSUME PagersSound, NEW d \in Conns, LockOf(d) # "EXCLUSIVE"
    PROVE  pager[d].state \notin Exclusive
BY DEF LockOf, In, Exclusive, Writing

\* The same of a RESERVED lock.
LEMMA ReservedLock ==
    ASSUME PagersSound, NEW d \in Conns, LockOf(d) # "RESERVED"
    PROVE  pager[d].state \notin Reserved
BY DEF LockOf, In, Reserved

\* The same of all three.
LEMMA AnyLock ==
    ASSUME PagersSound, NEW d \in Conns,
           LockOf(d) \notin {"SHARED", "RESERVED", "EXCLUSIVE"}
    PROVE  pager[d].state \in Unlocked
BY DEF LockOf, In, Unlocked

\* A lock granted without disturbing others excludes none of theirs.
LEMMA Granted ==
    ASSUME PagersSound, NEW c \in Conns, NEW d \in Conns, c # d, NEW lock,
           Lock(c, lock), ~disturbed'
    PROVE  LockOf(d) \notin Excluding(lock)
BY DEF Lock

\* Nobody else is changing the file when a SHARED lock is due.
LEMMA GrantedShared ==
    ASSUME PagersSound, NEW c \in Conns, Lock(c, "SHARED"), ~disturbed'
    PROVE  \A d \in Conns \ {c} : Compatible("reader", pager[d].state)
<1>1. ASSUME NEW d \in Conns \ {c}
      PROVE  pager[d].state \notin Exclusive
  <2>1. LockOf(d) \notin Excluding("SHARED")
    BY Granted
  <2> QED
    BY <2>1, ExclusiveLock DEF Excluding
<1> QED
  BY <1>1 DEF Compatible, Exclusive, Writing, Reserved

\* Nobody else writes at all when a RESERVED lock is due.
LEMMA GrantedReserved ==
    ASSUME PagersSound, NEW c \in Conns, Lock(c, "RESERVED"), ~disturbed'
    PROVE  \A d \in Conns \ {c} : Compatible("locked", pager[d].state)
<1>1. ASSUME NEW d \in Conns \ {c}
      PROVE  pager[d].state \notin Exclusive \cup Reserved
  <2>1. LockOf(d) \notin Excluding("RESERVED")
    BY Granted
  <2>2. LockOf(d) # "RESERVED" /\ LockOf(d) # "EXCLUSIVE"
    BY <2>1 DEF Excluding
  <2> QED
    BY <2>2, ExclusiveLock, ReservedLock
<1> QED
  BY <1>1 DEF Compatible, Exclusive, Writing

\* Nobody else reads or writes when an EXCLUSIVE lock is due.
LEMMA GrantedExclusive ==
    ASSUME PagersSound, NEW c \in Conns, Lock(c, "EXCLUSIVE"), ~disturbed',
           NEW s \in Exclusive
    PROVE  \A d \in Conns \ {c} : Compatible(s, pager[d].state)
<1>1. ASSUME NEW d \in Conns \ {c}
      PROVE  pager[d].state \in Unlocked
  <2>1. LockOf(d) \notin Excluding("EXCLUSIVE")
    BY Granted
  <2> QED
    BY <2>1, AnyLock DEF Excluding
<1> QED
  BY <1>1 DEF Compatible, Exclusive, Writing, Reserved, Unlocked

\* A connection that keeps its lock, or lowers it, disturbs nobody.
LEMMA KeepsLock ==
    ASSUME LocksExclude, NEW c \in Conns, NEW s,
           \/ s \in Unlocked
           \/ s = "reader" /\ pager[c].state \notin Unlocked
           \/ s \in Reserved /\ pager[c].state \in Reserved
           \/ s \in Exclusive /\ pager[c].state \in Exclusive
    PROVE  \A d \in Conns \ {c} : Compatible(s, pager[d].state)
<1> SUFFICES ASSUME NEW d \in Conns \ {c}
             PROVE  Compatible(s, pager[d].state)
  OBVIOUS
<1>1. Compatible(pager[c].state, pager[d].state)
  BY DEF LocksExclude
<1> QED
  BY <1>1 DEF Compatible, Unlocked, Reserved, Exclusive, Writing

-----------------------------------------------------------------------------
(* Steps of one connection *)

\* A pager without a lock claims nothing of the file.
LEMMA UnlockedOK ==
    ASSUME NEW r, r.state \in Unlocked, NEW f, NEW e, NEW g, PagerOK(r, f, e)
    PROVE  PagerOK(r, g, e)
BY DEF PagerOK, Unlocked, WriterOK, UndoOK

\* Locks still exclude each other when one pager changes compatibly.
LEMMA LocksStay ==
    ASSUME PagersSound, LocksExclude, NEW c \in Conns, NEW r,
           pager' = [pager EXCEPT ![c] = r],
           \A d \in Conns \ {c} : Compatible(r.state, pager[d].state)
    PROVE  LocksExclude'
<1>1. /\ pager'[c] = r
      /\ \A d \in Conns \ {c} : pager'[d] = pager[d]
  BY DEF PagersSound
<1>2. ASSUME NEW a \in Conns, NEW b \in Conns, a # b
      PROVE  Compatible(pager'[a].state, pager'[b].state)
  <2>1. CASE a = c
    BY <1>1, <1>2, <2>1
  <2>2. CASE b = c
    <3>1. Compatible(r.state, pager[a].state)
      BY <1>2, <2>2
    <3> QED
      BY <1>1, <1>2, <2>2, <3>1 DEF Compatible
  <2>3. CASE a # c /\ b # c
    BY <1>1, <1>2, <2>3 DEF LocksExclude
  <2> QED
    BY <2>1, <2>2, <2>3
<1> QED
  BY <1>2 DEF LocksExclude

\* A step of one connection: it shows its own pager, its lock, and who may have
\* changed the file; the other connections follow.
LEMMA KeepsData ==
    ASSUME PagersSound, DataOK, NEW c \in Conns, NEW r,
           pager' = [pager EXCEPT ![c] = r],
           expected' = expected,
           \/ r.state \in Writing
           \/ pager[c].state \notin Writing /\ UNCHANGED <<content, flash>>
           \/ content' = expected /\ flash' = expected,
           \/ content' = content
           \/ pager[c].state \in Exclusive
           \/ r.state \in Exclusive,
           \A d \in Conns \ {c} : Compatible(r.state, pager[d].state),
           PagerOK(r, content', expected)
    PROVE  DataOK'
<1>1. /\ pager'[c] = r
      /\ \A d \in Conns \ {c} : pager'[d] = pager[d]
  BY DEF PagersSound
<1>2. LocksExclude'
  BY LocksStay DEF DataOK
<1>3. FileIntact'
  <2>1. CASE r.state \in Writing
    BY <1>1, <2>1 DEF FileIntact
  <2>2. CASE /\ r.state \notin Writing
             /\ pager[c].state \notin Writing /\ UNCHANGED <<content, flash>>
    BY <1>1, <2>2 DEF FileIntact, DataOK
  <2>3. CASE content' = expected /\ flash' = expected
    BY <2>3 DEF FileIntact
  <2> QED
    BY <2>1, <2>2, <2>3
<1>4. ASSUME NEW d \in Conns
      PROVE  PagerOK(pager'[d], content', expected)
  <2>1. CASE d = c
    BY <1>1, <2>1
  <2>2. CASE d # c
    <3>1. PagerOK(pager[d], content, expected)
      BY DEF DataOK
    <3>2. content' = content \/ pager[d].state \in Unlocked
      BY <2>2 DEF DataOK, LocksExclude, Compatible
    <3> QED
      BY <1>1, <2>2, <3>1, <3>2, UnlockedOK
  <2> QED
    BY <2>1, <2>2
<1> QED
  BY <1>2, <1>3, <1>4 DEF DataOK

-----------------------------------------------------------------------------
(* What is to be shown of a pager, by its state *)

\* What is to be shown of a pager, by its state: open and without a lock.
LEMMA OpenPager ==
    ASSUME NEW r, NEW f, NEW e, r.state = "open", OpenOK(r, e)
    PROVE  PagerOK(r, f, e)
BY DEF PagerOK, ReaderOK, WriterOK, UndoOK, UndoCacheOK

\* Reading, or about to end a commit.
LEMMA ReaderPager ==
    ASSUME NEW r, NEW f, NEW e, r.state \in {"reader", "locked", "finished"},
           r.vers = e[Header], Fresh(r, e)
    PROVE  PagerOK(r, f, e)
BY DEF PagerOK, OpenOK, ReaderOK, WriterOK, UndoOK, UndoCacheOK

\* In a write transaction.
LEMMA WriterPager ==
    ASSUME NEW r, NEW f, NEW e, r.state \in {"cachemod", "dbmod", "commit"},
           WriterOK(r, f, e)
    PROVE  PagerOK(r, f, e)
BY DEF PagerOK, OpenOK, ReaderOK, UndoOK, UndoCacheOK

\* Rolling back.
LEMMA UndoPager ==
    ASSUME NEW r, NEW f, NEW e, r.state \in {"undo", "error"},
           UndoOK(r, f, e), UndoCacheOK(r, e)
    PROVE  PagerOK(r, f, e)
BY DEF PagerOK, OpenOK, ReaderOK, WriterOK

\* The file is intact while nobody else may change it.
LEMMA NobodyWrites ==
    ASSUME DataOK, NEW c \in Conns, pager[c].state \notin Writing,
           NEW s \in {"reader", "locked", "cachemod"},
           \A d \in Conns \ {c} : Compatible(s, pager[d].state)
    PROVE  content = expected /\ flash = expected
<1>1. \A d \in Conns : pager[d].state \notin Writing
  BY DEF Compatible, Exclusive, Unlocked
<1> QED
  BY <1>1 DEF DataOK, FileIntact

\* It is while a connection has a lock and has not written.
LEMMA HolderReads ==
    ASSUME DataOK, NEW c \in Conns,
           pager[c].state \in {"reader", "locked", "cachemod"}
    PROVE  content = expected /\ flash = expected
<1>1. \A d \in Conns \ {c} : Compatible(pager[c].state, pager[d].state)
  BY DEF DataOK, LocksExclude
<1>2. pager[c].state \notin Writing
  BY DEF Writing
<1> QED
  BY <1>1, <1>2, NobodyWrites

-----------------------------------------------------------------------------
(* Reading *)

\* The check of the change counter: a cache that is kept is up to date.
LEMMA SharedLockData ==
    ASSUME Inv, Calm', DataOK, NEW c \in Conns, SharedLock(c)
    PROVE  DataOK'
<1> DEFINE kept == ValidCache(c)
           cache == IF Header \in DOMAIN kept THEN kept
                    ELSE WithPage(kept, Header, Read(Header))
           vers == IF Header \in DOMAIN kept THEN pager[c].vers
                   ELSE Read(Header)
           r == [pager[c] EXCEPT !.state = "reader", !.cache = cache,
                                 !.vers = vers]
<1>1. PagersSound /\ pager[c] \in Pagers /\ pager[c].state = "open"
  BY DEF Inv, DatabaseSound, PagersSound, SharedLock, In
<1>2. pager' = [pager EXCEPT ![c] = r]
  BY <1>1 DEF SharedLock, PagersSound
<1>3. \A d \in Conns \ {c} : Compatible("reader", pager[d].state)
  BY <1>1, GrantedShared DEF SharedLock, Calm
<1>4. content = expected /\ flash = expected
  BY <1>1, <1>3, NobodyWrites DEF Writing
<1>5. OpenOK(pager[c], expected)
  BY DEF DataOK, PagerOK
<1>6. /\ \A p \in DOMAIN kept : kept[p] = expected[p]
      /\ Header \in DOMAIN kept => pager[c].vers = expected[Header]
  <2>1. CASE pager[c].vers = Read(Header)
    BY <1>1, <1>4, <1>5, <2>1 DEF OpenOK, Fresh, ValidCache, Read
  <2>2. CASE pager[c].vers # Read(Header)
    BY <2>2 DEF ValidCache, NoCache
  <2> QED
    BY <2>1, <2>2
<1> HIDE DEF kept
<1>7. vers = expected[Header] /\ \A p \in DOMAIN cache : cache[p] = expected[p]
  BY <1>4, <1>6 DEF Read, WithPage
<1> HIDE DEF cache, vers
<1>8. r.state = "reader" /\ r.vers = vers /\ r.cache = cache
  BY <1>1 DEF Pagers
<1> HIDE DEF r
<1>9. PagerOK(r, content', expected)
  BY <1>7, <1>8, ReaderPager DEF Fresh
<1>10. UNCHANGED <<content, flash, expected>> /\ pager[c].state \notin Writing
  BY <1>1 DEF SharedLock, storageVars, Writing
<1> QED
  BY <1>1, <1>2, <1>3, <1>8, <1>9, <1>10, KeepsData

\* A page read in a transaction was not changed by it.
LEMMA ReadingKeeps ==
    ASSUME NEW old, NEW r, NEW f, NEW e, NEW p \in Pages,
           ChangesOK(old, f, e), p \notin DOMAIN old.cache,
           DOMAIN r.cache = DOMAIN old.cache \cup {p},
           r.cache[p] = f[p],
           \A q \in DOMAIN old.cache : r.cache[q] = old.cache[q],
           r.dirty = old.dirty, r.journal = old.journal, r.synced = old.synced
    PROVE  ChangesOK(r, f, e)
<1>1. \A q, a, b : RecordIn(r, a, b, q) <=> RecordIn(old, a, b, q)
  BY DEF RecordIn
<1>2. \A q : /\ Recorded(r, q) <=> Recorded(old, q)
             /\ Written(r, q) <=> Written(old, q)
  BY <1>1 DEF Recorded, Written
<1>3. ~Recorded(old, p) /\ f[p] = e[p]
  <2>1. ~Recorded(old, p)
    BY DEF ChangesOK
  <2> QED
    BY <2>1 DEF ChangesOK, Written
<1>4. \A q \in DOMAIN r.cache :
        r.cache[q] = IF Recorded(r, q) THEN e[q] + 1 ELSE e[q]
  BY <1>2, <1>3 DEF ChangesOK
<1>5. \A q \in Pages : Recorded(r, q) => q \in DOMAIN r.cache
  BY <1>2 DEF ChangesOK
<1>6. \A q \in r.dirty : Recorded(r, q)
  BY <1>2 DEF ChangesOK
<1>7. ASSUME NEW q \in Pages
      PROVE  IF Written(r, q)
             THEN f[q] = r.cache[q] /\ RecordIn(r, 1, r.synced, q)
             ELSE f[q] = e[q]
  <2>1. CASE Written(r, q)
    <3>1. Written(old, q) /\ Recorded(old, q) /\ q \in DOMAIN old.cache
      BY <1>2, <2>1 DEF ChangesOK, Written
    <3>2. f[q] = old.cache[q] /\ RecordIn(old, 1, old.synced, q)
      BY <3>1 DEF ChangesOK
    <3>3. r.cache[q] = old.cache[q] /\ RecordIn(r, 1, r.synced, q)
      BY <1>1, <3>1, <3>2
    <3> QED
      BY <2>1, <3>2, <3>3
  <2>2. CASE ~Written(r, q)
    BY <1>2, <2>2 DEF ChangesOK
  <2> QED
    BY <2>1, <2>2
<1>8. OriginalsKept(r, e)
  BY DEF ChangesOK, OriginalsKept
<1> QED
  BY <1>4, <1>5, <1>6, <1>7, <1>8 DEF ChangesOK

\* A page read is as committed.
LEMMA GetPageData ==
    ASSUME Inv, DataOK, NEW c \in Conns, NEW p \in Pages, GetPage(c, p)
    PROVE  DataOK'
<1> DEFINE old == pager[c]
           cache == WithPage(old.cache, p, Read(p))
           r == [old EXCEPT !.cache = cache]
<1>1. /\ PagersSound /\ old \in Pagers
      /\ old.state \in Active /\ p \notin DOMAIN old.cache
  BY DEF Inv, DatabaseSound, PagersSound, GetPage, In, Cached
<1>2. pager' = [pager EXCEPT ![c] = r]
  BY <1>1 DEF GetPage, PagersSound
<1>3. PagerOK(old, content, expected)
  BY DEF DataOK
<1>4. /\ DOMAIN cache = DOMAIN old.cache \cup {p}
      /\ cache[p] = content[p]
      /\ \A q \in DOMAIN old.cache : cache[q] = old.cache[q]
  BY <1>1 DEF WithPage, Read
<1> HIDE DEF cache
<1>5. /\ r.state = old.state /\ r.cache = cache /\ r.vers = old.vers
      /\ r.dirty = old.dirty /\ r.journal = old.journal
      /\ r.synced = old.synced
  BY <1>1 DEF Pagers
<1>6. UNCHANGED <<content, flash, expected>>
  BY DEF GetPage, storageVars
<1> HIDE DEF r
<1>7. PagerOK(r, content, expected)
  <2>1. CASE old.state \in {"reader", "locked"}
    <3>1. content = expected
      BY <2>1, HolderReads
    <3>2. old.vers = expected[Header] /\ Fresh(old, expected)
      BY <1>3, <2>1 DEF PagerOK, ReaderOK
    <3>3. Fresh(r, expected)
      BY <1>4, <1>5, <3>1, <3>2 DEF Fresh
    <3> QED
      BY <1>5, <2>1, <3>2, <3>3, ReaderPager
  <2>2. CASE old.state \in {"cachemod", "dbmod"}
    <3>1. /\ ChangesOK(old, content, expected)
          /\ ~Recorded(old, Header) /\ old.vers = expected[Header]
      BY <1>3, <2>2 DEF PagerOK, WriterOK
    <3>2. ChangesOK(r, content, expected)
      BY <1>1, <1>4, <1>5, <3>1, ReadingKeeps
    <3>3. WriterOK(r, content, expected)
      BY <1>5, <2>2, <3>1, <3>2 DEF WriterOK, Recorded, RecordIn
    <3> QED
      BY <1>5, <2>2, <3>3, WriterPager
  <2> QED
    BY <1>1, <2>1, <2>2 DEF Active
<1>8. \A d \in Conns \ {c} : Compatible(r.state, pager[d].state)
  BY <1>5 DEF DataOK, LocksExclude
<1> QED
  BY <1>1, <1>2, <1>5, <1>6, <1>7, <1>8, KeepsData

\* The cache of a connection that ends a read was right when it did.
LEMMA EndReadData ==
    ASSUME Inv, DataOK, NEW c \in Conns, EndRead(c)
    PROVE  DataOK'
<1> DEFINE r == [pager[c] EXCEPT !.state = "open"]
<1>1. PagersSound /\ pager[c] \in Pagers /\ pager[c].state = "reader"
  BY DEF Inv, DatabaseSound, PagersSound, EndRead, In
<1>2. pager' = [pager EXCEPT ![c] = r]
  BY <1>1 DEF EndRead, PagersSound
<1>3. r.state = "open" /\ r.vers = pager[c].vers /\ r.cache = pager[c].cache
  BY <1>1 DEF Pagers
<1>4. pager[c].vers = expected[Header] /\ Fresh(pager[c], expected)
  BY <1>1 DEF DataOK, PagerOK, ReaderOK
<1>5. expected[Header] \in Nat
  BY DEF Inv, DatabaseSound, HistorySound, Pages
<1> HIDE DEF r
<1>6. OpenOK(r, expected)
  BY <1>3, <1>4, <1>5 DEF OpenOK, Fresh
<1>7. PagerOK(r, content', expected)
  BY <1>3, <1>6, OpenPager
<1>8. \A d \in Conns \ {c} : Compatible(r.state, pager[d].state)
  BY <1>3, KeepsLock DEF DataOK, Unlocked
<1>9. UNCHANGED <<content, flash, expected>> /\ pager[c].state \notin Writing
  BY <1>1 DEF EndRead, storageVars, Writing
<1> QED
  BY <1>1, <1>2, <1>3, <1>7, <1>8, <1>9, KeepsData

\* The begin of a write.
LEMMA BeginData ==
    ASSUME Inv, Calm', DataOK, NEW c \in Conns, Begin(c)
    PROVE  DataOK'
<1> DEFINE r == [pager[c] EXCEPT !.state = "locked"]
<1>1. PagersSound /\ pager[c] \in Pagers /\ pager[c].state = "reader"
  BY DEF Inv, DatabaseSound, PagersSound, Begin, In
<1>2. pager' = [pager EXCEPT ![c] = r]
  BY <1>1 DEF Begin, PagersSound
<1>3. r.state = "locked" /\ r.vers = pager[c].vers /\ r.cache = pager[c].cache
  BY <1>1 DEF Pagers
<1>4. pager[c].vers = expected[Header] /\ Fresh(pager[c], expected)
  BY <1>1 DEF DataOK, PagerOK, ReaderOK
<1> HIDE DEF r
<1>5. PagerOK(r, content', expected)
  BY <1>3, <1>4, ReaderPager DEF Fresh
<1>6. \A d \in Conns \ {c} : Compatible(r.state, pager[d].state)
  BY <1>1, <1>3, GrantedReserved DEF Begin, Calm
<1>7. UNCHANGED <<content, flash, expected>> /\ pager[c].state \notin Writing
  BY <1>1 DEF Begin, storageVars, Writing
<1> QED
  BY <1>1, <1>2, <1>3, <1>5, <1>6, <1>7, KeepsData

-----------------------------------------------------------------------------
(* Writing *)

\* From old to r page p is recorded and updated.
Updates(old, r, p, e) ==
    /\ ~Recorded(old, p)
    /\ p \in DOMAIN old.cache
    /\ r.journal = Append(old.journal, [page |-> p, orig |-> old.cache[p]])
    /\ DOMAIN r.cache = DOMAIN old.cache
    /\ r.cache[p] = e[p] + 1
    /\ \A q \in DOMAIN old.cache \ {p} : r.cache[q] = old.cache[q]
    /\ r.dirty = old.dirty \cup {p}
    /\ r.synced \in {old.synced, Len(old.journal) + 1}

\* Updating a page that is not in the journal yet.
LEMMA UpdateKeeps ==
    ASSUME NEW old \in Pagers, Sound(old), NEW r, NEW f, NEW e,
           NEW p \in Pages, ChangesOK(old, f, e), Updates(old, r, p, e)
    PROVE  /\ ChangesOK(r, f, e)
           /\ \A q : Recorded(r, q) <=> Recorded(old, q) \/ q = p
<1> USE DEF Updates
<1> DEFINE n == Len(old.journal)
           rec == [page |-> p, orig |-> old.cache[p]]
<1>1. /\ old.journal \in Seq([page : Pages, orig : Counts])
      /\ n \in Nat /\ old.synced \in Nat /\ old.synced <= n
  BY DEF Sound, Pagers
<1>2. rec \in [page : Pages, orig : Counts]
  BY CacheOf DEF Pagers
<1>3. /\ Len(r.journal) = n + 1
      /\ r.journal[n + 1] = rec
      /\ \A i \in 1..n : r.journal[i] = old.journal[i]
  <2> HIDE DEF rec
  <2>1. r.journal = Append(old.journal, rec)
    BY DEF rec
  <2> QED
    BY <1>1, <1>2, <2>1
<1>4. rec.page = p /\ rec.orig = old.cache[p]
  OBVIOUS
<1> HIDE DEF n, rec
<1>5. \A q : Recorded(r, q) <=> Recorded(old, q) \/ q = p
  BY <1>1, <1>3, <1>4 DEF Recorded, RecordIn, n
<1>6. ASSUME NEW q, RecordIn(old, 1, old.synced, q)
      PROVE  RecordIn(r, 1, r.synced, q)
  <2>1. PICK i \in 1..old.synced : old.journal[i].page = q
    BY <1>6 DEF RecordIn
  <2>2. i \in 1..n /\ i \in 1..r.synced
    BY <1>1, <2>1 DEF n
  <2> QED
    BY <1>3, <2>1, <2>2 DEF RecordIn
<1>7. \A q : Written(r, q) <=> Written(old, q)
  BY <1>5 DEF Written
<1>8. old.cache[p] = e[p]
  BY DEF ChangesOK
<1>9. OriginalsKept(r, e)
  <2>1. ASSUME NEW i \in 1..(n + 1)
        PROVE  r.journal[i].orig = e[r.journal[i].page]
    <3>1. CASE i = n + 1
      <4>1. r.journal[i] = rec
        BY <1>3, <3>1
      <4> QED
        BY <1>4, <1>8, <4>1
    <3>2. CASE i \in 1..n
      <4>1. old.journal[i].orig = e[old.journal[i].page]
        BY <3>2 DEF ChangesOK, OriginalsKept, n
      <4> QED
        BY <1>3, <3>2, <4>1
    <3>3. i = n + 1 \/ i \in 1..n
      <4>1. n \in Nat
        BY <1>1
      <4> QED
        BY <4>1
    <3> QED
      BY <3>1, <3>2, <3>3
  <2> QED
    BY <1>3, <2>1 DEF OriginalsKept
<1>10. ASSUME NEW q \in DOMAIN r.cache
       PROVE  r.cache[q] = IF Recorded(r, q) THEN e[q] + 1 ELSE e[q]
  <2>1. CASE q = p
    BY <1>5, <2>1
  <2>2. CASE q # p
    BY <1>5, <2>2 DEF ChangesOK
  <2> QED
    BY <2>1, <2>2
<1>11. \A q \in Pages : Recorded(r, q) => q \in DOMAIN r.cache
  BY <1>5 DEF ChangesOK
<1>12. \A q \in r.dirty : Recorded(r, q)
  BY <1>5 DEF ChangesOK
<1>13. ASSUME NEW q \in Pages
       PROVE  IF Written(r, q)
              THEN f[q] = r.cache[q] /\ RecordIn(r, 1, r.synced, q)
              ELSE f[q] = e[q]
  <2>1. CASE Written(r, q)
    <3>1. Written(old, q) /\ q # p /\ q \in DOMAIN old.cache
      BY <1>7, <2>1 DEF ChangesOK, Written
    <3>2. f[q] = old.cache[q] /\ RecordIn(old, 1, old.synced, q)
      BY <3>1 DEF ChangesOK
    <3> QED
      BY <1>6, <2>1, <3>1, <3>2
  <2>2. CASE ~Written(r, q)
    BY <1>7, <2>2 DEF ChangesOK
  <2> QED
    BY <2>1, <2>2
<1> QED
  BY <1>5, <1>9, <1>10, <1>11, <1>12, <1>13 DEF ChangesOK

\* From old to r the dirty page p, its record synced, is written.
WritesOut(old, r, p) ==
    /\ p \in old.dirty
    /\ r.journal = old.journal
    /\ r.cache = old.cache
    /\ r.dirty = old.dirty \ {p}
    /\ r.synced \in old.synced..Len(old.journal)
    /\ RecordIn(old, 1, r.synced, p)

\* Writing a changed page whose record is synced.
LEMMA WriteOutKeeps ==
    ASSUME NEW old \in Pagers, Sound(old), NEW r, NEW f, NEW e, NEW g,
           NEW p \in Pages, ChangesOK(old, f, e), WritesOut(old, r, p),
           f \in [Pages -> Counts], g = [f EXCEPT ![p] = old.cache[p]]
    PROVE  ChangesOK(r, g, e)
<1> USE DEF WritesOut
<1>1. \A q, a, b : RecordIn(r, a, b, q) <=> RecordIn(old, a, b, q)
  BY DEF RecordIn
<1>2. \A q : Recorded(r, q) <=> Recorded(old, q)
  BY <1>1 DEF Recorded
<1>3. ASSUME NEW q, RecordIn(old, 1, old.synced, q)
      PROVE  RecordIn(r, 1, r.synced, q)
  <2>1. PICK i \in 1..old.synced : old.journal[i].page = q
    BY <1>3 DEF RecordIn
  <2>2. i \in 1..r.synced
    <3>1. old.synced \in Nat /\ Len(old.journal) \in Nat
      BY DEF Pagers
    <3> QED
      BY <2>1, <3>1
  <2> QED
    BY <2>1, <2>2 DEF RecordIn
<1>4. OriginalsKept(r, e)
  BY DEF ChangesOK, OriginalsKept
<1>5. ASSUME NEW q \in Pages
      PROVE  IF Written(r, q)
             THEN g[q] = r.cache[q] /\ RecordIn(r, 1, r.synced, q)
             ELSE g[q] = e[q]
  <2>1. CASE q = p
    <3>1. Written(r, q)
      BY <1>2, <2>1 DEF ChangesOK, Written
    <3>2. g[q] = r.cache[q] /\ RecordIn(r, 1, r.synced, q)
      BY <1>1, <2>1
    <3> QED
      BY <3>1, <3>2
  <2>2. CASE q # p
    <3>1. g[q] = f[q] /\ (Written(r, q) <=> Written(old, q))
      BY <1>2, <2>2 DEF Written
    <3>2. CASE Written(r, q)
      <4>1. f[q] = old.cache[q] /\ RecordIn(old, 1, old.synced, q)
        BY <3>1, <3>2 DEF ChangesOK
      <4> QED
        BY <1>3, <3>1, <3>2, <4>1
    <3>3. CASE ~Written(r, q)
      BY <3>1, <3>3 DEF ChangesOK
    <3> QED
      BY <3>2, <3>3
  <2> QED
    BY <2>1, <2>2
<1>6. /\ \A q \in DOMAIN r.cache :
           r.cache[q] = IF Recorded(r, q) THEN e[q] + 1 ELSE e[q]
      /\ \A q \in Pages : Recorded(r, q) => q \in DOMAIN r.cache
      /\ \A q \in r.dirty : Recorded(r, q)
  BY <1>2 DEF ChangesOK
<1> QED
  BY <1>4, <1>5, <1>6 DEF ChangesOK

\* From old to r the transaction is given up.
Abandons(old, r) ==
    /\ r.journal = old.journal
    /\ r.next = 1
    /\ r.synced \in old.synced..Len(old.journal)

\* A transaction given up can be undone from the journal: what differs from the
\* committed contents has a synced record.
LEMMA AbandonedIsUndoable ==
    ASSUME NEW old \in Pagers, Sound(old), NEW r, NEW f, NEW e, NEW g,
           ChangesOK(old, f, e), Abandons(old, r),
           \A q \in Pages : g[q] = f[q] \/ RecordIn(old, 1, r.synced, q)
    PROVE  UndoOK(r, g, e)
<1> USE DEF Abandons
<1>1. OriginalsKept(r, e)
  BY DEF ChangesOK, OriginalsKept
<1>2. ASSUME NEW q \in Pages
      PROVE  g[q] = e[q] \/ RecordIn(r, r.next, r.synced, q)
  <2>1. CASE RecordIn(old, 1, r.synced, q)
    BY <2>1 DEF RecordIn
  <2>2. CASE g[q] = f[q] /\ Written(old, q)
    <3>1. RecordIn(old, 1, old.synced, q)
      BY <2>2 DEF ChangesOK
    <3>2. PICK i \in 1..old.synced : old.journal[i].page = q
      BY <3>1 DEF RecordIn
    <3>3. i \in 1..r.synced
      <4>1. old.synced \in Nat /\ Len(old.journal) \in Nat
        BY DEF Pagers
      <4> QED
        BY <3>2, <4>1
    <3> QED
      BY <3>2, <3>3 DEF RecordIn
  <2>3. CASE g[q] = f[q] /\ ~Written(old, q)
    BY <2>3 DEF ChangesOK
  <2> QED
    BY <2>1, <2>2, <2>3
<1> QED
  BY <1>1, <1>2 DEF UndoOK

\* A write transaction before its commit, its first update included.
LEMMA LockedUnchanged ==
    ASSUME DataOK, NEW c \in Conns, Sound(pager[c]),
           pager[c].state \in {"locked", "cachemod", "dbmod"}
    PROVE  /\ ChangesOK(pager[c], content, expected)
           /\ ~Recorded(pager[c], Header)
           /\ pager[c].vers = expected[Header]
<1>1. PagerOK(pager[c], content, expected)
  BY DEF DataOK
<1>2. CASE pager[c].state = "locked"
  <2>1. pager[c].journal = <<>> /\ pager[c].dirty = {}
    BY <1>2 DEF Sound
  <2>2. content = expected
    BY <1>2, HolderReads
  <2>3. pager[c].vers = expected[Header] /\ Fresh(pager[c], expected)
    BY <1>1, <1>2 DEF PagerOK, ReaderOK
  <2>4. \A p : ~Recorded(pager[c], p)
    BY <2>1 DEF Recorded, RecordIn
  <2> QED
    BY <2>1, <2>2, <2>3, <2>4 DEF ChangesOK, OriginalsKept, Written, Fresh
<1>3. CASE pager[c].state \in {"cachemod", "dbmod"}
  BY <1>1, <1>3 DEF PagerOK, WriterOK
<1> QED
  BY <1>2, <1>3

\* An update.
LEMMA WritePageData ==
    ASSUME Inv, DataOK, NEW c \in Conns, NEW p \in DataPages, WritePage(c, p)
    PROVE  DataOK'
<1> DEFINE old == pager[c]
           state == IF old.state = "locked" THEN "cachemod" ELSE old.state
           journal == Append(old.journal, Record(c, p))
           cache == [old.cache EXCEPT ![p] = @ + 1]
           dirty == old.dirty \cup {p}
           r == [old EXCEPT !.state = state, !.journal = journal,
                            !.cache = cache, !.dirty = dirty]
<1>1. /\ PagersSound /\ old \in Pagers /\ Sound(old)
      /\ old.state \in {"locked", "cachemod", "dbmod"}
      /\ p \in DOMAIN old.cache /\ p \in Pages /\ p # Header
  BY DEF Inv, DatabaseSound, PagersSound, WritePage, In, Cached, Pages
<1>2. pager' = [pager EXCEPT ![c] = r]
  BY <1>1, WritePageStep
<1>3. ~Recorded(old, p)
  BY DEF WritePage, Recorded, RecordIn, Journaled
<1>4. /\ ChangesOK(old, content, expected)
      /\ ~Recorded(old, Header) /\ old.vers = expected[Header]
  BY <1>1, LockedUnchanged
<1>5. /\ DOMAIN cache = DOMAIN old.cache
      /\ cache[p] = old.cache[p] + 1
      /\ \A q \in DOMAIN old.cache \ {p} : cache[q] = old.cache[q]
  BY <1>1
<1>6. old.cache[p] = expected[p]
  BY <1>1, <1>3, <1>4 DEF ChangesOK
<1>7. journal = Append(old.journal, [page |-> p, orig |-> old.cache[p]])
  BY DEF Record
<1> HIDE DEF cache, journal
<1>8. state \in {"cachemod", "dbmod"}
  BY <1>1
<1>9. /\ r.state = state /\ r.cache = cache /\ r.journal = journal
      /\ r.dirty = dirty /\ r.synced = old.synced /\ r.vers = old.vers
  BY <1>1 DEF Pagers
<1> HIDE DEF state, r
<1>10. /\ ChangesOK(r, content, expected)
       /\ \A q : Recorded(r, q) <=> Recorded(old, q) \/ q = p
  <2>1. Updates(old, r, p, expected)
    BY <1>1, <1>3, <1>5, <1>6, <1>7, <1>9 DEF Updates
  <2> QED
    BY <1>1, <1>4, <2>1, UpdateKeeps
<1>11. PagerOK(r, content, expected)
  <2>1. WriterOK(r, content, expected)
    BY <1>1, <1>4, <1>8, <1>9, <1>10 DEF WriterOK
  <2> QED
    BY <1>8, <1>9, <2>1, WriterPager
<1>12. \A d \in Conns \ {c} : Compatible(r.state, pager[d].state)
  <2>1. \/ r.state \in Reserved /\ old.state \in Reserved
        \/ r.state \in Exclusive /\ old.state \in Exclusive
    BY <1>1, <1>9 DEF Reserved, Exclusive, Writing, state
  <2> QED
    BY <2>1, KeepsLock DEF DataOK
<1>13. /\ UNCHANGED <<content, flash, expected>>
       /\ old.state \notin Writing \/ r.state \in Writing
  BY <1>1, <1>9 DEF WritePage, Writing, state
<1> QED
  BY <1>1, <1>2, <1>11, <1>12, <1>13, KeepsData

\* A page is written before the commit, or garbled and covered by the journal.
LEMMA SpillData ==
    ASSUME Inv, Calm', DataOK, NEW c \in Conns, NEW p \in DataPages, Spill(c, p)
    PROVE  DataOK'
<1> DEFINE old == pager[c]
           unsynced == \E i \in 1..Len(old.journal) :
               old.journal[i].page = p /\ i > old.synced
           synced == IF unsynced THEN Len(old.journal) ELSE old.synced
           r == [old EXCEPT !.state = "dbmod", !.synced = synced,
                            !.dirty = old.dirty \ {p}]
           e == [InError(c) EXCEPT !.synced = synced]
<1>1. /\ PagersSound /\ old \in Pagers /\ Sound(old)
      /\ old.state \in {"cachemod", "dbmod"}
      /\ p \in old.dirty /\ p \in Pages
      /\ content \in [Pages -> Counts]
  BY DEF Inv, DatabaseSound, PagersSound, StorageSound, Spill, In, Pages
<1>2. /\ ChangesOK(old, content, expected)
      /\ ~Recorded(old, Header) /\ old.vers = expected[Header]
  BY <1>1, LockedUnchanged
<1>3. /\ Len(old.journal) \in Nat /\ old.synced \in Nat
      /\ old.synced <= Len(old.journal)
  BY <1>1 DEF Sound, Pagers
<1>4. synced \in old.synced..Len(old.journal)
  BY <1>3
<1>5. RecordIn(old, 1, synced, p)
  <2>1. PICK i \in 1..Len(old.journal) : old.journal[i].page = p
    BY <1>1, <1>2 DEF ChangesOK, Recorded, RecordIn
  <2>2. i \in 1..synced
    <3>1. CASE unsynced
      BY <3>1
    <3>2. CASE ~unsynced
      <4>1. ~(i > old.synced)
        BY <2>1, <3>2
      <4> QED
        BY <1>3, <3>2, <4>1
    <3> QED
      BY <3>1, <3>2
  <2> QED
    BY <2>1, <2>2 DEF RecordIn
<1>6. \/ /\ Write(p, old.cache[p])
         /\ pager' = [pager EXCEPT ![c] = r]
      \/ /\ WriteFails(p)
         /\ pager' = [pager EXCEPT ![c] = e]
  <2>1. \/ /\ Write(p, pager[c].cache[p])
           /\ pager' = [pager EXCEPT
                ![c].state = "dbmod",
                ![c].synced = IF unsynced THEN Len(pager[c].journal) ELSE @,
                ![c].dirty = @ \ {p}]
        \/ /\ WriteFails(p)
           /\ pager' = [pager EXCEPT ![c] =
                [InError(c) EXCEPT
                   !.synced = IF unsynced THEN Len(pager[c].journal) ELSE @]]
    BY DEF Spill
  <2>2. InError(c).synced = pager[c].synced
    BY <1>1 DEF InError, Pagers
  <2> HIDE DEF unsynced
  <2>3. [InError(c) EXCEPT
           !.synced = IF unsynced THEN Len(pager[c].journal) ELSE @] = e
    BY <2>2
  <2>4. [pager EXCEPT ![c].state = "dbmod",
           ![c].synced = IF unsynced THEN Len(pager[c].journal) ELSE @,
           ![c].dirty = @ \ {p}] = [pager EXCEPT ![c] = r]
    BY <1>1 DEF PagersSound
  <2> QED
    BY <2>1, <2>3, <2>4
<1> HIDE DEF unsynced, synced
<1>7. /\ r.state = "dbmod" /\ r.cache = old.cache /\ r.journal = old.journal
      /\ r.dirty = old.dirty \ {p} /\ r.synced = synced /\ r.vers = old.vers
  BY <1>1 DEF Pagers
<1>8. /\ e.state = "error" /\ e.journal = old.journal
      /\ e.synced = synced /\ e.next = 1
  BY <1>1 DEF InError, Pagers
<1> HIDE DEF r, e
<1>9. /\ r.state \in Writing /\ r.state \in Exclusive
      /\ e.state \in Writing /\ e.state \in Exclusive
  BY <1>7, <1>8 DEF Exclusive, Writing
<1>10. /\ \A d \in Conns \ {c} : Compatible(r.state, pager[d].state)
       /\ \A d \in Conns \ {c} : Compatible(e.state, pager[d].state)
  BY <1>1, <1>9, GrantedExclusive DEF Spill, Calm
<1>11. expected' = expected
  BY DEF Spill
<1>12. CASE /\ Write(p, old.cache[p])
            /\ pager' = [pager EXCEPT ![c] = r]
  <2>1. content' = [content EXCEPT ![p] = old.cache[p]]
    BY <1>12 DEF Write
  <2>2. WritesOut(old, r, p)
    BY <1>1, <1>4, <1>5, <1>7 DEF WritesOut
  <2>3. ChangesOK(r, content', expected)
    BY <1>1, <1>2, <2>1, <2>2, WriteOutKeeps
  <2>4. ~Recorded(r, Header)
    BY <1>2, <1>7 DEF Recorded, RecordIn
  <2>5. WriterOK(r, content', expected)
    BY <1>2, <1>7, <2>3, <2>4 DEF WriterOK
  <2>6. PagerOK(r, content', expected)
    BY <1>7, <2>5, WriterPager
  <2> QED
    BY <1>1, <1>9, <1>10, <1>11, <1>12, <2>6, KeepsData
<1>13. CASE /\ WriteFails(p)
            /\ pager' = [pager EXCEPT ![c] = e]
  <2>1. \A q \in Pages : \/ content'[q] = content[q]
                         \/ RecordIn(old, 1, e.synced, q)
    BY <1>1, <1>5, <1>8, <1>13 DEF WriteFails
  <2>2. Abandons(old, e)
    BY <1>4, <1>8 DEF Abandons
  <2>3. UndoOK(e, content', expected)
    BY <1>1, <1>2, <2>1, <2>2, AbandonedIsUndoable
  <2>4. PagerOK(e, content', expected)
    BY <1>8, <2>3, UndoPager DEF UndoCacheOK
  <2> QED
    BY <1>1, <1>9, <1>10, <1>11, <1>13, <2>4, KeepsData
<1> QED
  BY <1>6, <1>12, <1>13

-----------------------------------------------------------------------------
(* Commit *)

\* Page 1 is updated like any other, by the change counter.
LEMMA CommitStartData ==
    ASSUME Inv, Calm', DataOK, NEW c \in Conns, CommitStart(c)
    PROVE  DataOK'
<1> DEFINE old == pager[c]
           journal == Append(old.journal, Record(c, Header))
           cache == [old.cache EXCEPT ![Header] = old.vers + 1]
           dirty == old.dirty \cup {Header}
           synced == Len(old.journal) + 1
           r == [old EXCEPT !.state = "commit", !.journal = journal,
                            !.cache = cache, !.dirty = dirty,
                            !.synced = synced]
<1>1. /\ PagersSound /\ old \in Pagers /\ Sound(old)
      /\ old.state \in {"cachemod", "dbmod"}
      /\ Header \in DOMAIN old.cache /\ Header \in Pages
  BY DEF Inv, DatabaseSound, PagersSound, Sound, CommitStart, In, Pages
<1>2. pager' = [pager EXCEPT ![c] = r]
  BY <1>1, CommitStartStep
<1>3. /\ ChangesOK(old, content, expected)
      /\ ~Recorded(old, Header) /\ old.vers = expected[Header]
  BY <1>1, LockedUnchanged
<1>4. /\ DOMAIN cache = DOMAIN old.cache
      /\ cache[Header] = expected[Header] + 1
      /\ \A q \in DOMAIN old.cache \ {Header} : cache[q] = old.cache[q]
  BY <1>1, <1>3
<1>5. journal = Append(old.journal,
                       [page |-> Header, orig |-> old.cache[Header]])
  BY DEF Record
<1>6. Len(journal) = synced
  <2>1. /\ Record(c, Header) \in [page : Pages, orig : Counts]
        /\ old.journal \in Seq([page : Pages, orig : Counts])
    BY <1>1, CacheOf DEF Record, Pagers
  <2> QED
    BY <2>1
<1> HIDE DEF cache, journal
<1>7. /\ r.state = "commit" /\ r.cache = cache /\ r.journal = journal
      /\ r.dirty = dirty /\ r.synced = synced /\ r.vers = old.vers
  BY <1>1 DEF Pagers
<1> HIDE DEF r
<1>8. Updates(old, r, Header, expected)
  BY <1>1, <1>3, <1>4, <1>5, <1>7 DEF Updates
<1>9. /\ ChangesOK(r, content, expected)
      /\ \A q : Recorded(r, q) <=> Recorded(old, q) \/ q = Header
  BY <1>1, <1>3, <1>8, UpdateKeeps
<1>10. WriterOK(r, content, expected)
  <2>1. r.synced = Len(r.journal) /\ Header \in r.dirty
    BY <1>6, <1>7
  <2>2. Recorded(r, Header)
    BY <1>9
  <2> QED
    BY <1>7, <1>9, <2>1, <2>2 DEF WriterOK
<1>11. PagerOK(r, content, expected)
  BY <1>7, <1>10, WriterPager
<1>12. r.state \in Writing /\ r.state \in Exclusive
  BY <1>7 DEF Exclusive, Writing
<1>13. \A d \in Conns \ {c} : Compatible(r.state, pager[d].state)
  BY <1>1, <1>12, GrantedExclusive DEF CommitStart, Calm
<1>14. expected' = expected /\ content' = content
  BY DEF CommitStart, storageVars
<1> QED
  BY <1>1, <1>2, <1>11, <1>12, <1>13, <1>14, KeepsData

\* What the invariant says during a commit.
LEMMA Committing ==
    ASSUME Inv, DataOK, NEW c \in Conns, pager[c].state = "commit"
    PROVE  /\ PagersSound /\ pager[c] \in Pagers /\ Sound(pager[c])
           /\ content \in [Pages -> Counts]
           /\ ChangesOK(pager[c], content, expected)
           /\ Recorded(pager[c], Header)
           /\ pager[c].synced = Len(pager[c].journal)
           /\ Len(pager[c].journal) \in Nat
           /\ \/ Header \in pager[c].dirty
              \/ pager[c].vers = expected[Header] + 1
<1>1. PagersSound /\ pager[c] \in Pagers /\ Sound(pager[c])
  BY DEF Inv, DatabaseSound, PagersSound
<1>2. content \in [Pages -> Counts] /\ Len(pager[c].journal) \in Nat
  BY <1>1 DEF Inv, DatabaseSound, StorageSound, Pagers
<1>3. WriterOK(pager[c], content, expected)
  BY DEF DataOK, PagerOK
<1> QED
  BY <1>1, <1>2, <1>3 DEF WriterOK

\* From a commit or a spilled transaction to its rollback.
LEMMA GiveUp ==
    ASSUME Inv, DataOK, NEW c \in Conns,
           pager[c].state \in {"dbmod", "commit"}, NEW r,
           r.state = "undo", Abandons(pager[c], r), r.cache = pager[c].cache,
           r.vers = pager[c].vers \/ pager[c].state = "commit",
           pager' = [pager EXCEPT ![c] = r], expected' = expected,
           \A q \in Pages : \/ content'[q] = content[q]
                            \/ RecordIn(pager[c], 1, r.synced, q)
    PROVE  DataOK'
<1> DEFINE old == pager[c]
<1>1. PagersSound /\ old \in Pagers /\ Sound(old)
  BY DEF Inv, DatabaseSound, PagersSound
<1>2. /\ ChangesOK(old, content, expected)
      /\ Recorded(old, Header) \/ r.vers = expected[Header]
  <2>1. WriterOK(old, content, expected)
    BY DEF DataOK, PagerOK
  <2> QED
    BY <2>1 DEF WriterOK
<1>3. UndoOK(r, content', expected)
  BY <1>1, <1>2, AbandonedIsUndoable
<1>4. \A q : Recorded(old, q) => RecordIn(r, r.next, Len(r.journal), q)
  BY DEF Recorded, RecordIn, Abandons
<1>5. UndoCacheOK(r, expected)
  BY <1>2, <1>4 DEF UndoCacheOK, ChangesOK
<1>6. PagerOK(r, content', expected)
  BY <1>3, <1>5, UndoPager
<1>7. /\ r.state \in Writing /\ r.state \in Exclusive
      /\ old.state \in Exclusive
  BY DEF Exclusive, Writing
<1>8. \A d \in Conns \ {c} : Compatible(r.state, pager[d].state)
  BY <1>7, KeepsLock DEF DataOK
<1> QED
  BY <1>1, <1>6, <1>7, <1>8, KeepsData

\* A page of the commit is written, or garbled and the commit given up.
LEMMA WriteBackData ==
    ASSUME Inv, DataOK, NEW c \in Conns, WriteBack(c)
    PROVE  DataOK'
<1> DEFINE old == pager[c]
<1>1. old.state = "commit"
  BY DEF WriteBack, In
<1>2. /\ PagersSound /\ old \in Pagers /\ Sound(old)
      /\ content \in [Pages -> Counts]
      /\ ChangesOK(old, content, expected)
      /\ Recorded(old, Header)
      /\ old.synced = Len(old.journal) /\ Len(old.journal) \in Nat
      /\ Header \in old.dirty \/ old.vers = expected[Header] + 1
  BY <1>1, Committing
<1>3. PICK p \in old.dirty :
         LET vers == IF p = Header THEN pager[c].cache[p] ELSE pager[c].vers
         IN  \/ /\ Write(p, pager[c].cache[p])
                /\ pager' = [pager EXCEPT ![c].dirty = @ \ {p},
                                          ![c].vers = vers]
             \/ /\ WriteFails(p)
                /\ pager' = [pager EXCEPT ![c].state = "undo",
                                          ![c].next = 1,
                                          ![c].vers = vers]
  BY DEF WriteBack
<1> DEFINE vers == IF p = Header THEN old.cache[p] ELSE old.vers
           r == [old EXCEPT !.dirty = @ \ {p}, !.vers = vers]
           u == [old EXCEPT !.state = "undo", !.next = 1, !.vers = vers]
<1>4. \/ Write(p, old.cache[p]) /\ pager' = [pager EXCEPT ![c] = r]
      \/ WriteFails(p) /\ pager' = [pager EXCEPT ![c] = u]
  BY <1>2, <1>3 DEF PagersSound
<1>5. p \in Pages /\ RecordIn(old, 1, old.synced, p)
  BY <1>2 DEF Pagers, ChangesOK, Recorded
<1>6. vers = expected[Header] + 1 \/ (p # Header /\ vers = old.vers)
  BY <1>2, <1>5 DEF ChangesOK, Pagers, Sound
<1> HIDE DEF vers
<1>7. /\ r.state = "commit" /\ r.dirty = old.dirty \ {p} /\ r.vers = vers
      /\ r.cache = old.cache /\ r.journal = old.journal
      /\ r.synced = old.synced
  BY <1>1, <1>2 DEF Pagers
<1>8. /\ u.state = "undo" /\ u.next = 1 /\ u.cache = old.cache
      /\ u.journal = old.journal /\ u.synced = old.synced
  BY <1>2 DEF Pagers
<1> HIDE DEF r, u
<1>9. expected' = expected
  BY DEF WriteBack
<1>10. CASE Write(p, old.cache[p]) /\ pager' = [pager EXCEPT ![c] = r]
  <2>1. content' = [content EXCEPT ![p] = old.cache[p]]
    BY <1>10 DEF Write
  <2>2. WritesOut(old, r, p)
    BY <1>2, <1>5, <1>7 DEF WritesOut
  <2>3. ChangesOK(r, content', expected)
    BY <1>2, <1>5, <2>1, <2>2, WriteOutKeeps
  <2>4. WriterOK(r, content', expected)
    <3>1. Recorded(r, Header)
      BY <1>2, <1>7 DEF Recorded, RecordIn
    <3>2. Header \in r.dirty \/ r.vers = expected[Header] + 1
      BY <1>2, <1>6, <1>7
    <3> QED
      BY <1>2, <1>7, <2>3, <3>1, <3>2 DEF WriterOK
  <2>5. PagerOK(r, content', expected)
    BY <1>7, <2>4, WriterPager
  <2>6. /\ r.state \in Writing /\ r.state \in Exclusive
        /\ old.state \in Exclusive
    BY <1>1, <1>7 DEF Exclusive, Writing
  <2>7. \A d \in Conns \ {c} : Compatible(r.state, pager[d].state)
    BY <2>6, KeepsLock DEF DataOK
  <2> QED
    BY <1>2, <1>9, <1>10, <2>5, <2>6, <2>7, KeepsData
<1>11. CASE WriteFails(p) /\ pager' = [pager EXCEPT ![c] = u]
  <2>1. \A q \in Pages : \/ content'[q] = content[q]
                         \/ RecordIn(old, 1, u.synced, q)
    BY <1>2, <1>5, <1>8, <1>11 DEF WriteFails
  <2>2. Abandons(old, u)
    BY <1>2, <1>8 DEF Abandons
  <2> QED
    BY <1>1, <1>8, <1>9, <1>11, <2>1, <2>2, GiveUp
<1> QED
  BY <1>4, <1>10, <1>11

\* The commit: the file is what was expected, and no cache kept by another
\* connection is taken for up to date any more.
LEMMA SyncedFile ==
    ASSUME Inv, DataOK, NEW c \in Conns, pager[c].state = "commit",
           pager[c].dirty = {}, Sync,
           pager' = [pager EXCEPT ![c].state = "finished"],
           expected' = [p \in Pages |-> IF p \in Journaled(c)
                                        THEN expected[p] + 1 ELSE expected[p]]
    PROVE  DataOK'
<1> DEFINE old == pager[c]
           r == [old EXCEPT !.state = "finished"]
<1>1. /\ PagersSound /\ old \in Pagers /\ Sound(old)
      /\ content \in [Pages -> Counts]
      /\ ChangesOK(old, content, expected)
      /\ Recorded(old, Header)
      /\ old.vers = expected[Header] + 1
  BY Committing
<1>2. pager' = [pager EXCEPT ![c] = r]
  BY <1>1 DEF PagersSound
<1>3. expected \in [Pages -> Nat] /\ Header \in Pages
  BY DEF Inv, DatabaseSound, HistorySound, Pages
<1>4. \A p : p \in Journaled(c) <=> Recorded(old, p)
  BY DEF Journaled, Recorded, RecordIn
<1>5. \A p \in Pages : expected'[p] = IF Recorded(old, p) THEN expected[p] + 1
                                      ELSE expected[p]
  BY <1>4
<1>6. \A p \in DOMAIN old.cache : p \in Pages
  BY <1>1, CacheOf DEF Pagers
<1>7. \A p \in DOMAIN old.cache : old.cache[p] = expected'[p]
  BY <1>1, <1>5, <1>6 DEF ChangesOK
<1>8. \A p \in Pages : content[p] = expected'[p]
  <2>1. ASSUME NEW p \in Pages
        PROVE  content[p] = expected'[p]
    <3>1. CASE Recorded(old, p)
      <4>1. content[p] = old.cache[p] /\ p \in DOMAIN old.cache
        BY <1>1, <3>1 DEF ChangesOK, Written
      <4> QED
        BY <1>7, <4>1
    <3>2. CASE ~Recorded(old, p)
      BY <1>1, <1>5, <3>2 DEF ChangesOK, Written
    <3> QED
      BY <3>1, <3>2
  <2> QED
    BY <2>1
<1>9. content' = expected' /\ flash' = expected'
  <2>1. expected' = [p \in Pages |-> expected'[p]]
    OBVIOUS
  <2>2. content = [p \in Pages |-> content[p]]
    BY <1>1
  <2>3. content = expected'
    BY <1>8, <2>1, <2>2
  <2> QED
    BY <2>3 DEF Sync
<1>10. r.state = "finished" /\ r.cache = old.cache /\ r.vers = old.vers
  BY <1>1 DEF Pagers
<1> HIDE DEF r
<1>11. \A d \in Conns \ {c} : Compatible(r.state, pager[d].state)
  <2>1. r.state \in Exclusive /\ old.state \in Exclusive
    BY <1>10 DEF Exclusive, Writing
  <2> QED
    BY <2>1, KeepsLock DEF DataOK
<1>12. PagerOK(r, content', expected')
  <2>1. r.vers = expected'[Header]
    BY <1>1, <1>3, <1>5, <1>10
  <2>2. Fresh(r, expected')
    BY <1>7, <1>10 DEF Fresh
  <2> QED
    BY <1>10, <2>1, <2>2, ReaderPager
<1>13. ASSUME NEW d \in Conns \ {c}
       PROVE  PagerOK(pager[d], content', expected')
  <2>1. pager[d].state \in Unlocked
    BY <1>10, <1>11 DEF Compatible, Exclusive
  <2>2. OpenOK(pager[d], expected')
    <3>1. OpenOK(pager[d], expected)
      BY DEF DataOK, PagerOK
    <3>2. expected'[Header] = expected[Header] + 1 /\ expected[Header] \in Nat
      BY <1>1, <1>3, <1>5
    <3>3. pager[d].vers \in Nat
      BY <1>1, BoundAssumption DEF PagersSound, Pagers, Counts, Garbled
    <3> QED
      BY <3>1, <3>2, <3>3 DEF OpenOK
  <2>3. CASE pager[d].state = "open"
    BY <2>2, <2>3, OpenPager
  <2>4. CASE pager[d].state = "closed"
    BY <2>4
    DEF PagerOK, OpenOK, ReaderOK, WriterOK, UndoOK, UndoCacheOK
  <2> QED
    BY <2>1, <2>3, <2>4 DEF Unlocked
<1>14. LocksExclude'
  BY <1>1, <1>2, <1>11, LocksStay DEF DataOK
<1>15. FileIntact'
  BY <1>9 DEF FileIntact
<1>16. \A d \in Conns : PagerOK(pager'[d], content', expected')
  BY <1>1, <1>2, <1>12, <1>13 DEF PagersSound
<1> QED
  BY <1>14, <1>15, <1>16 DEF DataOK

\* The sync succeeds or fails.
LEMMA SyncFileData ==
    ASSUME Inv, DataOK, NEW c \in Conns, SyncFile(c)
    PROVE  DataOK'
<1> DEFINE u == [pager[c] EXCEPT !.state = "undo", !.next = 1]
<1>1. pager[c].state = "commit" /\ pager[c].dirty = {}
  BY DEF SyncFile, In
<1>2. CASE /\ pager' = [pager EXCEPT ![c].state = "undo", ![c].next = 1]
           /\ UNCHANGED <<storageVars, expected>>
  <2>1. /\ PagersSound /\ pager[c] \in Pagers
        /\ pager[c].synced = Len(pager[c].journal)
        /\ Len(pager[c].journal) \in Nat
    BY <1>1, Committing
  <2>2. pager' = [pager EXCEPT ![c] = u]
    BY <1>2, <2>1 DEF PagersSound
  <2>3. /\ u.state = "undo" /\ u.next = 1 /\ u.cache = pager[c].cache
        /\ u.journal = pager[c].journal /\ u.synced = pager[c].synced
    BY <2>1 DEF Pagers
  <2> HIDE DEF u
  <2>4. Abandons(pager[c], u)
    BY <2>1, <2>3 DEF Abandons
  <2>5. content' = content /\ expected' = expected
    BY <1>2 DEF storageVars
  <2> QED
    BY <1>1, <2>2, <2>3, <2>4, <2>5, GiveUp
<1> QED
  BY <1>1, <1>2, SyncedFile DEF SyncFile

\* The end of a transaction whose cache is as committed.
LEMMA EndedOK ==
    ASSUME Inv, NEW c \in Conns, NEW cache, NEW f, NEW e,
           pager[c].vers = e[Header],
           \A p \in DOMAIN cache : cache[p] = e[p]
    PROVE  /\ EndTransaction(c, cache).state = "reader"
           /\ PagerOK(EndTransaction(c, cache), f, e)
<1> DEFINE r == EndTransaction(c, cache)
<1>1. pager[c] \in Pagers
  BY DEF Inv, DatabaseSound, PagersSound
<1>2. r.state = "reader" /\ r.cache = cache /\ r.vers = pager[c].vers
  BY <1>1 DEF EndTransaction, Pagers
<1> HIDE DEF r
<1>3. PagerOK(r, f, e)
  BY <1>2, ReaderPager DEF Fresh
<1> QED
  BY <1>2, <1>3 DEF r

\* The end of a commit.
LEMMA FinishData ==
    ASSUME Inv, DataOK, NEW c \in Conns, Finish(c)
    PROVE  DataOK'
<1> DEFINE r == EndTransaction(c, pager[c].cache)
<1>1. PagersSound /\ pager[c].state = "finished"
  BY DEF Inv, DatabaseSound, Finish, In
<1>2. pager[c].vers = expected[Header] /\ Fresh(pager[c], expected)
  BY <1>1 DEF DataOK, PagerOK, ReaderOK
<1>3. r.state = "reader" /\ PagerOK(r, content, expected)
  BY <1>2, EndedOK DEF Fresh
<1>4. pager' = [pager EXCEPT ![c] = r]
  BY DEF Finish
<1> HIDE DEF r
<1>5. \A d \in Conns \ {c} : Compatible(r.state, pager[d].state)
  BY <1>1, <1>3, KeepsLock DEF DataOK, Unlocked
<1>6. UNCHANGED <<content, flash, expected>> /\ pager[c].state \notin Writing
  BY <1>1 DEF Finish, storageVars, Writing
<1> QED
  BY <1>1, <1>3, <1>4, <1>5, <1>6, KeepsData

-----------------------------------------------------------------------------
(* Rollback *)

\* The cache is restored, or the rollback of the file begins.
LEMMA RollbackData ==
    ASSUME Inv, DataOK, NEW c \in Conns, Rollback(c)
    PROVE  DataOK'
<1> DEFINE old == pager[c]
<1>1. PagersSound /\ old \in Pagers /\ Sound(old)
  BY DEF Inv, DatabaseSound, PagersSound
<1>2. UNCHANGED <<content, flash, expected>>
  BY DEF Rollback, storageVars
<1>3. CASE old.state \in {"locked", "cachemod"}
  <2> DEFINE cache == [p \in Cached(c) |-> IF p \in Journaled(c)
                         THEN Original(c, p) ELSE old.cache[p]]
             r == EndTransaction(c, cache)
  <2>1. pager' = [pager EXCEPT ![c] = r]
    BY <1>3 DEF Rollback, In
  <2>2. /\ ChangesOK(old, content, expected)
        /\ old.vers = expected[Header]
    BY <1>1, <1>3, LockedUnchanged
  <2>3. ASSUME NEW p \in Cached(c)
        PROVE  cache[p] = expected[p]
    <3>1. CASE p \in Journaled(c)
      <4>1. \E i \in 1..Len(old.journal) : old.journal[i].page = p
        BY <3>1 DEF Journaled
      <4>2. PICK i \in 1..Len(old.journal) :
              /\ old.journal[i].page = p
              /\ Original(c, p) = old.journal[i].orig
        BY <4>1 DEF Original
      <4> QED
        BY <2>2, <3>1, <4>2 DEF ChangesOK, OriginalsKept
    <3>2. CASE p \notin Journaled(c)
      <4>1. ~Recorded(old, p)
        BY <3>2 DEF Journaled, Recorded, RecordIn
      <4> QED
        BY <2>2, <3>2, <4>1 DEF ChangesOK, Cached
    <3> QED
      BY <3>1, <3>2
  <2>4. \A p \in DOMAIN cache : cache[p] = expected[p]
    BY <2>3
  <2> HIDE DEF cache
  <2>5. r.state = "reader" /\ PagerOK(r, content, expected)
    BY <2>2, <2>4, EndedOK
  <2> HIDE DEF r
  <2>6. \A d \in Conns \ {c} : Compatible(r.state, pager[d].state)
    BY <1>3, <2>5, KeepsLock DEF DataOK, Unlocked
  <2>7. old.state \notin Writing
    BY <1>3 DEF Writing
  <2> QED
    BY <1>1, <1>2, <2>1, <2>5, <2>6, <2>7, KeepsData
<1>4. CASE old.state = "dbmod"
  <2> DEFINE u == [old EXCEPT !.state = "undo", !.next = 1]
  <2>1. pager' = [pager EXCEPT ![c] = u]
    BY <1>1, <1>4 DEF Rollback, In, PagersSound
  <2>2. /\ u.state = "undo" /\ u.next = 1 /\ u.cache = old.cache
        /\ u.journal = old.journal /\ u.synced = old.synced
        /\ u.vers = old.vers
    BY <1>1 DEF Pagers
  <2> HIDE DEF u
  <2>3. old.synced \in old.synced..Len(old.journal)
    <3>1. old.synced \in Nat /\ Len(old.journal) \in Nat
          /\ old.synced <= Len(old.journal)
      BY <1>1 DEF Sound, Pagers
    <3> QED
      BY <3>1
  <2>4. Abandons(old, u)
    BY <2>2, <2>3 DEF Abandons
  <2> QED
    BY <1>2, <1>4, <2>1, <2>2, <2>4, GiveUp
<1> QED
  BY <1>3, <1>4 DEF Rollback, In

\* What the invariant says during a rollback.
LEMMA Undoing ==
    ASSUME Inv, DataOK, NEW c \in Conns, pager[c].state \in {"undo", "error"}
    PROVE  /\ PagersSound /\ pager[c] \in Pagers /\ Sound(pager[c])
           /\ content \in [Pages -> Counts] /\ expected \in [Pages -> Nat]
           /\ Len(pager[c].journal) \in Nat
           /\ pager[c].synced \in Nat
           /\ pager[c].synced <= Len(pager[c].journal)
           /\ pager[c].next \in Nat \ {0}
           /\ UndoOK(pager[c], content, expected)
           /\ UndoCacheOK(pager[c], expected)
<1>1. PagersSound /\ pager[c] \in Pagers /\ Sound(pager[c])
  BY DEF Inv, DatabaseSound, PagersSound
<1>2. content \in [Pages -> Counts] /\ expected \in [Pages -> Nat]
  BY DEF Inv, DatabaseSound, StorageSound, HistorySound
<1>3. /\ Len(pager[c].journal) \in Nat
      /\ pager[c].synced \in Nat
      /\ pager[c].synced <= Len(pager[c].journal)
      /\ pager[c].next \in Nat \ {0}
  BY <1>1 DEF Sound, Pagers
<1>4. UndoOK(pager[c], content, expected) /\ UndoCacheOK(pager[c], expected)
  BY DEF DataOK, PagerOK
<1> QED
  BY <1>1, <1>2, <1>3, <1>4

\* A rollback starts over from the first record.
LEMMA RestartOK ==
    ASSUME NEW old \in Pagers, NEW r, NEW f, NEW e, NEW g,
           old.state = "undo", UndoOK(old, f, e), old.next \in Nat \ {0},
           r.state = "error", r.next = 1,
           r.journal = old.journal, r.synced = old.synced,
           \A q \in Pages : \/ g[q] = f[q]
                            \/ RecordIn(old, old.next, old.synced, q)
    PROVE  PagerOK(r, g, e)
<1>1. ASSUME NEW q, RecordIn(old, old.next, old.synced, q)
      PROVE  RecordIn(r, r.next, r.synced, q)
  <2>1. PICK i \in old.next..old.synced : old.journal[i].page = q
    BY <1>1 DEF RecordIn
  <2>2. i \in 1..r.synced
    <3>1. old.synced \in Nat
      BY DEF Pagers
    <3> QED
      BY <2>1, <3>1
  <2> QED
    BY <2>1, <2>2 DEF RecordIn
<1>2. \A q \in Pages : f[q] = e[q] \/ RecordIn(r, r.next, r.synced, q)
  BY <1>1 DEF UndoOK
<1>3. \A q \in Pages : g[q] = e[q] \/ RecordIn(r, r.next, r.synced, q)
  BY <1>1, <1>2
<1>4. UndoOK(r, g, e)
  BY <1>3 DEF UndoOK, OriginalsKept
<1> QED
  BY <1>4, UndoPager DEF UndoCacheOK

\* A rollback that fails, unless it is the second time.
LEMMA UndoFailsData ==
    ASSUME Inv, Calm', DataOK, NEW c \in Conns,
           pager[c].state \in {"undo", "error"}, UndoFails(c),
           expected' = expected,
           \A q \in Pages : \/ content'[q] = content[q]
                            \/ RecordIn(pager[c], pager[c].next,
                                        pager[c].synced, q)
    PROVE  DataOK'
<1> DEFINE old == pager[c]
           r == InError(c)
<1>1. old.state = "undo" /\ pager' = [pager EXCEPT ![c] = r]
  BY DEF UndoFails, Calm, In
<1>2. /\ PagersSound /\ old \in Pagers /\ old.next \in Nat \ {0}
      /\ UndoOK(old, content, expected)
  BY Undoing
<1>3. /\ r.state = "error" /\ r.next = 1
      /\ r.journal = old.journal /\ r.synced = old.synced
  BY <1>2 DEF InError, Pagers
<1> HIDE DEF r
<1>4. PagerOK(r, content', expected)
  BY <1>1, <1>2, <1>3, RestartOK
<1>5. /\ r.state \in Writing /\ r.state \in Exclusive
      /\ old.state \in Exclusive
  BY <1>1, <1>3 DEF Exclusive, Writing
<1>6. \A d \in Conns \ {c} : Compatible(r.state, pager[d].state)
  BY <1>5, KeepsLock DEF DataOK
<1> QED
  BY <1>1, <1>2, <1>4, <1>5, <1>6, KeepsData

\* From old to r record i is restored.
Restores(old, r, i) ==
    LET rec == old.journal[i]
    IN  /\ r.state = old.state
        /\ r.next = i + 1
        /\ r.journal = old.journal
        /\ r.synced = old.synced
        /\ DOMAIN r.cache = DOMAIN old.cache
        /\ \A q \in DOMAIN old.cache :
             r.cache[q] = IF q = rec.page THEN rec.orig ELSE old.cache[q]
        /\ old.state = "undo" => Header \in DOMAIN old.cache
        /\ r.vers = IF rec.page = Header /\ Header \in DOMAIN old.cache
                    THEN rec.orig ELSE old.vers

\* One record restored.
LEMMA RestoredOK ==
    ASSUME NEW old \in Pagers, NEW r, NEW f, NEW e, NEW g,
           NEW i \in 1..Len(old.journal), i = old.next,
           old.state \in {"undo", "error"},
           UndoOK(old, f, e), UndoCacheOK(old, e),
           Restores(old, r, i),
           IF i <= old.synced
           THEN g = [f EXCEPT ![old.journal[i].page] = old.journal[i].orig]
           ELSE g = f,
           f \in [Pages -> Counts]
    PROVE  PagerOK(r, g, e)
<1> DEFINE rec == old.journal[i]
<1>1. rec.orig = e[rec.page]
  BY DEF UndoOK, OriginalsKept
<1>2. Len(old.journal) \in Nat /\ old.synced \in Nat
  BY DEF Pagers
<1>3. ASSUME NEW q, NEW b \in Nat, RecordIn(old, i, b, q), q # rec.page
      PROVE  RecordIn(old, i + 1, b, q)
  <2>1. PICK j \in i..b : old.journal[j].page = q
    BY <1>3 DEF RecordIn
  <2>2. j # i
    BY <1>3, <2>1
  <2>3. j \in (i + 1)..b
    BY <2>1, <2>2
  <2> QED
    BY <2>1, <2>3 DEF RecordIn
<1>4. \A q, a, b : RecordIn(r, a, b, q) <=> RecordIn(old, a, b, q)
  BY DEF RecordIn, Restores
<1> HIDE DEF rec
<1>5. ASSUME NEW q \in Pages
      PROVE  g[q] = e[q] \/ RecordIn(r, r.next, r.synced, q)
  <2>1. CASE q = rec.page /\ i <= old.synced
    BY <1>1, <2>1 DEF rec
  <2>2. CASE q # rec.page
    <3>1. g[q] = f[q]
      BY <2>2 DEF rec
    <3>2. f[q] = e[q] \/ RecordIn(old, i, old.synced, q)
      BY DEF UndoOK
    <3>3. r.next = i + 1 /\ r.synced = old.synced
      BY DEF Restores
    <3> QED
      BY <1>2, <1>3, <1>4, <2>2, <3>1, <3>2, <3>3
  <2>3. CASE ~(i <= old.synced)
    <3>1. ~RecordIn(old, i, old.synced, q)
      BY <1>2, <2>3 DEF RecordIn
    <3>2. f[q] = e[q]
      BY <3>1 DEF UndoOK
    <3> QED
      BY <2>3, <3>2
  <2> QED
    BY <2>1, <2>2, <2>3
<1>6. UndoOK(r, g, e)
  <2>1. OriginalsKept(r, e)
    BY DEF UndoOK, OriginalsKept, Restores
  <2> QED
    BY <1>5, <2>1 DEF UndoOK
<1>7. ASSUME old.state = "undo", NEW q \in DOMAIN old.cache
      PROVE  r.cache[q] = e[q] \/ RecordIn(r, r.next, Len(r.journal), q)
  <2>1. CASE q = rec.page
    BY <1>1, <1>7, <2>1 DEF Restores, rec
  <2>2. CASE q # rec.page
    <3>1. r.cache[q] = old.cache[q]
      BY <1>7, <2>2 DEF Restores, rec
    <3>2. old.cache[q] = e[q] \/ RecordIn(old, i, Len(old.journal), q)
      BY <1>7 DEF UndoCacheOK
    <3>3. r.next = i + 1 /\ r.journal = old.journal
      BY DEF Restores
    <3> QED
      BY <1>2, <1>3, <1>4, <2>2, <3>1, <3>2, <3>3
  <2> QED
    BY <2>1, <2>2
<1>8. ASSUME old.state = "undo", Header \in DOMAIN old.cache
      PROVE  r.vers = e[Header] \/ RecordIn(r, r.next, Len(r.journal), Header)
  <2>1. CASE rec.page = Header
    BY <1>1, <1>8, <2>1 DEF Restores, rec
  <2>2. CASE rec.page # Header
    <3>1. r.vers = old.vers
      BY <2>2 DEF Restores, rec
    <3>2. old.vers = e[Header] \/ RecordIn(old, i, Len(old.journal), Header)
      BY <1>8 DEF UndoCacheOK
    <3>3. r.next = i + 1 /\ r.journal = old.journal
      BY DEF Restores
    <3> QED
      BY <1>2, <1>3, <1>4, <2>2, <3>1, <3>2, <3>3
  <2> QED
    BY <2>1, <2>2
<1>9. UndoCacheOK(r, e)
  BY <1>7, <1>8 DEF UndoCacheOK, Restores
<1> QED
  BY <1>6, <1>9, UndoPager DEF Restores

\* A record goes back to the file and the cache, or the write fails.
LEMMA UndoPageData ==
    ASSUME Inv, Calm', DataOK, NEW c \in Conns, UndoPage(c)
    PROVE  DataOK'
<1> DEFINE old == pager[c]
           i == old.next
           rec == old.journal[i]
           cache == IF rec.page \in DOMAIN old.cache
                    THEN [old.cache EXCEPT ![rec.page] = rec.orig]
                    ELSE old.cache
           vers == IF rec.page = Header /\ Header \in Cached(c)
                   THEN rec.orig ELSE old.vers
           r == [old EXCEPT !.next = i + 1, !.cache = cache, !.vers = vers]
<1>1. old.state \in {"undo", "error"} /\ i <= Len(old.journal)
  BY DEF UndoPage, In
<1>2. /\ PagersSound /\ old \in Pagers /\ Sound(old)
      /\ content \in [Pages -> Counts]
      /\ Len(old.journal) \in Nat /\ old.synced \in Nat
      /\ i \in Nat \ {0}
      /\ UndoOK(old, content, expected) /\ UndoCacheOK(old, expected)
  BY <1>1, Undoing
<1>3. i \in 1..Len(old.journal)
  BY <1>1, <1>2
<1>4. rec.page \in Pages
  BY <1>2, <1>3, ThePager
<1>5. \/ /\ IF i <= old.synced THEN Write(rec.page, rec.orig)
            ELSE UNCHANGED storageVars
         /\ pager' = [pager EXCEPT ![c] = r]
      \/ /\ i <= old.synced
         /\ WriteFails(rec.page)
         /\ UndoFails(c)
  BY <1>2 DEF UndoPage, IsSynced, PagersSound
<1>6. expected' = expected
  BY DEF UndoPage
<1>7. CASE /\ IF i <= old.synced THEN Write(rec.page, rec.orig)
              ELSE UNCHANGED storageVars
           /\ pager' = [pager EXCEPT ![c] = r]
  <2>1. IF i <= old.synced
        THEN content' = [content EXCEPT ![rec.page] = rec.orig]
        ELSE content' = content
    BY <1>7 DEF Write, storageVars
  <2>2. /\ DOMAIN cache = DOMAIN old.cache
        /\ \A q \in DOMAIN old.cache :
             cache[q] = IF q = rec.page THEN rec.orig ELSE old.cache[q]
    <3> HIDE DEF rec
    <3>1. old.cache = [q \in DOMAIN old.cache |-> old.cache[q]]
      BY <1>2, CacheOf DEF Pagers
    <3>2. CASE rec.page \in DOMAIN old.cache
      BY <3>1, <3>2
    <3>3. CASE rec.page \notin DOMAIN old.cache
      BY <3>1, <3>3
    <3> QED
      BY <3>2, <3>3
  <2>3. old.state = "undo" => Header \in DOMAIN old.cache
    BY <1>2 DEF Sound
  <2>4. vers = IF rec.page = Header /\ Header \in DOMAIN old.cache
               THEN rec.orig ELSE old.vers
    BY DEF Cached
  <2> HIDE DEF cache, vers
  <2>5. /\ r.state = old.state /\ r.next = i + 1 /\ r.journal = old.journal
        /\ r.synced = old.synced /\ r.cache = cache /\ r.vers = vers
    BY <1>2 DEF Pagers
  <2> HIDE DEF r
  <2>6. Restores(old, r, i)
    BY <2>2, <2>3, <2>4, <2>5 DEF Restores
  <2>7. PagerOK(r, content', expected)
    BY <1>1, <1>2, <1>3, <2>1, <2>6, RestoredOK
  <2>8. /\ r.state \in Writing /\ r.state \in Exclusive
        /\ old.state \in Exclusive
    BY <1>1, <2>5 DEF Exclusive, Writing
  <2>9. \A d \in Conns \ {c} : Compatible(r.state, pager[d].state)
    BY <2>8, KeepsLock DEF DataOK
  <2> QED
    BY <1>2, <1>6, <1>7, <2>7, <2>8, <2>9, KeepsData
<1>8. CASE /\ i <= old.synced
           /\ WriteFails(rec.page)
           /\ UndoFails(c)
  <2>1. RecordIn(old, i, old.synced, rec.page)
    BY <1>2, <1>8 DEF RecordIn
  <2>2. content' = content \/ content' = [content EXCEPT ![rec.page] = Garbled]
    BY <1>8 DEF WriteFails
  <2> HIDE DEF rec
  <2>3. \A q \in Pages : content'[q] = content[q] \/ q = rec.page
    BY <1>2, <2>2
  <2>4. \A q \in Pages : \/ content'[q] = content[q]
                         \/ RecordIn(old, i, old.synced, q)
    BY <2>1, <2>3
  <2> QED
    BY <1>1, <1>6, <1>8, <2>4, UndoFailsData
<1> QED
  BY <1>5, <1>7, <1>8

\* A connection just opened has an empty cache.
LEMMA JustOpened ==
    ASSUME NEW mode, NEW f, NEW e, e \in [Pages -> Nat]
    PROVE  Opened(mode).state = "open" /\ PagerOK(Opened(mode), f, e)
<1> DEFINE r == Opened(mode)
<1>1. r.state = "open" /\ r.vers = 0 /\ DOMAIN r.cache = {}
  BY DEF Opened, NoCache
<1>2. e[Header] \in Nat
  BY DEF Pages
<1> HIDE DEF r
<1>3. PagerOK(r, f, e)
  BY <1>1, <1>2, OpenPager DEF OpenOK, Fresh
<1> QED
  BY <1>1, <1>3 DEF r

\* With all records restored the file and the cache are as committed.
LEMMA UndoDoneData ==
    ASSUME Inv, Calm', DataOK, NEW c \in Conns, UndoDone(c)
    PROVE  DataOK'
<1> DEFINE old == pager[c]
<1>1. old.state \in {"undo", "error"} /\ old.next > Len(old.journal)
  BY DEF UndoDone, In
<1>2. /\ PagersSound /\ old \in Pagers
      /\ content \in [Pages -> Counts] /\ expected \in [Pages -> Nat]
      /\ Len(old.journal) \in Nat /\ old.synced \in Nat
      /\ old.synced <= Len(old.journal)
      /\ old.next \in Nat \ {0}
      /\ UndoOK(old, content, expected) /\ UndoCacheOK(old, expected)
  BY <1>1, Undoing
<1>3. /\ \A q : ~RecordIn(old, old.next, old.synced, q)
      /\ \A q : ~RecordIn(old, old.next, Len(old.journal), q)
  BY <1>1, <1>2 DEF RecordIn
<1>4. \A q \in Pages : content[q] = expected[q]
  BY <1>1, <1>2, <1>3 DEF UndoOK
<1>5. content = expected
  <2>1. content = [q \in Pages |-> content[q]]
    BY <1>2
  <2>2. expected = [q \in Pages |-> expected[q]]
    BY <1>2
  <2> QED
    BY <1>4, <2>1, <2>2
<1>6. expected' = expected
  BY DEF UndoDone
<1>7. CASE /\ Sync
           /\ pager' = [pager EXCEPT ![c] =
                IF old.state = "undo" THEN EndTransaction(c, old.cache)
                ELSE Opened(old.mode)]
  <2>1. content' = expected /\ flash' = expected
    BY <1>5, <1>7 DEF Sync
  <2>2. CASE old.state = "undo"
    <3> DEFINE r == EndTransaction(c, old.cache)
    <3>1. pager' = [pager EXCEPT ![c] = r]
      BY <1>7, <2>2
    <3>2. /\ old.vers = expected[Header]
          /\ \A q \in DOMAIN old.cache : old.cache[q] = expected[q]
      BY <1>2, <1>3, <2>2 DEF UndoCacheOK
    <3>3. r.state = "reader" /\ PagerOK(r, content', expected)
      BY <3>2, EndedOK
    <3> HIDE DEF r
    <3>4. \A d \in Conns \ {c} : Compatible(r.state, pager[d].state)
      BY <2>2, <3>3, KeepsLock DEF DataOK, Unlocked
    <3>5. content' = content
      BY <1>5, <2>1
    <3> QED
      BY <1>2, <1>6, <2>1, <3>1, <3>3, <3>4, <3>5, KeepsData
  <2>3. CASE old.state = "error"
    <3> DEFINE r == Opened(old.mode)
    <3>1. pager' = [pager EXCEPT ![c] = r]
      BY <1>7, <2>3
    <3>2. r.state = "open" /\ PagerOK(r, content', expected)
      BY <1>2, JustOpened
    <3> HIDE DEF r
    <3>3. \A d \in Conns \ {c} : Compatible(r.state, pager[d].state)
      BY <3>2, KeepsLock DEF DataOK, Unlocked
    <3>4. content' = content
      BY <1>5, <2>1
    <3> QED
      BY <1>2, <1>6, <2>1, <3>1, <3>2, <3>3, <3>4, KeepsData
  <2> QED
    BY <1>1, <2>2, <2>3
<1>8. CASE UndoFails(c) /\ UNCHANGED storageVars
  <2>1. content' = content
    BY <1>8 DEF storageVars
  <2> QED
    BY <1>1, <1>6, <1>8, <2>1, UndoFailsData
<1> QED
  BY <1>7, <1>8 DEF UndoDone

\* Every step of a connection.
LEMMA DatabaseNextData ==
    ASSUME Inv, Calm', DataOK, DatabaseNext
    PROVE  DataOK'
BY SharedLockData, GetPageData, EndReadData, BeginData, WritePageData,
   SpillData, CommitStartData, WriteBackData, SyncFileData, FinishData,
   RollbackData, UndoPageData, UndoDoneData
DEF DatabaseNext

-----------------------------------------------------------------------------
(* The library's core *)

\* What was disturbed or torn stays so.
LEMMA CalmBefore ==
    ASSUME DatabaseNext, Calm'
    PROVE  Calm
<1>1. PICK c \in Conns :
        \/ SharedLock(c) \/ EndRead(c) \/ Begin(c) \/ CommitStart(c)
        \/ WriteBack(c) \/ SyncFile(c) \/ Finish(c) \/ Rollback(c)
        \/ UndoPage(c) \/ UndoDone(c)
        \/ \E p \in Pages : GetPage(c, p)
        \/ \E p \in DataPages : WritePage(c, p) \/ Spill(c, p)
  BY DEF DatabaseNext
<1>2. \/ disturbed' = disturbed
      \/ \E lock : disturbed' = (disturbed \/ \E d \in Conns \ {c} :
                                                LockOf(d) \in Excluding(lock))
  BY <1>1 DEF SharedLock, EndRead, Begin, CommitStart, WriteBack, SyncFile,
     Finish, Rollback, UndoPage, UndoDone, GetPage, WritePage, Spill, Lock
<1>3. disturbed => disturbed'
  BY <1>2
<1>4. torn' = torn \/ torn' = TRUE
  BY <1>1 DEF SharedLock, EndRead, Begin, CommitStart, WriteBack, SyncFile,
     Finish, Rollback, UndoPage, UndoDone, UndoFails, GetPage, WritePage, Spill
<1>5. torn => torn'
  BY <1>4
<1> QED
  BY <1>3, <1>5 DEF Calm

\* A closed pager takes no step.
LEMMA ClosedStays ==
    ASSUME PagersSound, DatabaseNext, NEW d \in Conns,
           pager[d].state = "closed"
    PROVE  pager'[d] = pager[d]
<1>1. PICK c \in Conns :
        \/ SharedLock(c) \/ EndRead(c) \/ Begin(c) \/ CommitStart(c)
        \/ WriteBack(c) \/ SyncFile(c) \/ Finish(c) \/ Rollback(c)
        \/ UndoPage(c) \/ UndoDone(c)
        \/ \E p \in Pages : GetPage(c, p)
        \/ \E p \in DataPages : WritePage(c, p) \/ Spill(c, p)
  BY DEF DatabaseNext
<1>2. pager[c].state # "closed"
  BY <1>1 DEF SharedLock, EndRead, Begin, CommitStart, WriteBack, SyncFile,
     Finish, Rollback, UndoPage, UndoDone, GetPage, WritePage, Spill, In, Active
<1>3. c # d
  BY <1>2
<1>4. pager'[d] = pager[d]
  <2> USE <1>3 DEF PagersSound
  <2>1. CASE SharedLock(c)
    BY <2>1 DEF SharedLock
  <2>2. CASE EndRead(c) \/ Begin(c) \/ Finish(c)
    BY <2>2 DEF EndRead, Begin, Finish
  <2>3. CASE CommitStart(c)
    BY <2>3 DEF CommitStart
  <2>4. CASE WriteBack(c)
    BY <2>4 DEF WriteBack
  <2>5. CASE SyncFile(c)
    BY <2>5 DEF SyncFile
  <2>6. CASE Rollback(c)
    BY <2>6 DEF Rollback
  <2>7. CASE UndoPage(c)
    BY <2>7 DEF UndoPage, UndoFails
  <2>8. CASE UndoDone(c)
    BY <2>8 DEF UndoDone, UndoFails
  <2>9. CASE \E p \in Pages : GetPage(c, p)
    BY <2>9 DEF GetPage
  <2>10. CASE \E p \in DataPages : WritePage(c, p)
    BY <2>10 DEF WritePage
  <2>11. CASE \E p \in DataPages : Spill(c, p)
    BY <2>11 DEF Spill
  <2> QED
    BY <1>1, <2>1, <2>2, <2>3, <2>4, <2>5, <2>6, <2>7, <2>8, <2>9, <2>10, <2>11
<1> QED
  BY <1>4

\* A closed pager claims nothing.
LEMMA ClosedOK ==
    /\ Closed.state = "closed"
    /\ \A f, e : PagerOK(Closed, f, e)
<1> DEFINE r == Closed
<1>1. r.state = "closed"
  BY DEF Closed, Opened
<1> HIDE DEF r
<1>2. \A f, e : PagerOK(r, f, e)
  BY <1>1 DEF PagerOK, OpenOK, ReaderOK, WriterOK, UndoOK, UndoCacheOK
<1> QED
  BY <1>1, <1>2 DEF r

\* An open replaces a closed pager.
LEMMA OpenData ==
    ASSUME Inv, DataInv, NEW c \in Conns, via[c] = "none", NEW driver,
           NEW there, NEW mode,
           OpenSucceeds(c, driver, there, mode) \/ OpenFails(driver, there),
           driver # "none",
           UNCHANGED <<content, flash, expected, disturbed, torn>>
    PROVE  DataInv'
<1> DEFINE r == Opened(mode)
<1>1. /\ PagersSound /\ expected \in [Pages -> Nat]
      /\ via \in [Conns -> {"none", "builtin", "driver"}]
  BY DEF Inv, DatabaseSound, HistorySound, RegistrationSound
<1>2. pager[c].state = "closed"
  BY DEF DataInv, NotOpened
<1>3. pager' = pager \/ (pager' = [pager EXCEPT ![c] = r]
                         /\ via' = [via EXCEPT ![c] = driver])
  BY DEF OpenSucceeds, OpenFails
<1>4. via' = via \/ via' = [via EXCEPT ![c] = driver]
  BY DEF OpenSucceeds, OpenFails
<1>5. NotOpened'
  BY <1>1, <1>3, <1>4 DEF DataInv, NotOpened, PagersSound
<1>6. ASSUME Calm'
      PROVE  DataOK'
  <2>1. DataOK
    BY <1>6 DEF DataInv, Calm
  <2>2. CASE pager' = pager
    BY <2>1, <2>2 DEF DataOK, LocksExclude, FileIntact
  <2>3. CASE pager' = [pager EXCEPT ![c] = r]
    <3>1. r.state = "open" /\ PagerOK(r, content', expected)
      BY <1>1, JustOpened
    <3> HIDE DEF r
    <3>2. \A d \in Conns \ {c} : Compatible(r.state, pager[d].state)
      BY <2>1, <3>1, KeepsLock DEF DataOK, Unlocked
    <3>3. pager[c].state \notin Writing
      BY <1>2 DEF Writing
    <3> QED
      BY <1>1, <2>1, <2>3, <3>1, <3>2, <3>3, KeepsData
  <2> QED
    BY <1>3, <2>2, <2>3
<1> QED
  BY <1>5, <1>6 DEF DataInv

\* Steps that leave files and connections alone.
LEMMA SameData ==
    ASSUME DataInv,
           UNCHANGED <<content, flash, pager, expected, disturbed, torn, via>>
    PROVE  DataInv'
<1>1. NotOpened'
  BY DEF DataInv, NotOpened
<1>2. ASSUME Calm'
      PROVE  DataOK'
  <2>1. DataOK
    BY <1>2 DEF DataInv, Calm
  <2> QED
    BY <2>1 DEF DataOK, LocksExclude, FileIntact
<1> QED
  BY <1>1, <1>2 DEF DataInv

\* sqlite_micro_open.
LEMMA MicroOpenData ==
    ASSUME Inv, DataInv, NEW c \in Conns, NEW config \in BOOLEAN,
           MicroOpen(c, config)
    PROVE  DataInv'
<1>1. /\ via[c] = "none"
      /\ UNCHANGED <<content, flash, expected, disturbed, torn>>
  BY DEF MicroOpen
<1>2. dflt' # "none"
  <2>1. current' = current /\ initialized' \in BOOLEAN
        /\ ((initialized /\ UNCHANGED <<lib, dflt>>) \/ LibInit)
    BY DEF MicroOpen
  <2>2. dflt' \in {"builtin", "driver"}
    BY <2>1, LibInitSound DEF Inv
  <2> QED
    BY <2>2
<1>3. CASE UNCHANGED <<files, given, pager, via>>
  BY <1>1, <1>3, SameData
<1>4. CASE \/ OpenFails(dflt', mounted')
           \/ \E mode \in ModeSet : OpenSucceeds(c, dflt', mounted', mode)
  BY <1>1, <1>2, <1>4, OpenData
<1> QED
  BY <1>3, <1>4 DEF MicroOpen

\* sqlite3_open.
LEMMA PlainOpenData ==
    ASSUME Inv, DataInv, NEW c \in Conns, PlainOpen(c)
    PROVE  DataInv'
<1>1. /\ via[c] = "none"
      /\ UNCHANGED <<content, flash, expected, disturbed, torn>>
      /\ OpenFails(dflt', mounted) \/ OpenSucceeds(c, dflt', mounted, "DELETE")
  BY DEF PlainOpen
<1>2. dflt' # "none"
  <2>1. current' = current /\ initialized' \in BOOLEAN /\ LibInit
    BY DEF PlainOpen, Inv, RegistrationSound
  <2>2. dflt' \in {"builtin", "driver"}
    BY <2>1, LibInitSound DEF Inv
  <2> QED
    BY <2>2
<1> QED
  BY <1>1, <1>2, OpenData

\* sqlite3_close.
LEMMA CloseData ==
    ASSUME Inv, DataInv, NEW c \in Conns, Close(c)
    PROVE  DataInv'
<1>1. PagersSound /\ pager[c].state \in Unlocked
  BY DEF Inv, DatabaseSound, Close, In, Unlocked
<1>2. pager' = [pager EXCEPT ![c] = Closed]
  BY DEF Close
<1>3. NotOpened'
  BY <1>1, <1>2 DEF Close, DataInv, NotOpened, PagersSound, Closed, Opened,
                    Inv, RegistrationSound
<1>4. ASSUME Calm'
      PROVE  DataOK'
  <2>1. DataOK
    BY <1>4 DEF Close, DataInv, Calm
  <2>2. Closed.state = "closed" /\ PagerOK(Closed, content', expected)
    BY ClosedOK
  <2>3. \A d \in Conns \ {c} : Compatible(Closed.state, pager[d].state)
    BY <2>1, <2>2, KeepsLock DEF DataOK, Unlocked
  <2>4. pager[c].state \notin Writing /\ UNCHANGED <<content, flash, expected>>
    BY <1>1 DEF Unlocked, Writing, Close, storageVars
  <2> QED
    BY <1>1, <1>2, <2>1, <2>2, <2>3, <2>4, KeepsData
<1> QED
  BY <1>3, <1>4 DEF DataInv

\* A power loss in the middle of no write leaves the file as committed, since it
\* was synced.
LEMMA PowerLossData ==
    ASSUME Inv, DataInv, PowerLoss
    PROVE  DataInv'
<1>1. pager' = [c \in Conns |-> Closed]
  BY DEF PowerLoss
<1>2. NotOpened'
  BY <1>1, ClosedOK DEF NotOpened
<1>3. ASSUME Calm'
      PROVE  DataOK'
  <2>1. Calm /\ \A c \in Conns : pager[c].state \notin Writing
    BY <1>3 DEF PowerLoss, Calm, In
  <2>2. content = expected /\ flash = expected
    BY <2>1 DEF DataInv, DataOK, FileIntact
  <2>3. content' \in [Pages -> {content[p] : p \in Pages}
                               \cup {flash[p] : p \in Pages}]
        /\ \A p \in Pages : content'[p] = expected[p]
    BY <2>2 DEF PowerLoss, LosePower
  <2>4. content' = expected
    <3>1. expected = [p \in Pages |-> expected[p]]
      BY DEF Inv, DatabaseSound, HistorySound
    <3>2. content' = [p \in Pages |-> content'[p]]
      BY <2>3
    <3> QED
      BY <2>3, <3>1, <3>2
  <2>5. expected' = expected /\ flash' = content'
    BY DEF PowerLoss, LosePower
  <2>6. LocksExclude'
    BY <1>1, ClosedOK
    DEF LocksExclude, Compatible, Unlocked, Exclusive, Writing, Reserved
  <2>7. \A c \in Conns : PagerOK(pager'[c], content', expected')
    BY <1>1, ClosedOK
  <2>8. FileIntact'
    BY <2>4, <2>5 DEF FileIntact
  <2> QED
    BY <2>6, <2>7, <2>8 DEF DataOK
<1> QED
  BY <1>2, <1>3 DEF DataInv

\* Every step of a connection, the closed ones included.
LEMMA DatabaseNextKeeps ==
    ASSUME Inv, DataInv, DatabaseNext, UNCHANGED lifeVars
    PROVE  DataInv'
<1>1. PagersSound
  BY DEF Inv, DatabaseSound
<1>2. NotOpened'
  BY <1>1, ClosedStays DEF DataInv, NotOpened, lifeVars
<1>3. Calm' => DataOK'
  BY CalmBefore, DatabaseNextData DEF DataInv
<1> QED
  BY <1>2, <1>3 DEF DataInv

\* The board starts for the first time.
LEMMA DataInit == Init => DataInv
<1> SUFFICES ASSUME Init PROVE DataInv
  OBVIOUS
<1>1. pager = [c \in Conns |-> Closed]
  BY DEF Init, DatabaseInit
<1>2. NotOpened
  BY <1>1, ClosedOK DEF NotOpened
<1>3. LocksExclude
  BY <1>1, ClosedOK
  DEF LocksExclude, Compatible, Unlocked, Exclusive, Writing, Reserved
<1>4. FileIntact
  BY DEF Init, DatabaseInit, FileIntact
<1>5. \A c \in Conns : PagerOK(pager[c], content, expected)
  BY <1>1, ClosedOK
<1> QED
  BY <1>2, <1>3, <1>4, <1>5 DEF DataInv, DataOK

\* Every step of the library.
LEMMA DataNext == Inv /\ DataInv /\ [Next]_vars => DataInv'
<1> SUFFICES ASSUME Inv, DataInv, [Next]_vars PROVE DataInv'
  OBVIOUS
<1>1. CASE MicroInit \/ RegisterVfs \/ Mount \/ Shutdown \/ UNCHANGED vars
  BY <1>1, SameData DEF MicroInit, RegisterVfs, Mount, Shutdown, vars,
     storageVars, dbVars, lifeVars
<1> QED
  BY <1>1, DatabaseNextKeeps, MicroOpenData, PlainOpenData, CloseData,
     PowerLossData
  DEF Next

\* The invariant holds throughout.
LEMMA DataInvariance == Spec => []DataInv
BY DataInit, DataNext, Invariance, PTL DEF Spec

\* Whenever no connection is writing, the file holds exactly the committed
\* transactions, in memory and on the flash, for any pages and any number of
\* connections, whatever writes and syncs failed, as long as no lock was granted
\* that another one excludes and no commit was cut short.
THEOREM CommittedStays == Spec => []CommittedIntact
<1>1. DataInv => CommittedIntact
  BY DEF DataInv, Calm, DataOK, FileIntact, CommittedIntact, In
<1> QED
  BY <1>1, DataInvariance, PTL

\* Under the same conditions a connection reads what was committed last, also
\* from pages it cached before other connections' transactions.
THEOREM ReadersAreCurrent == Spec => []ReadersSeeCommitted
<1>1. Inv /\ DataInv => ReadersSeeCommitted
  <2> SUFFICES ASSUME Inv, DataInv, ~disturbed /\ ~torn, NEW c \in Conns,
                      In(c, {"reader", "locked", "cachemod"}),
                      NEW p \in Cached(c) \ Journaled(c)
               PROVE  pager[c].cache[p] = expected[p]
    BY DEF ReadersSeeCommitted
  <2>1. PagerOK(pager[c], content, expected)
    BY DEF DataInv, Calm, DataOK
  <2>2. CASE pager[c].state \in {"reader", "locked"}
    BY <2>1, <2>2 DEF PagerOK, ReaderOK, Fresh, Cached
  <2>3. CASE pager[c].state = "cachemod"
    <3>1. ~Recorded(pager[c], p)
      BY DEF Recorded, RecordIn, Journaled
    <3> QED
      BY <2>1, <2>3, <3>1 DEF PagerOK, WriterOK, ChangesOK, Cached
  <2> QED
    BY <2>2, <2>3 DEF In
<1> QED
  BY <1>1, Invariance, DataInvariance, PTL
=============================================================================
