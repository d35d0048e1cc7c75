---------------------------- MODULE StoreProofs -----------------------------
(***************************************************************************)
(* The connections of a program implement TransactionalStore, for any      *)
(* pages, number of connections and boards: what a transaction reads, page *)
(* by page from cache and file, is the database as committed last and its  *)
(* own updates, and the sync of the file commits them all at once.         *)
(***************************************************************************)
EXTENDS DatabaseProofs

\* The states of a pager in a transaction: without updates to commit, with some.
Plain == {"reader", "locked", "finished"}
Changing == {"cachemod", "dbmod", "commit"}
InTransaction == Plain \cup Changing

\* What a transaction is to see, by what its pager has journaled.
Promise(r, e) ==
    IF r.state \in Plain THEN e
    ELSE IF r.state \in Changing
    THEN [p \in Pages |-> IF Recorded(r, p) THEN e[p] + 1 ELSE e[p]]
    ELSE NoCache

\* What the pager r reads with the file f.
ReadBy(r, f) ==
    IF r.state \in InTransaction
    THEN [p \in Pages |-> IF p \in DOMAIN r.cache THEN r.cache[p] ELSE f[p]]
    ELSE NoCache

Views == [c \in Conns |-> View(c)]

\* A step of connection c between two states in which the invariants hold.
StepOf(c) ==
    /\ Inv /\ DataInv /\ Calm
    /\ Inv' /\ DataInv' /\ Calm'
    /\ \A d \in Conns \ {c} : pager'[d] = pager[d]

-----------------------------------------------------------------------------
(* What transactions see *)

\* A pager as it should be reads what is promised.
LEMMA PromiseKept ==
    ASSUME NEW r, NEW f, NEW e \in [Pages -> Nat], PagerOK(r, f, e),
           r.state \in Plain => f = e
    PROVE  ReadBy(r, f) = Promise(r, e)
<1>1. CASE r.state \in Plain
  <2>1. Fresh(r, e)
    BY <1>1 DEF PagerOK, ReaderOK, Plain
  <2>2. ReadBy(r, f) = [p \in Pages |-> e[p]]
    BY <1>1, <2>1 DEF ReadBy, InTransaction, Fresh
  <2> QED
    BY <1>1, <2>2 DEF Promise
<1>2. CASE r.state \in Changing
  <2>1. ChangesOK(r, f, e)
    BY <1>2 DEF PagerOK, WriterOK, Changing
  <2>2. ASSUME NEW p \in Pages
        PROVE  (IF p \in DOMAIN r.cache THEN r.cache[p] ELSE f[p])
               = (IF Recorded(r, p) THEN e[p] + 1 ELSE e[p])
    BY <2>1 DEF ChangesOK, Written
  <2>3. r.state \notin Plain
    BY <1>2 DEF Plain, Changing
  <2> QED
    BY <1>2, <2>2, <2>3 DEF ReadBy, Promise, InTransaction
<1>3. CASE r.state \notin InTransaction
  BY <1>3 DEF ReadBy, Promise, InTransaction
<1> QED
  BY <1>1, <1>2, <1>3 DEF InTransaction

\* The file is as committed while a transaction without updates is open.
LEMMA PlainReadsFile ==
    ASSUME DataOK, NEW c \in Conns, pager[c].state \in Plain
    PROVE  content = expected
<1>1. \A d \in Conns \ {c} : Compatible(pager[c].state, pager[d].state)
  BY DEF DataOK, LocksExclude
<1>2. \A d \in Conns : pager[d].state \notin Writing
  BY <1>1 DEF Compatible, Exclusive, Unlocked, Writing, Plain
<1> QED
  BY <1>2 DEF DataOK, FileIntact

\* What the transaction of a connection sees.
LEMMA Sees ==
    ASSUME Inv, DataInv, Calm, NEW c \in Conns
    PROVE  View(c) = Promise(pager[c], expected)
<1>1. DataOK /\ expected \in [Pages -> Nat]
  BY DEF DataInv, Inv, DatabaseSound, HistorySound
<1>2. View(c) = ReadBy(pager[c], content)
  BY DEF View, ReadBy, In, Active, Cached, Read, InTransaction, Plain,
     Changing
<1>3. PagerOK(pager[c], content, expected)
  BY <1>1 DEF DataOK
<1>4. pager[c].state \in Plain => content = expected
  BY <1>1, PlainReadsFile
<1> QED
  BY <1>1, <1>2, <1>3, <1>4, PromiseKept

\* The same after a step.
LEMMA SeesNext ==
    ASSUME Inv', DataInv', Calm', NEW c \in Conns
    PROVE  View(c)' = Promise(pager'[c], expected')
<1>1. DataOK' /\ expected' \in [Pages -> Nat]
  BY DEF DataInv, Inv, DatabaseSound, HistorySound
<1>2. View(c)' = ReadBy(pager'[c], content')
  BY DEF View, ReadBy, In, Active, Cached, Read, InTransaction, Plain,
     Changing
<1>3. PagerOK(pager'[c], content', expected')
  BY <1>1 DEF DataOK
<1>4. ASSUME pager'[c].state \in Plain
      PROVE  content' = expected'
  <2>1. \A d \in Conns \ {c} : Compatible(pager'[c].state, pager'[d].state)
    BY <1>1 DEF DataOK, LocksExclude
  <2>2. \A d \in Conns : pager'[d].state \notin Writing
    BY <1>4, <2>1 DEF Compatible, Exclusive, Unlocked, Writing, Plain
  <2> QED
    BY <1>1, <2>2 DEF DataOK, FileIntact
<1> QED
  BY <1>1, <1>2, <1>3, <1>4, PromiseKept

\* A step of one connection that commits nothing changes what that one sees.
LEMMA OneView ==
    ASSUME NEW c \in Conns, StepOf(c), expected' = expected
    PROVE  /\ Views \in [Conns -> {View(d) : d \in Conns}]
           /\ Views[c] = Promise(pager[c], expected)
           /\ Views' = [Views EXCEPT ![c] = Promise(pager'[c], expected)]
<1>1. \A d \in Conns : /\ View(d) = Promise(pager[d], expected)
                       /\ View(d)' = Promise(pager'[d], expected')
  BY Sees, SeesNext DEF StepOf
<1>2. \A d \in Conns \ {c} : View(d)' = View(d)
  BY <1>1 DEF StepOf
<1> QED
  BY <1>1, <1>2 DEF Views

-----------------------------------------------------------------------------
(* The steps of the store *)

\* A transaction is never nothing, as there is page 1.
LEMMA NotNothing ==
    ASSUME NEW f, DOMAIN f = Pages
    PROVE  f # NoCache /\ f # Store!Nothing
BY DEF NoCache, Store!Nothing, Pages

\* Both are the empty function.
LEMMA NothingIsEmpty == Store!Nothing = NoCache
BY DEF NoCache, Store!Nothing

\* A lock is taken, or a rollback is over: a transaction starts.
LEMMA Starts ==
    ASSUME NEW c \in Conns, StepOf(c), expected' = expected,
           pager[c].state \notin InTransaction, pager'[c].state \in Plain
    PROVE  Store!Start(c)
<1>1. /\ Promise(pager[c], expected) = NoCache
      /\ Promise(pager'[c], expected) = expected
  BY DEF Promise, InTransaction
<1> QED
  BY <1>1, OneView, NothingIsEmpty DEF Store!Start, Views

\* The view of an open transaction is not Nothing.
LEMMA OpenIsSomething ==
    ASSUME NEW r, r.state \in InTransaction, NEW e \in [Pages -> Nat]
    PROVE  DOMAIN Promise(r, e) = Pages
BY DEF Promise, InTransaction

\* It ends, or its updates are undone.
LEMMA Ends ==
    ASSUME NEW c \in Conns, StepOf(c), expected' = expected,
           pager[c].state \in InTransaction,
           pager'[c].state \notin Changing
    PROVE  Store!GiveUp(c)
<1>1. expected \in [Pages -> Nat]
  BY DEF StepOf, Inv, DatabaseSound, HistorySound
<1>2. Promise(pager[c], expected) # Store!Nothing
  BY <1>1, OpenIsSomething, NotNothing
<1>3. Promise(pager'[c], expected) \in {Store!Nothing, expected}
  BY NothingIsEmpty DEF Promise
<1> QED
  BY <1>2, <1>3, OneView DEF Store!GiveUp, Views

\* It sees what it saw before.
LEMMA Stays ==
    ASSUME NEW c \in Conns, StepOf(c), expected' = expected,
           Promise(pager'[c], expected) = Promise(pager[c], expected)
    PROVE  UNCHANGED Store!storeVars
<1>1. Views' = Views
  BY OneView
<1>2. (disturbed \/ torn)' = (disturbed \/ torn)
  BY DEF StepOf, Calm
<1> QED
  BY <1>1, <1>2 DEF Store!storeVars, Views

\* Nobody else sees anything but what is committed while updates are made, and
\* nobody else sees anything at the commit.
LEMMA OthersSee ==
    ASSUME NEW c \in Conns, StepOf(c), NEW d \in Conns \ {c}
    PROVE  /\ pager'[c].state \in Changing =>
                  Promise(pager[d], expected) \in {NoCache, expected}
           /\ pager[c].state \in Exclusive =>
                  /\ Promise(pager[d], expected) = NoCache
                  /\ Promise(pager'[d], expected') = NoCache
<1>1. LocksExclude /\ LocksExclude' /\ pager'[d] = pager[d]
  BY DEF StepOf, DataInv, DataOK
<1>2. /\ Compatible(pager[c].state, pager[d].state)
      /\ Compatible(pager'[c].state, pager'[d].state)
  BY <1>1 DEF LocksExclude
<1>3. ASSUME pager'[c].state \in Changing
      PROVE  pager[d].state \notin Changing
  BY <1>1, <1>2, <1>3
  DEF Compatible, Changing, Exclusive, Writing, Reserved, Unlocked
<1>4. ASSUME pager[c].state \in Exclusive
      PROVE  pager[d].state \notin InTransaction
  BY <1>2, <1>4 DEF Compatible, InTransaction, Plain, Changing, Unlocked
<1> QED
  BY <1>1, <1>3, <1>4 DEF Promise, InTransaction

\* A page is recorded in the journal, which is the update of it.
LEMMA UpdatesPage ==
    ASSUME NEW c \in Conns, StepOf(c), expected' = expected, NEW p \in Pages,
           pager[c].state \in {"locked", "cachemod", "dbmod"},
           pager'[c].state \in Changing,
           ~Recorded(pager[c], p),
           \A q \in Pages :
               Recorded(pager'[c], q) <=> Recorded(pager[c], q) \/ q = p
    PROVE  Store!Update(c, p)
<1> DEFINE old == Promise(pager[c], expected)
           new == Promise(pager'[c], expected)
<1>1. expected \in [Pages -> Nat]
  BY DEF StepOf, Inv, DatabaseSound, HistorySound
<1>2. old = [q \in Pages |-> IF Recorded(pager[c], q) THEN expected[q] + 1
                             ELSE expected[q]]
  <2>1. CASE pager[c].state = "locked"
    <3>1. pager[c].journal = <<>>
      BY <2>1 DEF StepOf, Inv, DatabaseSound, PagersSound, Sound
    <3>2. \A q : ~Recorded(pager[c], q)
      BY <3>1 DEF Recorded, RecordIn
    <3> QED
      BY <1>1, <2>1, <3>2 DEF Promise, Plain
  <2>2. CASE pager[c].state # "locked"
    BY <2>2 DEF Promise, Plain, Changing
  <2> QED
    BY <2>1, <2>2
<1>3. new = [q \in Pages |-> IF Recorded(pager'[c], q) THEN expected[q] + 1
                             ELSE expected[q]]
  BY DEF Promise, Plain, Changing
<1>4. new = [old EXCEPT ![p] = @ + 1]
  BY <1>1, <1>2, <1>3
<1>5. old # Store!Nothing
  BY <1>2, NotNothing
<1>6. \A d \in Conns \ {c} : Views[d] \in {Store!Nothing, expected}
  BY OthersSee, Sees, NothingIsEmpty DEF Views, StepOf
<1>7. /\ Views[c] = old
      /\ Views' = [Views EXCEPT ![c] = new]
      /\ Views \in [Conns -> {View(d) : d \in Conns}]
  BY OneView
<1>8. Views' = [Views EXCEPT ![c][p] = @ + 1]
  BY <1>4, <1>7
<1> QED
  BY <1>5, <1>6, <1>7, <1>8 DEF Store!Update, Store!Others, Views

\* The sync of the file: what the transaction sees is the database.
LEMMA Commits ==
    ASSUME NEW c \in Conns, StepOf(c), pager[c].state = "commit",
           pager'[c].state = "finished",
           expected' = [p \in Pages |-> IF p \in Journaled(c)
                                        THEN expected[p] + 1 ELSE expected[p]]
    PROVE  Store!Commit(c)
<1>1. expected \in [Pages -> Nat]
  BY DEF StepOf, Inv, DatabaseSound, HistorySound
<1>2. \A p \in Pages : Recorded(pager[c], p) <=> p \in Journaled(c)
  BY DEF Recorded, RecordIn, Journaled
<1>3. Promise(pager[c], expected) = expected'
  BY <1>1, <1>2 DEF Promise, Plain, Changing
<1>4. View(c) = expected' /\ View(c)' = expected'
  <2>1. View(c)' = Promise(pager'[c], expected')
    BY SeesNext DEF StepOf
  <2> QED
    BY <1>3, <2>1, Sees DEF StepOf, Promise, Plain
<1>5. \A d \in Conns \ {c} : View(d) = NoCache /\ View(d)' = NoCache
  BY OthersSee, Sees, SeesNext DEF StepOf, Exclusive, Writing
<1>6. Views' = Views
  BY <1>4, <1>5 DEF Views
<1>7. View(c) # Store!Nothing
  BY <1>1, <1>4, NotNothing
<1> QED
  BY <1>4, <1>5, <1>6, <1>7, NothingIsEmpty
  DEF Store!Commit, Store!Others, Views

-----------------------------------------------------------------------------
(* The steps of a connection *)

\* What the journal records after one more record.
LEMMA OneMoreRecord ==
    ASSUME NEW old \in Pagers, NEW rec \in [page : Pages, orig : Counts],
           NEW r, r.journal = Append(old.journal, rec)
    PROVE  \A q : Recorded(r, q) <=> Recorded(old, q) \/ q = rec.page
<1>1. /\ Len(r.journal) = Len(old.journal) + 1
      /\ r.journal[Len(old.journal) + 1] = rec
      /\ \A i \in 1..Len(old.journal) : r.journal[i] = old.journal[i]
      /\ Len(old.journal) \in Nat
  BY DEF Pagers
<1>2. 1..Len(r.journal) = 1..Len(old.journal) \cup {Len(old.journal) + 1}
  BY <1>1
<1> QED
  BY <1>1, <1>2 DEF Recorded, RecordIn

\* A pager in another state with the same journal, in which it promises the same.
LEMMA SameJournal ==
    ASSUME NEW old, NEW r, NEW e,
           \/ old.state \in Plain /\ r.state \in Plain
           \/ old.state \in Changing /\ r.state \in Changing
              /\ r.journal = old.journal
           \/ old.state \notin InTransaction /\ r.state \notin InTransaction
    PROVE  Promise(r, e) = Promise(old, e)
<1>1. Plain \cap Changing = {}
  BY DEF Plain, Changing
<1> QED
  BY <1>1 DEF Promise, InTransaction, Recorded, RecordIn

\* A step of the store, or none.
Implements == Store!StoreStep \/ UNCHANGED Store!storeVars

\* Two states in which the invariants hold.
Between == Inv /\ DataInv /\ Calm /\ Inv' /\ DataInv' /\ Calm'

\* A step that replaces the pager of c by r.
LEMMA ItsStep ==
    ASSUME Between, NEW c \in Conns, NEW r, pager' = [pager EXCEPT ![c] = r]
    PROVE  StepOf(c) /\ pager'[c] = r
BY DEF StepOf, Between, Inv, DatabaseSound, PagersSound

\* A SHARED lock starts a transaction.
LEMMA SharedLockStores ==
    ASSUME Between, NEW c \in Conns, SharedLock(c)
    PROVE  Implements
<1> DEFINE kept == ValidCache(c)
           cache == IF Header \in DOMAIN kept THEN kept
                    ELSE WithPage(kept, Header, Read(Header))
           vers == IF Header \in DOMAIN kept THEN pager[c].vers
                   ELSE Read(Header)
           r == [pager[c] EXCEPT !.state = "reader", !.cache = cache,
                                 !.vers = vers]
<1>1. pager[c] \in Pagers /\ pager[c].state = "open" /\ expected' = expected
  BY DEF Between, Inv, DatabaseSound, PagersSound, SharedLock, In
<1>2. pager' = [pager EXCEPT ![c] = r]
  BY <1>1 DEF SharedLock, Between, Inv, DatabaseSound, PagersSound
<1>3. r.state = "reader"
  BY <1>1 DEF Pagers
<1> HIDE DEF r
<1>4. StepOf(c) /\ pager'[c] = r
  BY <1>2, ItsStep
<1>5. Store!Start(c)
  BY <1>1, <1>3, <1>4, Starts DEF InTransaction, Plain, Changing
<1> QED
  BY <1>5 DEF Implements, Store!StoreStep

\* Reads see what is promised; giving up the SHARED lock ends the transaction.
LEMMA ReadingStores ==
    ASSUME Between, NEW c \in Conns,
           \/ \E p \in Pages : GetPage(c, p)
           \/ EndRead(c)
           \/ Begin(c)
           \/ Finish(c)
    PROVE  Implements
<1>1. PagersSound /\ pager[c] \in Pagers
  BY DEF Between, Inv, DatabaseSound, PagersSound
<1>2. CASE \E p \in Pages : GetPage(c, p)
  <2>1. PICK p \in Pages : GetPage(c, p)
    BY <1>2
  <2> DEFINE r == [pager[c] EXCEPT !.cache = WithPage(@, p, Read(p))]
  <2>2. /\ pager' = [pager EXCEPT ![c] = r]
        /\ expected' = expected
        /\ pager[c].state \in Active
    BY <1>1, <2>1 DEF GetPage, PagersSound, In
  <2>3. r.state = pager[c].state /\ r.journal = pager[c].journal
    BY <1>1 DEF Pagers
  <2> HIDE DEF r
  <2>4. StepOf(c) /\ pager'[c] = r
    BY <2>2, ItsStep
  <2>5. Promise(r, expected) = Promise(pager[c], expected)
    BY <2>2, <2>3, SameJournal DEF Active, Plain, Changing
  <2> QED
    BY <2>2, <2>4, <2>5, Stays DEF Implements
<1>3. CASE EndRead(c)
  <2> DEFINE r == [pager[c] EXCEPT !.state = "open"]
  <2>1. /\ pager' = [pager EXCEPT ![c] = r]
        /\ expected' = expected
        /\ pager[c].state = "reader"
    BY <1>1, <1>3 DEF EndRead, PagersSound, In
  <2>2. r.state = "open"
    BY <1>1 DEF Pagers
  <2> HIDE DEF r
  <2>3. StepOf(c) /\ pager'[c] = r
    BY <2>1, ItsStep
  <2>4. Store!GiveUp(c)
    BY <2>1, <2>2, <2>3, Ends DEF InTransaction, Plain, Changing
  <2> QED
    BY <2>4 DEF Implements, Store!StoreStep
<1>4. CASE Begin(c)
  <2> DEFINE r == [pager[c] EXCEPT !.state = "locked"]
  <2>1. /\ pager' = [pager EXCEPT ![c] = r]
        /\ expected' = expected
        /\ pager[c].state = "reader"
    BY <1>1, <1>4 DEF Begin, PagersSound, In
  <2>2. r.state = "locked"
    BY <1>1 DEF Pagers
  <2> HIDE DEF r
  <2>3. StepOf(c) /\ pager'[c] = r
    BY <2>1, ItsStep
  <2>4. Promise(r, expected) = Promise(pager[c], expected)
    BY <2>1, <2>2, SameJournal DEF Plain
  <2> QED
    BY <2>1, <2>3, <2>4, Stays DEF Implements
<1>5. CASE Finish(c)
  <2> DEFINE r == EndTransaction(c, pager[c].cache)
  <2>1. /\ pager' = [pager EXCEPT ![c] = r]
        /\ expected' = expected
        /\ pager[c].state = "finished"
    BY <1>5 DEF Finish, In
  <2>2. r.state = "reader"
    BY <1>1 DEF Pagers, EndTransaction
  <2> HIDE DEF r
  <2>3. StepOf(c) /\ pager'[c] = r
    BY <2>1, ItsStep
  <2>4. Promise(r, expected) = Promise(pager[c], expected)
    BY <2>1, <2>2, SameJournal DEF Plain
  <2> QED
    BY <2>1, <2>3, <2>4, Stays DEF Implements
<1> QED
  BY <1>2, <1>3, <1>4, <1>5

\* The update of a page.
LEMMA WritePageStores ==
    ASSUME Between, NEW c \in Conns, NEW p \in DataPages, WritePage(c, p)
    PROVE  Implements
<1> DEFINE r == [pager[c] EXCEPT
                   !.state = IF pager[c].state = "locked" THEN "cachemod"
                             ELSE pager[c].state,
                   !.journal = Append(pager[c].journal, Record(c, p)),
                   !.cache = [pager[c].cache EXCEPT ![p] = @ + 1],
                   !.dirty = pager[c].dirty \cup {p}]
<1>1. /\ PagersSound /\ pager[c] \in Pagers /\ p \in Pages
      /\ pager[c].state \in {"locked", "cachemod", "dbmod"}
      /\ expected' = expected
      /\ p \in Cached(c) \ Journaled(c)
  BY DEF Between, Inv, DatabaseSound, PagersSound, WritePage, In, Pages
<1>2. pager' = [pager EXCEPT ![c] = r]
  BY <1>1, WritePageStep
<1>3. /\ r.state \in {"cachemod", "dbmod"}
      /\ r.journal = Append(pager[c].journal, Record(c, p))
  BY <1>1 DEF Pagers
<1>4. /\ Record(c, p) \in [page : Pages, orig : Counts]
      /\ Record(c, p).page = p
  BY <1>1, ThePager DEF Record
<1> HIDE DEF r
<1>5. StepOf(c) /\ pager'[c] = r
  BY <1>2, ItsStep
<1>6. \A q : Recorded(r, q) <=> Recorded(pager[c], q) \/ q = p
  BY <1>1, <1>3, <1>4, OneMoreRecord
<1>7. ~Recorded(pager[c], p)
  BY <1>1 DEF Recorded, RecordIn, Journaled
<1>8. Store!Update(c, p)
  BY <1>1, <1>3, <1>5, <1>6, <1>7, UpdatesPage DEF Changing
<1> QED
  BY <1>1, <1>8 DEF Implements, Store!StoreStep

\* A page written early shows nobody anything; a failed write ends the
\* transaction.
LEMMA SpillStores ==
    ASSUME Between, NEW c \in Conns, NEW p \in DataPages, Spill(c, p)
    PROVE  Implements
<1> DEFINE n == Len(pager[c].journal)
           unsynced == \E i \in 1..n :
               pager[c].journal[i].page = p /\ i > pager[c].synced
           r == [pager[c] EXCEPT
                   !.state = "dbmod",
                   !.synced = IF unsynced THEN n ELSE @,
                   !.dirty = @ \ {p}]
           e == [InError(c) EXCEPT
                   !.synced = IF unsynced THEN n ELSE @]
<1>1. /\ PagersSound /\ pager[c] \in Pagers
      /\ pager[c].state \in {"cachemod", "dbmod"}
      /\ expected' = expected
  BY DEF Between, Inv, DatabaseSound, PagersSound, Spill, In
<1>2. \/ pager' = [pager EXCEPT ![c] = r]
      \/ pager' = [pager EXCEPT ![c] = e]
  BY <1>1 DEF Spill, PagersSound
<1>3. r.state = "dbmod" /\ r.journal = pager[c].journal
  BY <1>1 DEF Pagers
<1>4. e.state = "error"
  BY <1>1 DEF Pagers, InError
<1> HIDE DEF r, e
<1>5. CASE pager' = [pager EXCEPT ![c] = r]
  <2>1. StepOf(c) /\ pager'[c] = r
    BY <1>5, ItsStep
  <2>2. Promise(r, expected) = Promise(pager[c], expected)
    BY <1>1, <1>3, SameJournal DEF Changing
  <2> QED
    BY <1>1, <2>1, <2>2, Stays DEF Implements
<1>6. CASE pager' = [pager EXCEPT ![c] = e]
  <2>1. StepOf(c) /\ pager'[c] = e
    BY <1>6, ItsStep
  <2>2. Store!GiveUp(c)
    BY <1>1, <1>4, <2>1, Ends DEF InTransaction, Changing
  <2> QED
    BY <2>2 DEF Implements, Store!StoreStep
<1> QED
  BY <1>2, <1>5, <1>6

\* The update of page 1 begins the commit.
LEMMA CommitStartStores ==
    ASSUME Between, NEW c \in Conns, CommitStart(c)
    PROVE  Implements
<1> DEFINE r == [pager[c] EXCEPT
             !.state = "commit",
             !.journal = Append(pager[c].journal, Record(c, Header)),
             !.cache = [pager[c].cache EXCEPT ![Header] = pager[c].vers + 1],
             !.dirty = pager[c].dirty \cup {Header},
             !.synced = Len(pager[c].journal) + 1]
<1>1. /\ PagersSound /\ pager[c] \in Pagers /\ Header \in Pages
      /\ pager[c].state \in {"cachemod", "dbmod"}
      /\ expected' = expected
  BY DEF Between, Inv, DatabaseSound, PagersSound, CommitStart, In, Pages
<1>2. pager' = [pager EXCEPT ![c] = r]
  BY <1>1, CommitStartStep
<1>3. /\ r.state = "commit"
      /\ r.journal = Append(pager[c].journal, Record(c, Header))
  BY <1>1 DEF Pagers
<1>4. /\ Record(c, Header) \in [page : Pages, orig : Counts]
      /\ Record(c, Header).page = Header
  <2>1. Header \in Cached(c)
    BY <1>1 DEF PagersSound, Sound, Cached
  <2> QED
    BY <1>1, <2>1, ThePager DEF Record
<1> HIDE DEF r
<1>5. StepOf(c) /\ pager'[c] = r
  BY <1>2, ItsStep
<1>6. \A q : Recorded(r, q) <=> Recorded(pager[c], q) \/ q = Header
  BY <1>1, <1>3, <1>4, OneMoreRecord
<1>7. ~Recorded(pager[c], Header)
  BY <1>1 DEF Between, DataInv, DataOK, PagerOK, WriterOK
<1>8. Store!Update(c, Header)
  BY <1>1, <1>3, <1>5, <1>6, <1>7, UpdatesPage DEF Changing
<1> QED
  BY <1>1, <1>8 DEF Implements, Store!StoreStep

\* The writes of a commit show nobody anything; a failed one ends it.
LEMMA WriteBackStores ==
    ASSUME Between, NEW c \in Conns, WriteBack(c)
    PROVE  Implements
<1>1. /\ PagersSound /\ pager[c] \in Pagers
      /\ pager[c].state = "commit"
      /\ expected' = expected
  BY DEF Between, Inv, DatabaseSound, PagersSound, WriteBack, In
<1>2. PICK p, vers :
        \/ pager' = [pager EXCEPT ![c].dirty = @ \ {p}, ![c].vers = vers]
        \/ pager' = [pager EXCEPT ![c].state = "undo", ![c].next = 1,
                                  ![c].vers = vers]
  BY DEF WriteBack
<1> DEFINE r == [pager[c] EXCEPT !.dirty = @ \ {p}, !.vers = vers]
           u == [pager[c] EXCEPT !.state = "undo", !.next = 1, !.vers = vers]
<1>3. \/ pager' = [pager EXCEPT ![c] = r]
      \/ pager' = [pager EXCEPT ![c] = u]
  BY <1>1, <1>2 DEF PagersSound
<1>4. /\ r.state = "commit" /\ r.journal = pager[c].journal
      /\ u.state = "undo"
  BY <1>1 DEF Pagers
<1> HIDE DEF r, u
<1>5. CASE pager' = [pager EXCEPT ![c] = r]
  <2>1. StepOf(c) /\ pager'[c] = r
    BY <1>5, ItsStep
  <2>2. Promise(r, expected) = Promise(pager[c], expected)
    BY <1>1, <1>4, SameJournal DEF Changing
  <2> QED
    BY <1>1, <2>1, <2>2, Stays DEF Implements
<1>6. CASE pager' = [pager EXCEPT ![c] = u]
  <2>1. StepOf(c) /\ pager'[c] = u
    BY <1>6, ItsStep
  <2>2. Store!GiveUp(c)
    BY <1>1, <1>4, <2>1, Ends DEF InTransaction, Changing
  <2> QED
    BY <2>2 DEF Implements, Store!StoreStep
<1> QED
  BY <1>3, <1>5, <1>6

\* The sync of the file commits; when it fails, the transaction is over.
LEMMA SyncFileStores ==
    ASSUME Between, NEW c \in Conns, SyncFile(c)
    PROVE  Implements
<1> DEFINE r == [pager[c] EXCEPT !.state = "finished"]
           u == [pager[c] EXCEPT !.state = "undo", !.next = 1]
<1>1. PagersSound /\ pager[c] \in Pagers /\ pager[c].state = "commit"
  BY DEF Between, Inv, DatabaseSound, PagersSound, SyncFile, In
<1>2. r.state = "finished" /\ u.state = "undo"
  BY <1>1 DEF Pagers
<1>3. \/ /\ pager' = [pager EXCEPT ![c] = r]
         /\ expected' = [p \in Pages |-> IF p \in Journaled(c)
                                         THEN expected[p] + 1 ELSE expected[p]]
      \/ /\ pager' = [pager EXCEPT ![c] = u]
         /\ expected' = expected
  BY <1>1 DEF SyncFile, PagersSound
<1> HIDE DEF r, u
<1>4. CASE /\ pager' = [pager EXCEPT ![c] = r]
           /\ expected' = [p \in Pages |-> IF p \in Journaled(c)
                                           THEN expected[p] + 1 ELSE expected[p]]
  <2>1. StepOf(c) /\ pager'[c] = r
    BY <1>4, ItsStep
  <2>2. Store!Commit(c)
    BY <1>1, <1>2, <1>4, <2>1, Commits
  <2> QED
    BY <2>2 DEF Implements, Store!StoreStep
<1>5. CASE pager' = [pager EXCEPT ![c] = u] /\ expected' = expected
  <2>1. StepOf(c) /\ pager'[c] = u
    BY <1>5, ItsStep
  <2>2. Store!GiveUp(c)
    BY <1>1, <1>2, <1>5, <2>1, Ends DEF InTransaction, Changing
  <2> QED
    BY <2>2 DEF Implements, Store!StoreStep
<1> QED
  BY <1>3, <1>4, <1>5

\* A rollback undoes the updates, at once or page by page in the file.
LEMMA RollbackStores ==
    ASSUME Between, NEW c \in Conns, Rollback(c)
    PROVE  Implements
<1> DEFINE restored == [p \in Cached(c) |-> IF p \in Journaled(c)
                                            THEN Original(c, p)
                                            ELSE pager[c].cache[p]]
           r == EndTransaction(c, restored)
           u == [pager[c] EXCEPT !.state = "undo", !.next = 1]
<1>1. /\ PagersSound /\ pager[c] \in Pagers
      /\ pager[c].state \in {"locked", "cachemod", "dbmod"}
      /\ expected' = expected
  BY DEF Between, Inv, DatabaseSound, PagersSound, Rollback, In
<1>2. \/ pager' = [pager EXCEPT ![c] = r]
      \/ pager' = [pager EXCEPT ![c] = u]
  BY <1>1 DEF Rollback, PagersSound
<1>3. r.state = "reader" /\ u.state = "undo"
  BY <1>1 DEF Pagers, EndTransaction
<1> HIDE DEF r, u
<1>4. PICK v \in {r, u} : pager' = [pager EXCEPT ![c] = v]
  BY <1>2
<1>5. StepOf(c) /\ pager'[c] = v
  BY <1>4, ItsStep
<1>6. Store!GiveUp(c)
  BY <1>1, <1>3, <1>4, <1>5, Ends DEF InTransaction, Plain, Changing
<1> QED
  BY <1>6 DEF Implements, Store!StoreStep

\* While pages are played back the connection sees nothing, failing or not.
LEMMA UndoPageStores ==
    ASSUME Between, NEW c \in Conns, UndoPage(c)
    PROVE  Implements
<1> DEFINE rec == pager[c].journal[pager[c].next]
           cache == IF rec.page \in DOMAIN pager[c].cache
                    THEN [pager[c].cache EXCEPT ![rec.page] = rec.orig]
                    ELSE pager[c].cache
           vers == IF rec.page = Header /\ Header \in Cached(c)
                   THEN rec.orig ELSE pager[c].vers
           r == [pager[c] EXCEPT !.next = @ + 1, !.cache = cache, !.vers = vers]
<1>1. /\ PagersSound /\ pager[c] \in Pagers
      /\ pager[c].state \in {"undo", "error"}
      /\ expected' = expected
  BY DEF Between, Inv, DatabaseSound, PagersSound, UndoPage, In
<1>2. pager' = [pager EXCEPT ![c] = r] \/ UndoFails(c)
  BY <1>1 DEF UndoPage, PagersSound
<1>3. r.state = pager[c].state
  BY <1>1 DEF Pagers
<1> HIDE DEF r
<1>4. PICK v : /\ pager' = [pager EXCEPT ![c] = v]
               /\ v.state \in {"undo", "error", "open"}
  <2>1. InError(c).state = "error" /\ Opened(pager[c].mode).state = "open"
    BY <1>1 DEF InError, Opened, Pagers
  <2> QED
    BY <1>1, <1>2, <1>3, <2>1 DEF UndoFails, PagersSound
<1>5. StepOf(c) /\ pager'[c] = v
  BY <1>4, ItsStep
<1>6. Promise(v, expected) = Promise(pager[c], expected)
  BY <1>1, <1>4, SameJournal DEF InTransaction, Plain, Changing
<1> QED
  BY <1>1, <1>5, <1>6, Stays DEF Implements

\* The end of a rollback: the SHARED lock is kept, which is a new transaction;
\* or it is given up, or rolling back starts over.
LEMMA UndoDoneStores ==
    ASSUME Between, NEW c \in Conns, UndoDone(c)
    PROVE  Implements
<1> DEFINE r == EndTransaction(c, pager[c].cache)
<1>1. /\ PagersSound /\ pager[c] \in Pagers
      /\ pager[c].state \in {"undo", "error"}
      /\ expected' = expected
  BY DEF Between, Inv, DatabaseSound, PagersSound, UndoDone, In
<1>2. /\ r.state = "reader"
      /\ InError(c).state = "error"
      /\ Opened(pager[c].mode).state = "open"
  BY <1>1 DEF InError, Opened, Pagers, EndTransaction
<1>3. PICK v : /\ pager' = [pager EXCEPT ![c] = v]
               /\ v.state \in {"reader", "error", "open"}
  BY <1>1, <1>2 DEF UndoDone, UndoFails, PagersSound
<1> HIDE DEF r
<1>4. StepOf(c) /\ pager'[c] = v
  BY <1>3, ItsStep
<1>5. CASE v.state = "reader"
  <2>1. Store!Start(c)
    BY <1>1, <1>4, <1>5, Starts DEF InTransaction, Plain, Changing
  <2> QED
    BY <2>1 DEF Implements, Store!StoreStep
<1>6. CASE v.state # "reader"
  <2>1. Promise(v, expected) = Promise(pager[c], expected)
    BY <1>1, <1>3, <1>6, SameJournal DEF InTransaction, Plain, Changing
  <2> QED
    BY <1>1, <1>4, <2>1, Stays DEF Implements
<1> QED
  BY <1>5, <1>6

\* Every step of a connection.
LEMMA DatabaseNextStores ==
    ASSUME Between, DatabaseNext
    PROVE  Implements
BY SharedLockStores, ReadingStores, WritePageStores, SpillStores,
   CommitStartStores, WriteBackStores, SyncFileStores, RollbackStores,
   UndoPageStores, UndoDoneStores
DEF DatabaseNext

-----------------------------------------------------------------------------
(* The library's core *)

\* Steps that change no pager, or put one without a lock in the place of another.
LEMMA UnlockedStores ==
    ASSUME Between, expected' = expected, NEW c \in Conns, NEW r,
           r.state \in Unlocked, pager[c].state \in Unlocked,
           pager' = pager \/ pager' = [pager EXCEPT ![c] = r]
    PROVE  Implements
<1>1. PagersSound
  BY DEF Between, Inv, DatabaseSound
<1>2. pager' = [pager EXCEPT ![c] = IF pager' = pager THEN pager[c] ELSE r]
  BY <1>1 DEF PagersSound
<1>3. StepOf(c) /\ pager'[c] \in {r, pager[c]}
  BY <1>2, ItsStep
<1>4. Promise(pager'[c], expected) = Promise(pager[c], expected)
  BY <1>3, SameJournal DEF InTransaction, Plain, Changing, Unlocked
<1> QED
  BY <1>3, <1>4, Stays DEF Implements

\* Steps that leave the database and the connections as they are.
LEMMA QuietStores ==
    ASSUME UNCHANGED <<content, pager, expected, disturbed, torn>>
    PROVE  UNCHANGED Store!storeVars
BY DEF Store!storeVars, View, In, Cached, Read

\* sqlite_micro_open, sqlite3_open and sqlite3_close.
LEMMA OpenCloseStores ==
    ASSUME Between, NEW c \in Conns,
           \/ \E config \in BOOLEAN : MicroOpen(c, config)
           \/ PlainOpen(c)
           \/ Close(c)
    PROVE  Implements
<1>1. PagersSound /\ expected' = expected
  BY DEF Between, Inv, DatabaseSound, MicroOpen, PlainOpen, Close
<1>2. pager[c].state \in Unlocked
  BY DEF Between, DataInv, NotOpened, MicroOpen, PlainOpen, Close, In, Unlocked
<1>3. \/ pager' = pager
      \/ \E mode : pager' = [pager EXCEPT ![c] = Opened(mode)]
      \/ pager' = [pager EXCEPT ![c] = Closed]
  BY DEF MicroOpen, PlainOpen, Close, OpenSucceeds, OpenFails
<1>4. \A mode : Opened(mode).state = "open"
  BY DEF Opened
<1>5. Closed.state = "closed"
  BY ClosedOK
<1>6. PICK r : /\ r.state \in Unlocked
               /\ pager' = pager \/ pager' = [pager EXCEPT ![c] = r]
  BY <1>2, <1>3, <1>4, <1>5 DEF Unlocked
<1> QED
  BY <1>1, <1>2, <1>6, UnlockedStores

\* A power loss ends all transactions and nothing else, as no commit is cut short.
LEMMA PowerLossStores ==
    ASSUME Between, PowerLoss
    PROVE  Store!Crash
<1>1. pager' = [c \in Conns |-> Closed] /\ expected' = expected
  BY DEF PowerLoss
<1>2. \A c \in Conns : View(c)' = NoCache
  BY <1>1, ClosedOK DEF View, In, Active
<1>3. Views' = [c \in Conns |-> Store!Nothing]
  BY <1>2, NothingIsEmpty DEF Views
<1> QED
  BY <1>1, <1>3 DEF Store!Crash, Views

\* A step of the library from a state as it should be to another one.
LEMMA StepStores ==
    ASSUME Between, [Next]_vars
    PROVE  Implements
<1>1. CASE MicroInit \/ RegisterVfs \/ Mount \/ Shutdown \/ UNCHANGED vars
  BY <1>1, QuietStores DEF Implements, MicroInit, RegisterVfs, Mount, Shutdown,
     vars, storageVars, dbVars
<1>2. CASE PowerLoss
  BY <1>2, PowerLossStores DEF Implements, Store!StoreStep
<1> QED
  BY <1>1, <1>2, DatabaseNextStores, OpenCloseStores DEF Next

\* What is void stays void.
LEMMA CalmWas ==
    ASSUME HistorySound, [Next]_vars, Calm'
    PROVE  Calm
<1>1. CASE DatabaseNext
  BY <1>1, CalmBefore
<1>2. CASE PowerLoss
  BY <1>2 DEF PowerLoss, Calm
<1>3. CASE UNCHANGED <<disturbed, torn>>
  BY <1>3 DEF Calm
<1> QED
  BY <1>1, <1>2, <1>3
  DEF Next, MicroInit, RegisterVfs, Mount, MicroOpen, PlainOpen, Close,
      Shutdown, vars, dbVars

-----------------------------------------------------------------------------

\* The pagers, their journals and caches, and the storage implement a store of
\* transactions: each sees the database as committed last and its own updates
\* from its begin to its end, is alone when it commits, commits all its updates
\* at once and keeps none when it is given up, whatever writes and syncs fail
\* and whenever the power is lost between commits; until two connections
\* overlap where SQLite relies on locks that the drivers do not keep.
THEOREM DatabaseImplementsStore == Spec => ImplementsStore
<1>1. Init => Store!StoreInit
  <2> SUFFICES ASSUME Init PROVE Store!StoreInit
    OBVIOUS
  <2>1. expected \in [Pages -> Nat] /\ ~disturbed /\ ~torn
    BY DEF Init, DatabaseInit
  <2>2. \A c \in Conns : View(c) = NoCache
    BY ClosedOK DEF Init, DatabaseInit, View, In, Active
  <2> QED
    BY <2>1, <2>2, NothingIsEmpty DEF Store!StoreInit
<1>2. Inv /\ Inv' /\ DataInv /\ DataInv' /\ [Next]_vars
          => [Store!StoreNext]_(Store!storeVars)
  <2> SUFFICES ASSUME Inv, Inv', DataInv, DataInv', [Next]_vars
               PROVE  [Store!StoreNext]_(Store!storeVars)
    OBVIOUS
  <2>1. CASE ~Calm'
    BY <2>1 DEF Calm, Store!StoreNext
  <2>2. CASE Calm'
    <3>1. Between
      BY <2>2, CalmWas DEF Between, Inv, DatabaseSound
    <3>2. ~(disturbed \/ torn) /\ ~(disturbed \/ torn)'
      BY <3>1 DEF Between, Calm
    <3> QED
      BY <3>1, <3>2, StepStores DEF Implements, Store!StoreNext
  <2> QED
    BY <2>1, <2>2
<1> QED
  BY <1>1, <1>2, Invariance, DataInvariance, PTL
  DEF Spec, ImplementsStore, Store!StoreSpec
=============================================================================
