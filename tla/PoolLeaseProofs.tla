-------------------------- MODULE PoolLeaseProofs ---------------------------
(***************************************************************************)
(* Exclusive, open and clean loans for every size of the pool: as long as  *)
(* a failed open leaves NULL in *ppDb, the pool implements ExclusiveLease. *)
(* (With a handle left behind it does not: see the run of PoolDangling.)   *)
(***************************************************************************)
EXTENDS ConnectionPoolProofs

\* The storage fails to mount or memory is short; nothing worse.
NoHandleLeft == OpenFaults \subseteq {"no_handle"}

\* The slots of a pool that is not destroyed hold exactly the live connections,
\* each in one slot.
SlotsAreLive ==
    phase # "destroyed" =>
        /\ PooledHandles = live
        /\ \A i, j \in OpenSlots : db[i] = db[j] => i = j

\* Loans are what ExclusiveLease is about; they are inductive together with
\* the correspondence of slots and live connections.
LeaseInv ==
    /\ HeldIsPooled
    /\ CleanHandover
    /\ SlotsAreLive
    /\ DestroyClosesAll
    /\ dirty \subseteq live

\* A slot in use or idle holds a live connection.
LEMMA OpenSlotsLive ==
    ASSUME TypeOK, SlotsAreLive, phase # "destroyed", NEW i \in OpenSlots
    PROVE  db[i] \in live /\ db[i] # NULL
BY DEF SlotsAreLive, OpenSlots, PooledHandles

\* Nobody holds the connection of an idle slot.
LEMMA IdleIsFree ==
    ASSUME PoolInv, LeaseInv, phase # "destroyed",
           NEW i \in IdleSlots, NEW t \in Tasks
    PROVE  db[i] \notin held[t]
<1>1. in_use \subseteq OpenSlots /\ i \in OpenSlots /\ i \notin in_use
  BY DEF PoolInv, SlotsMatchCounters, IdleSlots
<1>2. \A j \in in_use : db[j] # db[i]
  BY <1>1 DEF LeaseInv, SlotsAreLive
<1> QED
  BY <1>2 DEF LeaseInv, HeldIsPooled

-----------------------------------------------------------------------------
(* The actions that keep the loans as they are *)

LEMMA LeaseInit == Init => LeaseInv
<1> SUFFICES ASSUME Init PROVE LeaseInv
  OBVIOUS
<1>1. OpenSlots = {} /\ PooledHandles = {}
  BY DEF Init, OpenSlots, PooledHandles
<1> QED
  BY <1>1 DEF Init, LeaseInv, HeldIsPooled, CleanHandover, SlotsAreLive,
     DestroyClosesAll, IdleSlots

\* create puts a new connection in an empty slot, or nothing.
LEMMA CreateSlotLease ==
    ASSUME NoHandleLeft, PoolInv, LeaseInv, CreateSlot
    PROVE  /\ LeaseInv'
           /\ UNCHANGED <<held, dirty>>
           /\ \/ live' = live
              \/ \E h \in Handles \ live : live' = live \cup {h}
<1>1. TypeOK /\ phase = "create" /\ phase' = "create" /\ cursor + 1 \in Slots
  BY SizesAssumption DEF PoolInv, TypeOK, CreateSlot, Slots
<1>2. db[cursor + 1] = NULL
  <2>1. cursor + 1 \notin 1..cursor
    BY <1>1, SizesAssumption DEF TypeOK
  <2> QED
    BY <1>1, <2>1 DEF PoolInv, PhaseMatchesCalls, OpenSlots
<1>3. UNCHANGED <<in_use, dirty, held>> /\ phase' # "destroyed"
  BY <1>1 DEF CreateSlot
<1>4. in_use = {}
  BY <1>1 DEF PoolInv, PhaseMatchesCalls
<1>5. \A t \in Tasks : held[t] = {}
  BY <1>4 DEF LeaseInv, HeldIsPooled
<1>6. HeldIsPooled'
  BY <1>3, <1>5 DEF HeldIsPooled
<1>7. CASE \E h \in Handles : /\ OpenSucceeds(h)
                              /\ db' = [db EXCEPT ![cursor + 1] = h]
  <2>1. PICK h \in Handles : /\ h \notin live
                             /\ live' = live \cup {h}
                             /\ db' = [db EXCEPT ![cursor + 1] = h]
    BY <1>7 DEF OpenSucceeds
  <2>2. h # NULL
    BY SetsAssumption
  <2>3. \A i \in Slots : db'[i] = IF i = cursor + 1 THEN h ELSE db[i]
    BY <1>1, <2>1 DEF TypeOK
  <2>4. OpenSlots' = OpenSlots \cup {cursor + 1}
    BY <1>1, <2>2, <2>3 DEF OpenSlots, Slots
  <2>5. \A i \in OpenSlots : db[i] \in live /\ db'[i] = db[i]
    BY <1>1, <1>2, <2>3, OpenSlotsLive DEF OpenSlots, LeaseInv
  <2>6. PooledHandles' = live'
    <3>1. PooledHandles = live
      BY <1>1 DEF LeaseInv, SlotsAreLive
    <3> QED
      BY <1>1, <1>2, <2>1, <2>2, <2>3, <3>1 DEF PooledHandles, Slots
  <2>7. SlotsAreLive'
    BY <1>1, <2>1, <2>3, <2>4, <2>5, <2>6 DEF LeaseInv, SlotsAreLive
  <2>8. CleanHandover'
    <3> SUFFICES ASSUME NEW i \in IdleSlots' PROVE db'[i] \notin dirty
      BY <1>3 DEF CleanHandover
    <3>1. i \in OpenSlots \cup {cursor + 1} /\ i \in Slots
      BY <2>4 DEF IdleSlots, OpenSlots, Slots
    <3>2. CASE i = cursor + 1
      BY <2>1, <2>3, <3>1, <3>2 DEF LeaseInv
    <3>3. CASE i \in OpenSlots
      BY <1>4, <2>5, <3>3 DEF LeaseInv, CleanHandover, IdleSlots
    <3> QED
      BY <3>1, <3>2, <3>3
  <2>9. DestroyClosesAll' /\ dirty' \subseteq live'
    BY <1>3, <2>1 DEF LeaseInv, DestroyClosesAll
  <2> QED
    BY <1>3, <1>6, <2>1, <2>7, <2>8, <2>9 DEF LeaseInv
<1>8. CASE /\ \E h \in Handles \cup {NULL} : OpenFails(h)
           /\ UNCHANGED <<db, num>>
  <2>1. live' = live /\ db' = db
    BY <1>8 DEF NoHandleLeft, OpenFails
  <2>2. OpenSlots' = OpenSlots /\ PooledHandles' = PooledHandles
    BY <2>1 DEF OpenSlots, PooledHandles, Slots
  <2> QED
    BY <1>1, <1>3, <1>6, <2>1, <2>2
    DEF LeaseInv, CleanHandover, SlotsAreLive, DestroyClosesAll, IdleSlots
<1> QED
  BY <1>7, <1>8 DEF CreateSlot

\* Steps that touch neither slots nor loans nor connections.
LEMMA QuietLease ==
    ASSUME LeaseInv, phase # "destroyed", phase' # "destroyed",
           UNCHANGED <<db, in_use, live, dirty, held>>
    PROVE  LeaseInv'
<1>1. OpenSlots' = OpenSlots /\ PooledHandles' = PooledHandles
  BY DEF OpenSlots, PooledHandles, Slots
<1> QED
  BY <1>1 DEF LeaseInv, HeldIsPooled, CleanHandover, SlotsAreLive,
     DestroyClosesAll, IdleSlots

-----------------------------------------------------------------------------
(* The actions that lend, use and take back *)

\* An idle connection is nobody's and clean, and acquire lends it.
LEMMA AcquireIdleLease ==
    ASSUME PoolInv, LeaseInv, NEW t \in Tasks, AcquireIdle(t)
    PROVE  /\ LeaseInv'
           /\ UNCHANGED <<live, dirty>>
           /\ \E h \in live \ dirty :
                /\ \A u \in Tasks : h \notin held[u]
                /\ held' = [held EXCEPT ![t] = @ \cup {h}]
<1>1. PICK i \in IdleSlots : in_use' = in_use \cup {i} /\ Hand(t, db[i])
  BY DEF AcquireIdle
<1>2. TypeOK /\ phase = "ready" /\ phase' = "ready"
  BY DEF PoolInv, TypeOK, PhaseMatchesCalls, AcquireIdle
<1>3. UNCHANGED <<db, live, dirty>>
  BY DEF AcquireIdle
<1>4. i \in OpenSlots /\ i \in Slots
  BY DEF IdleSlots, OpenSlots
<1>5. db[i] \in live /\ db[i] # NULL /\ db[i] \notin dirty
  BY <1>2, <1>4, OpenSlotsLive DEF LeaseInv, CleanHandover
<1>6. held' = [held EXCEPT ![t] = @ \cup {db[i]}]
  BY <1>1, <1>5 DEF Hand
<1>7. \A u \in Tasks : db[i] \notin held[u]
  BY <1>2, IdleIsFree
<1>8. \A u \in Tasks : held'[u] = IF u = t THEN held[u] \cup {db[i]} ELSE held[u]
  BY <1>2, <1>6 DEF TypeOK
<1>9. OpenSlots' = OpenSlots /\ PooledHandles' = PooledHandles
  BY <1>3 DEF OpenSlots, PooledHandles, Slots
<1>10. HeldIsPooled'
  <2> SUFFICES ASSUME NEW u \in Tasks, NEW h \in held'[u]
               PROVE  /\ h \in live'
                      /\ \E j \in in_use' : db'[j] = h
                      /\ \A v \in Tasks \ {u} : h \notin held'[v]
    BY DEF HeldIsPooled
  <2>1. CASE h = db[i]
    <3>1. u = t
      BY <1>7, <1>8, <2>1
    <3> QED
      BY <1>1, <1>3, <1>5, <1>7, <1>8, <2>1, <3>1
  <2>2. CASE h # db[i]
    <3>1. h \in held[u]
      BY <1>8, <2>2
    <3>2. PICK j \in in_use : db[j] = h
      BY <3>1 DEF LeaseInv, HeldIsPooled
    <3>3. h \in live /\ \A v \in Tasks \ {u} : h \notin held[v]
      BY <3>1 DEF LeaseInv, HeldIsPooled
    <3>4. h \in live' /\ j \in in_use' /\ db'[j] = h
      BY <1>1, <1>3, <3>2, <3>3
    <3>5. \A v \in Tasks \ {u} : h \notin held'[v]
      BY <1>8, <2>2, <3>3
    <3> QED
      BY <3>4, <3>5
  <2> QED
    BY <2>1, <2>2
<1>11. CleanHandover'
  BY <1>1, <1>3, <1>9 DEF LeaseInv, CleanHandover, IdleSlots
<1>12. SlotsAreLive' /\ DestroyClosesAll' /\ dirty' \subseteq live'
  BY <1>2, <1>3, <1>9 DEF LeaseInv, SlotsAreLive, DestroyClosesAll
<1> QED
  BY <1>3, <1>5, <1>6, <1>7, <1>10, <1>11, <1>12 DEF LeaseInv

\* acquire lends a connection it has just opened, or returns NULL.
LEMMA AcquireMissLease ==
    ASSUME NoHandleLeft, PoolInv, LeaseInv, NEW t \in Tasks, AcquireMiss(t)
    PROVE  /\ LeaseInv'
           /\ dirty' = dirty
           /\ \/ UNCHANGED <<live, held>>
              \/ \E h \in Handles \ live :
                   /\ live' = live \cup {h}
                   /\ held' = [held EXCEPT ![t] = @ \cup {h}]
<1>1. TypeOK /\ phase = "ready" /\ phase' = "ready" /\ dirty' = dirty
  BY DEF PoolInv, TypeOK, PhaseMatchesCalls, AcquireMiss
<1>2. CASE UNCHANGED <<db, in_use, live, held>>
  <2>1. LeaseInv'
    BY <1>1, <1>2, QuietLease
  <2> QED
    BY <1>1, <1>2, <2>1
<1>3. CASE \E i \in EmptySlots, h \in Handles :
             /\ OpenSucceeds(h)
             /\ db' = [db EXCEPT ![i] = h]
             /\ in_use' = in_use \cup {i}
             /\ Hand(t, h)
  <2>1. PICK i \in EmptySlots, h \in Handles :
          /\ h \notin live
          /\ live' = live \cup {h}
          /\ db' = [db EXCEPT ![i] = h]
          /\ in_use' = in_use \cup {i}
          /\ Hand(t, h)
    BY <1>3 DEF OpenSucceeds
  <2>2. h # NULL /\ i \in Slots /\ i \notin OpenSlots /\ db[i] = NULL
    BY SetsAssumption DEF EmptySlots, OpenSlots
  <2>3. \A j \in Slots : db'[j] = IF j = i THEN h ELSE db[j]
    BY <1>1, <2>1 DEF TypeOK
  <2>4. OpenSlots' = OpenSlots \cup {i}
    BY <2>2, <2>3 DEF OpenSlots, Slots
  <2>5. \A j \in OpenSlots : db[j] \in live /\ db'[j] = db[j]
    BY <1>1, <2>2, <2>3, OpenSlotsLive DEF OpenSlots, LeaseInv
  <2>6. held' = [held EXCEPT ![t] = @ \cup {h}]
    BY <2>1, <2>2 DEF Hand
  <2>7. \A u \in Tasks : held'[u] = IF u = t THEN held[u] \cup {h} ELSE held[u]
    BY <1>1, <2>6 DEF TypeOK
  <2>8. \A u \in Tasks : h \notin held[u]
    BY <2>1 DEF LeaseInv, HeldIsPooled
  <2>9. in_use \subseteq OpenSlots
    BY DEF PoolInv, SlotsMatchCounters
  <2>10. HeldIsPooled'
    <3> SUFFICES ASSUME NEW u \in Tasks, NEW g \in held'[u]
                 PROVE  /\ g \in live'
                        /\ \E j \in in_use' : db'[j] = g
                        /\ \A v \in Tasks \ {u} : g \notin held'[v]
      BY DEF HeldIsPooled
    <3>1. CASE g = h
      <4>1. u = t
        BY <2>7, <2>8, <3>1
      <4> QED
        BY <2>1, <2>2, <2>3, <2>7, <2>8, <3>1, <4>1
    <3>2. CASE g # h
      <4>1. g \in held[u]
        BY <2>7, <3>2
      <4>2. PICK j \in in_use : db[j] = g
        BY <4>1 DEF LeaseInv, HeldIsPooled
      <4>3. g \in live /\ \A v \in Tasks \ {u} : g \notin held[v]
        BY <4>1 DEF LeaseInv, HeldIsPooled
      <4>4. j \in in_use' /\ db'[j] = g
        BY <2>1, <2>5, <2>9, <4>2
      <4>5. \A v \in Tasks \ {u} : g \notin held'[v]
        BY <2>7, <3>2, <4>3
      <4>6. g \in live'
        BY <2>1, <4>3
      <4> QED
        BY <4>4, <4>5, <4>6
    <3> QED
      BY <3>1, <3>2
  <2>11. PooledHandles' = live'
    <3>1. PooledHandles = live
      BY <1>1 DEF LeaseInv, SlotsAreLive
    <3>2. PooledHandles' = {db'[j] : j \in Slots} \ {NULL}
      BY DEF PooledHandles, Slots
    <3>3. ASSUME NEW x \in live PROVE x \in PooledHandles'
      <4>1. PICK j \in Slots : db[j] = x /\ x # NULL
        BY <3>1, <3>3 DEF PooledHandles
      <4> QED
        BY <2>2, <2>3, <3>2, <4>1
    <3>4. h \in PooledHandles'
      BY <2>2, <2>3, <3>2
    <3>5. ASSUME NEW x \in PooledHandles' PROVE x \in live \cup {h}
      <4>1. PICK j \in Slots : db'[j] = x /\ x # NULL
        BY <3>2, <3>5
      <4>2. CASE j = i
        BY <2>3, <4>1, <4>2
      <4>3. CASE j # i
        BY <2>3, <3>1, <4>1, <4>3 DEF PooledHandles
      <4> QED
        BY <4>2, <4>3
    <3> QED
      BY <2>1, <3>3, <3>4, <3>5
  <2>12. SlotsAreLive'
    <3>1. \A j, k \in OpenSlots : db[j] = db[k] => j = k
      BY <1>1 DEF LeaseInv, SlotsAreLive
    <3>2. db'[i] = h /\ \A j \in OpenSlots : db'[j] # h
      BY <2>1, <2>2, <2>3, <2>5
    <3>3. \A j, k \in OpenSlots' : db'[j] = db'[k] => j = k
      BY <2>4, <2>5, <3>1, <3>2
    <3> QED
      BY <2>11, <3>3 DEF SlotsAreLive
  <2>13. CleanHandover'
    BY <1>1, <2>1, <2>4, <2>5 DEF LeaseInv, CleanHandover, IdleSlots
  <2>14. DestroyClosesAll' /\ dirty' \subseteq live'
    BY <1>1, <2>1 DEF LeaseInv, DestroyClosesAll
  <2> QED
    BY <1>1, <2>1, <2>6, <2>10, <2>12, <2>13, <2>14 DEF LeaseInv
<1>4. CASE /\ \E h \in Handles \cup {NULL} : OpenFails(h) /\ Hand(t, h)
           /\ UNCHANGED <<db, in_use>>
  <2>1. live' = live /\ Hand(t, NULL)
    BY <1>4 DEF NoHandleLeft, OpenFails
  <2>2. held' = held
    BY <1>1, <2>1 DEF Hand, TypeOK
  <2> QED
    BY <1>2, <1>4, <2>1, <2>2
<1> QED
  BY <1>2, <1>3, <1>4 DEF AcquireMiss

\* A transaction on a connection that is lent leaves the idle ones clean.
LEMMA BeginLease ==
    ASSUME PoolInv, LeaseInv, NEW t \in Tasks, NEW h \in held[t], Begin(t, h)
    PROVE  LeaseInv'
<1>1. phase = "ready" /\ phase' = "ready"
  BY DEF Begin
<1>2. UNCHANGED <<db, in_use, live, held>> /\ dirty' = dirty \cup {h} /\ h \in live
  BY DEF Begin
<1>3. OpenSlots' = OpenSlots /\ PooledHandles' = PooledHandles
  BY <1>2 DEF OpenSlots, PooledHandles, Slots
<1>4. \A i \in IdleSlots : db[i] # h
  BY <1>1, IdleIsFree
<1> QED
  BY <1>1, <1>2, <1>3, <1>4
  DEF LeaseInv, HeldIsPooled, CleanHandover, SlotsAreLive, DestroyClosesAll,
      IdleSlots

\* release finds the slot of what a task holds, and cleans the connection.
LEMMA ReleaseLease ==
    ASSUME PoolInv, LeaseInv, NEW t \in Tasks, NEW h \in held[t], Release(t, h)
    PROVE  /\ LeaseInv'
           /\ live' = live
           /\ held' = [held EXCEPT ![t] = @ \ {h}]
           /\ dirty' = dirty \ {h}
<1>1. TypeOK /\ phase = "ready" /\ phase' = "ready"
  BY DEF PoolInv, Release
<1>2. Matching(h) # {}
  BY DEF LeaseInv, HeldIsPooled, Matching
<1>3. PICK i \in Matching(h) : in_use' = in_use \ {i}
  BY <1>2 DEF Release
<1>4. i \in in_use /\ db[i] = h
  BY DEF Matching
<1>5. UNCHANGED <<db, live>> /\ dirty' = dirty \ {h}
  BY <1>2 DEF Release, Rollback
<1>6. held' = [held EXCEPT ![t] = @ \ {h}]
  BY DEF Release, Drop
<1>7. \A u \in Tasks : held'[u] = IF u = t THEN held[u] \ {h} ELSE held[u]
  BY <1>1, <1>6 DEF TypeOK
<1>8. OpenSlots' = OpenSlots /\ PooledHandles' = PooledHandles
  BY <1>5 DEF OpenSlots, PooledHandles, Slots
<1>9. HeldIsPooled'
  <2> SUFFICES ASSUME NEW u \in Tasks, NEW g \in held'[u]
               PROVE  /\ g \in live'
                      /\ \E j \in in_use' : db'[j] = g
                      /\ \A v \in Tasks \ {u} : g \notin held'[v]
    BY DEF HeldIsPooled
  <2>1. g \in held[u] /\ g # h
    <3>1. CASE u = t
      BY <1>7, <3>1
    <3>2. CASE u # t
      <4>1. h \notin held[u]
        BY <3>2 DEF LeaseInv, HeldIsPooled
      <4> QED
        BY <1>7, <3>2, <4>1
    <3> QED
      BY <3>1, <3>2
  <2>2. PICK j \in in_use : db[j] = g
    BY <2>1 DEF LeaseInv, HeldIsPooled
  <2>3. g \in live /\ \A v \in Tasks \ {u} : g \notin held[v]
    BY <2>1 DEF LeaseInv, HeldIsPooled
  <2>4. g \in live' /\ j \in in_use' /\ db'[j] = g
    BY <1>3, <1>4, <1>5, <2>1, <2>2, <2>3
  <2>5. \A v \in Tasks \ {u} : g \notin held'[v]
    BY <1>7, <2>3
  <2> QED
    BY <2>4, <2>5
<1>10. CleanHandover'
  BY <1>3, <1>4, <1>5, <1>8 DEF LeaseInv, CleanHandover, IdleSlots
<1>11. SlotsAreLive' /\ DestroyClosesAll' /\ dirty' \subseteq live'
  BY <1>1, <1>5, <1>8 DEF LeaseInv, SlotsAreLive, DestroyClosesAll
<1> QED
  BY <1>5, <1>6, <1>9, <1>10, <1>11 DEF LeaseInv

\* destroy closes every slot and the tasks that held connections are gone.
LEMMA DestroyLease == PoolInv /\ LeaseInv /\ Destroy => LeaseInv'
<1> SUFFICES ASSUME PoolInv, LeaseInv, Destroy PROVE LeaseInv'
  OBVIOUS
<1>1. PooledHandles = live
  BY DEF Destroy, LeaseInv, SlotsAreLive
<1>2. live' = {} /\ dirty' = {} /\ phase' = "destroyed"
  BY <1>1 DEF Destroy, LeaseInv
<1>3. \A t \in Tasks : held'[t] = {}
  BY DEF Destroy
<1> QED
  BY <1>2, <1>3 DEF LeaseInv, HeldIsPooled, CleanHandover, SlotsAreLive,
     DestroyClosesAll

-----------------------------------------------------------------------------
(* Every step is a step of the leases, or none of theirs *)

\* The pool refines ExclusiveLease step by step.
LEMMA StepRefines ==
    ASSUME NoHandleLeft, PoolInv, LeaseInv, [Next]_vars
    PROVE  LeaseInv' /\ [Lease!LeaseNext]_(Lease!leaseVars)
<1> DEFINE Quiet == LeaseInv' /\ UNCHANGED <<live, held, dirty>>
<1>1. ASSUME Quiet PROVE LeaseInv' /\ [Lease!LeaseNext]_(Lease!leaseVars)
  BY <1>1 DEF Lease!leaseVars
<1>2. CASE CreateSlot
  <2>1. CASE live' = live
    BY <1>1, <1>2, <2>1, CreateSlotLease
  <2>2. CASE \E h \in Handles \ live : live' = live \cup {h}
    <3>1. \E h \in Handles : Lease!Open(h)
      BY <1>2, <2>2, CreateSlotLease DEF Lease!Open
    <3> QED
      BY <1>2, <3>1, CreateSlotLease DEF Lease!LeaseNext
  <2> QED
    BY <1>2, <2>1, <2>2, CreateSlotLease
<1>3. CASE \/ CreateReturn
           \/ \E t \in Tasks : \/ AcquireCall(t) \/ TakeToken(t)
                              \/ TimeOut(t) \/ GiveToken(t)
  <2>1. phase # "destroyed" /\ phase' # "destroyed"
    <3>1. \A t \in Tasks : pc[t] # "deleted" => phase # "destroyed"
      BY DEF PoolInv, PhaseMatchesCalls
    <3> QED
      BY <1>3, <3>1
      DEF CreateReturn, AcquireCall, TakeToken, TimeOut, GiveToken
  <2>2. UNCHANGED <<db, in_use, live, dirty, held>>
    BY <1>3 DEF CreateReturn, AcquireCall, TakeToken, TimeOut, GiveToken
  <2> QED
    BY <1>1, <2>1, <2>2, QuietLease
<1>4. ASSUME NEW t \in Tasks, AcquireIdle(t)
      PROVE  LeaseInv' /\ [Lease!LeaseNext]_(Lease!leaseVars)
  <2>1. PICK h \in live \ dirty :
          /\ \A u \in Tasks : h \notin held[u]
          /\ held' = [held EXCEPT ![t] = @ \cup {h}]
    BY <1>4, AcquireIdleLease
  <2>2. UNCHANGED <<live, dirty>> /\ LeaseInv'
    BY <1>4, AcquireIdleLease
  <2>3. h \in Handles
    BY DEF PoolInv, TypeOK
  <2>4. Lease!Lend(t, h, {})
    BY <2>1, <2>2 DEF Lease!Lend, Lease!Free
  <2> QED
    BY <2>2, <2>3, <2>4 DEF Lease!LeaseNext
<1>5. ASSUME NEW t \in Tasks, AcquireMiss(t)
      PROVE  LeaseInv' /\ [Lease!LeaseNext]_(Lease!leaseVars)
  <2>1. LeaseInv' /\ dirty' = dirty
    BY <1>5, AcquireMissLease
  <2>2. CASE UNCHANGED <<live, held>>
    BY <1>1, <2>1, <2>2
  <2>3. CASE \E h \in Handles \ live :
               /\ live' = live \cup {h}
               /\ held' = [held EXCEPT ![t] = @ \cup {h}]
    <3>1. PICK h \in Handles \ live :
            /\ live' = live \cup {h}
            /\ held' = [held EXCEPT ![t] = @ \cup {h}]
      BY <2>3
    <3>2. \A u \in Tasks : h \notin held[u]
      BY <3>1 DEF LeaseInv, HeldIsPooled
    <3>3. Lease!Lend(t, h, {})
      BY <2>1, <3>1, <3>2 DEF Lease!Lend, Lease!Free
    <3> QED
      BY <2>1, <3>3 DEF Lease!LeaseNext
  <2> QED
    BY <1>5, <2>2, <2>3, AcquireMissLease
<1>6. ASSUME NEW t \in Tasks, NEW h \in held[t], Begin(t, h)
      PROVE  LeaseInv' /\ [Lease!LeaseNext]_(Lease!leaseVars)
  <2>1. h \in Handles
    BY DEF PoolInv, TypeOK
  <2>2. Lease!Use(t, h)
    BY <1>6 DEF Begin, Lease!Use
  <2> QED
    BY <1>6, <2>1, <2>2, BeginLease DEF Lease!LeaseNext
<1>7. ASSUME NEW t \in Tasks, NEW h \in held[t], Release(t, h)
      PROVE  LeaseInv' /\ [Lease!LeaseNext]_(Lease!leaseVars)
  <2>1. h \in Handles
    BY DEF PoolInv, TypeOK
  <2>2. Lease!Return(t, h)
    BY <1>7, ReleaseLease DEF Lease!Return
  <2> QED
    BY <1>7, <2>1, <2>2, ReleaseLease DEF Lease!LeaseNext
<1>8. CASE Destroy
  <2>1. Lease!End
    BY <1>8 DEF Destroy, Lease!End
  <2> QED
    BY <1>8, <2>1, DestroyLease DEF Lease!LeaseNext
<1>9. CASE Shrink \/ UNCHANGED vars
  <2>1. UNCHANGED vars
    BY <1>9, ShrinkStutters
  <2>2. OpenSlots' = OpenSlots /\ PooledHandles' = PooledHandles
    BY <2>1 DEF vars, OpenSlots, PooledHandles, Slots
  <2>3. LeaseInv'
    BY <2>1, <2>2 DEF vars, LeaseInv, HeldIsPooled, CleanHandover,
       SlotsAreLive, DestroyClosesAll, IdleSlots
  <2> QED
    BY <1>1, <2>1, <2>3 DEF vars
<1> QED
  BY <1>2, <1>3, <1>4, <1>5, <1>6, <1>7, <1>8, <1>9 DEF Next

-----------------------------------------------------------------------------
(* The theorems *)

\* In every reachable state of a pool whose failed opens leave no handle, the
\* loans, the slots and the live connections correspond.
THEOREM LeaseInvariant == ASSUME NoHandleLeft PROVE Spec => []LeaseInv
<1>1. PoolInv /\ LeaseInv /\ [Next]_vars => LeaseInv'
  BY StepRefines
<1> QED
  BY <1>1, LeaseInit, PoolInvariant, PTL DEF Spec

\* What acquire has returned is an open connection of a slot in use, and
\* nobody else has it.
THEOREM LoansArePooled == ASSUME NoHandleLeft PROVE Spec => []HeldIsPooled
<1>1. LeaseInv => HeldIsPooled
  BY DEF LeaseInv
<1> QED
  BY <1>1, LeaseInvariant, PTL

\* The ROLLBACK in release reaches every connection before its next holder.
THEOREM HandoverIsClean == ASSUME NoHandleLeft PROVE Spec => []CleanHandover
<1>1. LeaseInv => CleanHandover
  BY DEF LeaseInv
<1> QED
  BY <1>1, LeaseInvariant, PTL

\* The pool implements the exclusive leases: sqlite_pool_acquire lends open,
\* clean connections to one task at a time, and nothing closes them meanwhile.
THEOREM PoolImplementsLease == ASSUME NoHandleLeft PROVE Spec => ImplementsLease
<1>1. Init => Lease!LeaseInit
  BY DEF Init, Lease!LeaseInit
<1>2. PoolInv /\ LeaseInv /\ [Next]_vars
        => [Lease!LeaseNext]_(Lease!leaseVars)
  BY StepRefines
<1> QED
  BY <1>1, <1>2, LeaseInvariant, PoolInvariant, PTL
  DEF Spec, ImplementsLease, Lease!LeaseSpec
=============================================================================
