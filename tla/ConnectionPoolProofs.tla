------------------------ MODULE ConnectionPoolProofs ------------------------
(***************************************************************************)
(* The safety of the connection pool for every number of tasks and every   *)
(* min_connections and max_connections, whatever opens fail: PoolInv is    *)
(* inductive, so at all times the pool has at most one token, call in      *)
(* progress or loan for each of min_connections and no fewer of them than  *)
(* connections, and its gauges agree with its slots.                       *)
(***************************************************************************)
EXTENDS ConnectionPool, FiniteSetTheorems, TLAPS

-----------------------------------------------------------------------------
(* Counting *)

\* The sets the invariant counts are finite.
LEMMA CountsAreNaturals ==
    ASSUME TypeOK
    PROVE  /\ \A l : IsFiniteSet(At(l)) /\ Cardinality(At(l)) \in Nat
           /\ IsFiniteSet(in_use) /\ Cardinality(in_use) \in Nat
           /\ IsFiniteSet(OpenSlots) /\ Cardinality(OpenSlots) \in Nat
<1>1. IsFiniteSet(Slots)
  BY FS_Interval, SizesAssumption DEF Slots
<1>2. in_use \in SUBSET Slots /\ OpenSlots \in SUBSET Slots
  BY DEF TypeOK, OpenSlots
<1>3. \A l : At(l) \in SUBSET Tasks
  BY DEF At
<1>4. \A l : IsFiniteSet(At(l)) /\ Cardinality(At(l)) \in Nat
  BY <1>3, SetsAssumption, FS_Subset, FS_CardinalityType
<1>5. /\ IsFiniteSet(in_use) /\ Cardinality(in_use) \in Nat
      /\ IsFiniteSet(OpenSlots) /\ Cardinality(OpenSlots) \in Nat
  BY <1>1, <1>2, FS_Subset, FS_CardinalityType
<1> QED
  BY <1>4, <1>5

\* A task that moves from one label to another leaves one count and joins the
\* other.
LEMMA MovingCounts ==
    ASSUME TypeOK, NEW t \in Tasks, NEW a, NEW b, a # b, pc[t] = a, Goto(t, b)
    PROVE  /\ Cardinality(At(a)') = Cardinality(At(a)) - 1
           /\ Cardinality(At(b)') = Cardinality(At(b)) + 1
           /\ \A c : c # a /\ c # b => At(c)' = At(c)
<1>1. /\ At(a)' = At(a) \ {t}
      /\ At(b)' = At(b) \cup {t}
      /\ \A c : c # a /\ c # b => At(c)' = At(c)
  BY DEF At, Goto, TypeOK
<1>2. t \in At(a) /\ t \notin At(b)
  BY DEF At
<1>3. IsFiniteSet(At(a)) /\ IsFiniteSet(At(b))
  BY CountsAreNaturals
<1>4. Cardinality(At(a) \ {t}) = Cardinality(At(a)) - 1
  BY <1>2, <1>3, FS_RemoveElement
<1>5. Cardinality(At(b) \cup {t}) = Cardinality(At(b)) + 1
  BY <1>2, <1>3, FS_AddElement
<1> QED
  BY <1>1, <1>4, <1>5

\* When no slot is idle, the connections are exactly the slots in use.
LEMMA NoIdleSlot ==
    ASSUME IdleSlots = {}, in_use \subseteq OpenSlots
    PROVE  in_use = OpenSlots
BY DEF IdleSlots

\* As many connections as promises, or fewer, and no idle one: shrink has
\* nothing to close, because the pool is never above its minimum.
LEMMA ShrinkClosesNothing ==
    ASSUME TypeOK, NeverAboveMinimum, NEW old \in SUBSET IdleSlots
    PROVE  Doomed(old) = {}
<1>1. IsFiniteSet(old)
  <2>1. old \in SUBSET OpenSlots
    BY DEF IdleSlots
  <2> QED
    BY <2>1, CountsAreNaturals, FS_Subset
<1>2. SUFFICES ASSUME NEW i \in Doomed(old)
               PROVE  FALSE
  OBVIOUS
<1>3. DEFINE earlier == {j \in old : j < i}
<1>4. earlier \in SUBSET old
  OBVIOUS
<1>5. Cardinality(earlier) \in Nat
  BY <1>1, <1>4, FS_Subset, FS_CardinalityType
<1>6. num - Cardinality(earlier) > MinConn
  BY DEF Doomed
<1>7. num <= MinConn /\ num \in Nat /\ MinConn \in Nat
  BY SizesAssumption DEF NeverAboveMinimum, TypeOK
<1> QED
  BY <1>5, <1>6, <1>7

-----------------------------------------------------------------------------
(* The invariant holds initially *)

\* PoolInv holds when sqlite_pool_create starts.
LEMMA InitInv == Init => PoolInv
<1> SUFFICES ASSUME Init PROVE PoolInv
  OBVIOUS
<1>1. TypeOK
  BY SizesAssumption, SetsAssumption DEF Init, TypeOK, InitialTokens
<1>2. OpenSlots = {}
  BY DEF Init, OpenSlots
<1>3. \A l : l # "out" => At(l) = {}
  BY DEF Init, At
<1>4. Cardinality({}) = 0
  BY FS_EmptySet
<1>5. PhaseMatchesCalls
  BY <1>2 DEF Init, PhaseMatchesCalls, InitialTokens
<1>6. SlotsMatchCounters
  BY <1>2, <1>4 DEF Init, SlotsMatchCounters
<1>7. Cardinality(At("granted")) = 0 /\ Cardinality(At("returning")) = 0
  BY <1>3, <1>4
<1>8. TokensMatchConnections
  BY <1>4, <1>7, SizesAssumption
  DEF Init, TokensMatchConnections, Promised, InitialTokens
<1>9. NeverAboveMinimum /\ StatsMatchSlots
  BY SizesAssumption DEF Init, NeverAboveMinimum, StatsMatchSlots
<1> QED
  BY <1>1, <1>5, <1>6, <1>8, <1>9 DEF PoolInv

-----------------------------------------------------------------------------
(* Every step preserves the invariant *)

\* One turn of the loop of create.
LEMMA CreateSlotInv == PoolInv /\ CreateSlot => PoolInv'
<1> SUFFICES ASSUME PoolInv, CreateSlot PROVE PoolInv'
  OBVIOUS
<1> USE SizesAssumption, SetsAssumption
<1>1. /\ TypeOK
      /\ num = Cardinality(OpenSlots)
      /\ OpenSlots \subseteq 1..cursor
      /\ num <= MinConn
      /\ IsFiniteSet(OpenSlots)
  BY CountsAreNaturals
  DEF PoolInv, PhaseMatchesCalls, SlotsMatchCounters, NeverAboveMinimum,
      CreateSlot
<1>2. cursor + 1 \in Slots \ OpenSlots
  BY <1>1 DEF CreateSlot, Slots, TypeOK
<1>3. /\ num' = Cardinality(OpenSlots')
      /\ OpenSlots' \in SUBSET (1..(cursor + 1))
      /\ db' \in [Slots -> Handles \cup {NULL}]
      /\ live' \subseteq Handles
  <2>1. CASE \E h \in Handles : /\ OpenSucceeds(h)
                               /\ db' = [db EXCEPT ![cursor + 1] = h]
                               /\ num' = num + 1
    <3>1. OpenSlots' = OpenSlots \cup {cursor + 1}
      BY <1>1, <1>2, <2>1 DEF OpenSlots, Slots, TypeOK
    <3>2. num' = Cardinality(OpenSlots')
      BY <1>1, <1>2, <2>1, <3>1, FS_AddElement
    <3>3. OpenSlots' \in SUBSET (1..(cursor + 1))
      BY <1>1, <3>1 DEF TypeOK
    <3>4. db' \in [Slots -> Handles \cup {NULL}]
      BY <1>1, <2>1 DEF TypeOK
    <3>5. live' \subseteq Handles
      BY <1>1, <2>1 DEF OpenSucceeds, TypeOK
    <3> QED
      BY <3>2, <3>3, <3>4, <3>5
  <2>2. CASE /\ \E h \in Handles \cup {NULL} : OpenFails(h)
             /\ UNCHANGED <<db, num>>
    <3>1. OpenSlots' = OpenSlots
      BY <2>2 DEF OpenSlots, Slots
    <3>2. live' \subseteq Handles
      BY <1>1, <2>2 DEF OpenFails, TypeOK
    <3> QED
      BY <1>1, <2>2, <3>1, <3>2 DEF TypeOK
  <2> QED
    BY <2>1, <2>2 DEF CreateSlot
<1>4. cursor' = cursor + 1 /\ cursor' \in 0..MinConn
  BY <1>1 DEF CreateSlot, TypeOK
<1>5. num' \in 0..MinConn
  <2> DEFINE tried == cursor + 1
  <2>a. tried \in Nat \ {0}
    BY <1>1 DEF TypeOK
  <2>1. IsFiniteSet(1..tried) /\ Cardinality(1..tried) = tried
    <3> HIDE DEF tried
    <3> QED
      BY <2>a, FS_Interval
  <2>2. Cardinality(OpenSlots') \in Nat /\ Cardinality(OpenSlots') <= cursor + 1
    BY <1>3, <2>1, FS_Subset, FS_CardinalityType
  <2> QED
    BY <1>3, <1>4, <2>2
<1>6. TypeOK'
  BY <1>1, <1>3, <1>4, <1>5 DEF CreateSlot, TypeOK, Slots
<1>7. PhaseMatchesCalls'
  BY <1>3, <1>4 DEF PoolInv, PhaseMatchesCalls, CreateSlot
<1>8. SlotsMatchCounters'
  BY <1>3 DEF PoolInv, PhaseMatchesCalls, SlotsMatchCounters, CreateSlot
<1>9. TokensMatchConnections'
  <2>1. Promised' = Promised
    BY DEF CreateSlot, Promised, At
  <2>2. /\ At("granted") = {} /\ At("returning") = {}
        /\ in_use = {} /\ sem = MinConn
    BY DEF PoolInv, PhaseMatchesCalls, CreateSlot, At
  <2>3. Promised = MinConn
    BY <2>2, FS_EmptySet DEF Promised
  <2> QED
    BY <1>5, <2>1, <2>3 DEF TokensMatchConnections
<1>10. NeverAboveMinimum' /\ StatsMatchSlots'
  BY <1>5 DEF NeverAboveMinimum, StatsMatchSlots, CreateSlot
<1> QED
  BY <1>6, <1>7, <1>8, <1>9, <1>10 DEF PoolInv

\* create returns the pool.
LEMMA CreateReturnInv == PoolInv /\ CreateReturn => PoolInv'
<1> SUFFICES ASSUME PoolInv, CreateReturn PROVE PoolInv'
  OBVIOUS
<1> USE SizesAssumption, SetsAssumption
<1>1. OpenSlots' = OpenSlots /\ \A l : At(l)' = At(l)
  BY DEF CreateReturn, OpenSlots, At
<1>2. TypeOK'
  <2>1. stats' \in [total : Nat, active : Nat, idle : Nat, peak : Nat]
    <3>1. num \in Nat
      BY DEF PoolInv, TypeOK
    <3> QED
      BY <3>1 DEF PoolInv, TypeOK, CreateReturn
  <2> QED
    BY <2>1 DEF PoolInv, TypeOK, CreateReturn, Slots
<1>3. PhaseMatchesCalls'
  BY DEF PoolInv, PhaseMatchesCalls, CreateReturn, At
<1>4. SlotsMatchCounters' /\ NeverAboveMinimum'
  BY <1>1 DEF PoolInv, SlotsMatchCounters, NeverAboveMinimum, CreateReturn
<1>5. TokensMatchConnections'
  BY <1>1 DEF PoolInv, TokensMatchConnections, Promised, CreateReturn
<1>6. StatsMatchSlots'
  <2>1. in_use = {} /\ stats.active = 0 /\ num = Cardinality(OpenSlots)
    BY DEF PoolInv, PhaseMatchesCalls, SlotsMatchCounters, CreateReturn
  <2>2. stats' = [stats EXCEPT !.total = num, !.idle = num]
    BY DEF CreateReturn
  <2>3. stats'.total = num /\ stats'.idle = num /\ stats'.active = 0
    BY <2>1, <2>2 DEF PoolInv, TypeOK
  <2> QED
    BY <1>1, <2>1, <2>3, FS_EmptySet
    DEF StatsMatchSlots, CreateReturn, PoolInv, TypeOK
<1> QED
  BY <1>2, <1>3, <1>4, <1>5, <1>6 DEF PoolInv

\* A step that only moves a task between two labels that hold no promise.
LEMMA CallStepInv ==
    ASSUME PoolInv, NEW t \in Tasks, AcquireCall(t) \/ TimeOut(t)
    PROVE  PoolInv'
<1> USE SizesAssumption, SetsAssumption
<1>1. TypeOK'
  BY DEF PoolInv, TypeOK, AcquireCall, TimeOut, Goto, Slots
<1>2. OpenSlots' = OpenSlots
  BY DEF AcquireCall, TimeOut, OpenSlots
<1>3. At("granted")' = At("granted") /\ At("returning")' = At("returning")
  BY DEF PoolInv, TypeOK, AcquireCall, TimeOut, Goto, At
<1>4. phase = "ready" /\ phase' = "ready"
  BY DEF PoolInv, PhaseMatchesCalls, TypeOK, AcquireCall, TimeOut
<1>5. At("deleted")' = At("deleted")
  BY DEF PoolInv, TypeOK, AcquireCall, TimeOut, Goto, At
<1>6. PhaseMatchesCalls'
  BY <1>4, <1>5 DEF PoolInv, PhaseMatchesCalls
<1>7. UNCHANGED <<in_use, num, sem, stats>>
  BY DEF AcquireCall, TimeOut
<1>8. SlotsMatchCounters' /\ NeverAboveMinimum' /\ StatsMatchSlots'
  BY <1>2, <1>4, <1>7
  DEF PoolInv, SlotsMatchCounters, NeverAboveMinimum, StatsMatchSlots
<1>9. TokensMatchConnections'
  BY <1>3, <1>4, <1>7 DEF PoolInv, TokensMatchConnections, Promised
<1> QED
  BY <1>1, <1>6, <1>8, <1>9 DEF PoolInv

\* The semaphore is taken: a token becomes a call in progress.
LEMMA TakeTokenInv ==
    ASSUME PoolInv, NEW t \in Tasks, TakeToken(t)
    PROVE  PoolInv'
<1> USE SizesAssumption, SetsAssumption
<1>1. TypeOK /\ TypeOK'
  BY DEF PoolInv, TypeOK, TakeToken, Goto, Slots
<1>2. OpenSlots' = OpenSlots
  BY DEF TakeToken, OpenSlots
<1>3. phase = "ready" /\ phase' = "ready"
  BY DEF PoolInv, PhaseMatchesCalls, TypeOK, TakeToken
<1>4. PhaseMatchesCalls'
  BY <1>1, <1>3 DEF PoolInv, PhaseMatchesCalls, TakeToken, Goto, At, TypeOK
<1>5. SlotsMatchCounters' /\ NeverAboveMinimum' /\ StatsMatchSlots'
  BY <1>2, <1>3
  DEF PoolInv, SlotsMatchCounters, NeverAboveMinimum, StatsMatchSlots, TakeToken
<1>6. TokensMatchConnections'
  <2>1. pc[t] = "waiting" /\ Goto(t, "granted")
    BY DEF TakeToken
  <2>2. /\ Cardinality(At("granted")') = Cardinality(At("granted")) + 1
        /\ At("returning")' = At("returning")
    BY <1>1, <2>1, MovingCounts
  <2>3. sem' = sem - 1 /\ in_use' = in_use /\ num' = num
    BY DEF TakeToken
  <2>4. Promised' = Promised
    BY <1>1, <2>2, <2>3, CountsAreNaturals DEF Promised, TypeOK
  <2> QED
    BY <1>3, <2>3, <2>4 DEF PoolInv, TokensMatchConnections
<1> QED
  BY <1>1, <1>4, <1>5, <1>6 DEF PoolInv

\* A call in progress becomes the loan of an idle connection.
LEMMA AcquireIdleInv ==
    ASSUME PoolInv, NEW t \in Tasks, AcquireIdle(t)
    PROVE  PoolInv'
<1> USE SizesAssumption, SetsAssumption
<1>1. PICK i \in IdleSlots : in_use' = in_use \cup {i} /\ Hand(t, db[i])
  BY DEF AcquireIdle
<1>2. TypeOK
  BY DEF PoolInv
<1>3. phase = "ready" /\ phase' = "ready"
  BY DEF PoolInv, PhaseMatchesCalls, TypeOK, AcquireIdle
<1>4. i \in OpenSlots /\ i \notin in_use /\ i \in Slots /\ db[i] \in Handles
  BY <1>1, <1>2 DEF IdleSlots, OpenSlots, TypeOK
<1>5. OpenSlots' = OpenSlots
  BY DEF AcquireIdle, OpenSlots
<1>6. Cardinality(in_use') = Cardinality(in_use) + 1
  BY <1>1, <1>2, <1>4, CountsAreNaturals, FS_AddElement
<1>7. in_use' \in SUBSET OpenSlots
  BY <1>1, <1>4 DEF PoolInv, SlotsMatchCounters
<1>8. Cardinality(in_use') <= num
  BY <1>2, <1>7, CountsAreNaturals, FS_Subset DEF PoolInv, SlotsMatchCounters
<1>9. /\ stats'.total = stats.total
      /\ stats'.active = stats.active + 1
      /\ stats'.idle = stats.idle - 1
      /\ stats' \in [total : Nat, active : Nat, idle : Nat, peak : Nat]
  <2>1. /\ stats \in [total : Nat, active : Nat, idle : Nat, peak : Nat]
        /\ stats.active = Cardinality(in_use)
        /\ stats.idle + stats.active = num
        /\ num \in Nat
    BY <1>2, <1>3 DEF PoolInv, StatsMatchSlots, TypeOK
  <2>2. stats.idle - 1 \in Nat
    BY <1>2, <1>6, <1>8, <2>1, CountsAreNaturals
  <2> DEFINE p == IF stats.active + 1 > stats.peak
                  THEN stats.active + 1 ELSE stats.peak
  <2>3. stats' = [stats EXCEPT !.active = @ + 1, !.idle = @ - 1, !.peak = p]
    BY DEF AcquireIdle
  <2>4. p \in Nat
    BY <2>1
  <2> HIDE DEF p
  <2>5. stats.active + 1 \in Nat
    BY <2>1
  <2>6. stats' \in [total : Nat, active : Nat, idle : Nat, peak : Nat]
    BY <2>1, <2>2, <2>3, <2>4, <2>5
  <2>7. /\ stats'.total = stats.total
        /\ stats'.active = stats.active + 1
        /\ stats'.idle = stats.idle - 1
    BY <2>1, <2>3
  <2> QED
    BY <2>6, <2>7
<1>10. held' \in [Tasks -> SUBSET Handles]
  BY <1>1, <1>2, <1>4 DEF Hand, TypeOK
<1>11. TypeOK'
  BY <1>1, <1>2, <1>4, <1>9, <1>10 DEF TypeOK, AcquireIdle, Goto, Slots
<1>12. PhaseMatchesCalls'
  BY <1>2, <1>3 DEF PoolInv, PhaseMatchesCalls, AcquireIdle, Goto, At, TypeOK
<1>13. SlotsMatchCounters' /\ NeverAboveMinimum'
  BY <1>3, <1>5, <1>7
  DEF PoolInv, SlotsMatchCounters, NeverAboveMinimum, AcquireIdle
<1>14. StatsMatchSlots'
  BY <1>2, <1>3, <1>5, <1>6, <1>9
  DEF PoolInv, StatsMatchSlots, AcquireIdle, TypeOK
<1>15. TokensMatchConnections'
  <2>1. pc[t] = "granted" /\ Goto(t, "out")
    BY DEF AcquireIdle
  <2>2. /\ Cardinality(At("granted")') = Cardinality(At("granted")) - 1
        /\ At("returning")' = At("returning")
    BY <1>2, <2>1, MovingCounts
  <2>3. sem' = sem /\ num' = num
    BY DEF AcquireIdle
  <2>4. Promised' = Promised
    BY <1>2, <1>6, <2>2, <2>3, CountsAreNaturals DEF Promised, TypeOK
  <2> QED
    BY <1>3, <2>3, <2>4 DEF PoolInv, TokensMatchConnections
<1> QED
  BY <1>11, <1>12, <1>13, <1>14, <1>15 DEF PoolInv

\* What acquire finds when no slot is idle: every connection is in use, and
\* the call's own promise is left over.
LEMMA MissCounts ==
    ASSUME PoolInv, NEW t \in Tasks, AcquireMiss(t)
    PROVE  /\ phase = "ready" /\ phase' = "ready"
           /\ in_use = OpenSlots
           /\ num = Cardinality(in_use)
           /\ num + 1 <= Promised
           /\ Cardinality(At("granted")') = Cardinality(At("granted")) - 1
           /\ At("returning")' = At("returning")
           /\ At("deleted")' = At("deleted")
<1>1. TypeOK
  BY DEF PoolInv
<1>2. pc[t] = "granted" /\ Goto(t, "out") /\ phase' = phase
  BY DEF AcquireMiss
<1>3. phase = "ready"
  BY <1>2 DEF PoolInv, PhaseMatchesCalls, TypeOK
<1>4. in_use = OpenSlots
  BY NoIdleSlot DEF PoolInv, SlotsMatchCounters, AcquireMiss
<1>5. num = Cardinality(in_use)
  BY <1>4 DEF PoolInv, SlotsMatchCounters
<1>6. /\ Cardinality(At("granted")') = Cardinality(At("granted")) - 1
      /\ At("returning")' = At("returning")
      /\ At("deleted")' = At("deleted")
  BY <1>1, <1>2, MovingCounts
<1>7. At("granted")' \in SUBSET At("granted")
  BY <1>1, <1>2 DEF At, Goto, TypeOK
<1>8. Cardinality(At("granted")') \in Nat
  BY <1>1, <1>7, CountsAreNaturals, FS_Subset, FS_CardinalityType
<1>9. num + 1 <= Promised
  BY <1>1, <1>5, <1>6, <1>8, CountsAreNaturals DEF Promised, TypeOK
<1> QED
  BY <1>2, <1>3, <1>4, <1>5, <1>6, <1>9

\* A call in progress becomes the loan of a new connection, or is lost.
LEMMA AcquireMissInv ==
    ASSUME PoolInv, NEW t \in Tasks, AcquireMiss(t)
    PROVE  PoolInv'
<1> USE SizesAssumption, SetsAssumption
<1>1. TypeOK /\ phase = "ready" /\ phase' = "ready"
  BY MissCounts DEF PoolInv
<1>2. Goto(t, "out") /\ UNCHANGED <<phase, cursor, sem, dirty>>
  BY DEF AcquireMiss
<1>3. Promised <= MinConn
  BY <1>1 DEF PoolInv, TokensMatchConnections
<1>4. PhaseMatchesCalls'
  BY <1>1, MissCounts DEF PoolInv, PhaseMatchesCalls
<1>5. CASE \E i \in EmptySlots, h \in Handles :
             /\ OpenSucceeds(h)
             /\ db' = [db EXCEPT ![i] = h]
             /\ in_use' = in_use \cup {i}
             /\ num' = num + 1
             /\ stats' = [stats EXCEPT !.total = @ + 1, !.active = @ + 1]
             /\ Hand(t, h)
  <2>1. PICK i \in EmptySlots, h \in Handles :
             /\ OpenSucceeds(h)
             /\ db' = [db EXCEPT ![i] = h]
             /\ in_use' = in_use \cup {i}
             /\ num' = num + 1
             /\ stats' = [stats EXCEPT !.total = @ + 1, !.active = @ + 1]
             /\ Hand(t, h)
    BY <1>5
  <2>2. i \in Slots /\ i \notin OpenSlots /\ h # NULL
    BY DEF EmptySlots
  <2>3. OpenSlots' = OpenSlots \cup {i}
    BY <1>1, <2>1, <2>2 DEF OpenSlots, TypeOK, Slots
  <2>4. /\ in_use' = OpenSlots'
        /\ Cardinality(in_use') = Cardinality(in_use) + 1
    BY <1>1, <2>1, <2>2, <2>3, MissCounts, CountsAreNaturals, FS_AddElement
  <2>5. Promised' = Promised
    BY <1>1, <1>2, <2>4, MissCounts, CountsAreNaturals DEF Promised, TypeOK
  <2>6. num' = Cardinality(in_use') /\ num' <= Promised' /\ num' <= MinConn
    <3>1. num \in Nat /\ Promised \in Nat
      BY <1>1, CountsAreNaturals DEF TypeOK, Promised
    <3> QED
      BY <1>3, <2>1, <2>4, <2>5, <3>1, MissCounts
  <2>7. /\ stats \in [total : Nat, active : Nat, idle : Nat, peak : Nat]
        /\ stats.total = num
        /\ stats.active = Cardinality(in_use)
        /\ stats.idle + stats.active = num
        /\ num \in Nat
    BY <1>1 DEF PoolInv, StatsMatchSlots, TypeOK
  <2>8. stats' \in [total : Nat, active : Nat, idle : Nat, peak : Nat]
    <3>1. stats.total + 1 \in Nat /\ stats.active + 1 \in Nat
      BY <2>7
    <3>2. stats' = [stats EXCEPT !.total = @ + 1, !.active = @ + 1]
      BY <2>1
    <3> QED
      BY <2>7, <3>1, <3>2
  <2>9. /\ stats'.total = stats.total + 1
        /\ stats'.active = stats.active + 1
        /\ stats'.idle = stats.idle
    BY <2>1, <2>7
  <2>10. held' \in [Tasks -> SUBSET Handles]
    BY <1>1, <2>1 DEF Hand, TypeOK
  <2>11. live' \subseteq Handles /\ db' \in [Slots -> Handles \cup {NULL}]
    BY <1>1, <2>1 DEF OpenSucceeds, TypeOK
  <2>12. in_use' \subseteq Slots /\ num' \in 0..MaxConn
    BY <1>1, <2>1, <2>2, <2>6, <2>7 DEF TypeOK
  <2>13. TypeOK'
    BY <1>1, <1>2, <2>8, <2>10, <2>11, <2>12 DEF TypeOK, Goto, Slots
  <2>14. SlotsMatchCounters' /\ NeverAboveMinimum' /\ TokensMatchConnections'
    BY <1>1, <1>3, <2>4, <2>5, <2>6
    DEF SlotsMatchCounters, NeverAboveMinimum, TokensMatchConnections
  <2>15. StatsMatchSlots'
    BY <2>1, <2>4, <2>6, <2>7, <2>9 DEF StatsMatchSlots
  <2> QED
    BY <1>4, <2>13, <2>14, <2>15 DEF PoolInv
<1>6. CASE /\ \/ \E h \in Handles \cup {NULL} : OpenFails(h) /\ Hand(t, h)
              \/ UNCHANGED <<live, held>>
           /\ UNCHANGED <<db, in_use, num, stats>>
  <2>1. OpenSlots' = OpenSlots
    BY <1>6 DEF OpenSlots
  <2>2. live' \subseteq Handles /\ held' \in [Tasks -> SUBSET Handles]
    BY <1>1, <1>6 DEF OpenFails, Hand, TypeOK
  <2>3. TypeOK'
    BY <1>1, <1>2, <1>6, <2>2 DEF TypeOK, Goto, Slots
  <2>4. SlotsMatchCounters' /\ NeverAboveMinimum' /\ StatsMatchSlots'
    BY <1>1, <1>6, <2>1
    DEF PoolInv, SlotsMatchCounters, NeverAboveMinimum, StatsMatchSlots
  <2>5. Promised' = Promised - 1
    BY <1>1, <1>2, <1>6, MissCounts, CountsAreNaturals DEF Promised, TypeOK
  <2>6. num \in Nat /\ Promised \in Nat
    BY <1>1, CountsAreNaturals DEF TypeOK, Promised
  <2>7. TokensMatchConnections'
    BY <1>3, <1>6, <2>5, <2>6, MissCounts DEF TokensMatchConnections
  <2> QED
    BY <1>4, <2>3, <2>4, <2>7 DEF PoolInv
<1> QED
  BY <1>5, <1>6 DEF AcquireMiss

\* A transaction begun outside the pool is none of its business.
LEMMA BeginInv ==
    ASSUME PoolInv, NEW t \in Tasks, NEW h \in held[t], Begin(t, h)
    PROVE  PoolInv'
<1>1. TypeOK'
  BY DEF PoolInv, TypeOK, Begin, Slots
<1>2. OpenSlots' = OpenSlots /\ \A l : At(l)' = At(l)
  BY DEF Begin, OpenSlots, At
<1>3. PhaseMatchesCalls' /\ SlotsMatchCounters' /\ NeverAboveMinimum'
  BY <1>2
  DEF PoolInv, PhaseMatchesCalls, SlotsMatchCounters, NeverAboveMinimum, Begin
<1>4. TokensMatchConnections' /\ StatsMatchSlots'
  BY <1>2
  DEF PoolInv, TokensMatchConnections, StatsMatchSlots, Promised, Begin
<1> QED
  BY <1>1, <1>3, <1>4 DEF PoolInv

\* A loan becomes a token on its way back; or the handle is not found.
LEMMA ReleaseInv ==
    ASSUME PoolInv, NEW t \in Tasks, NEW h \in held[t], Release(t, h)
    PROVE  PoolInv'
<1> USE SizesAssumption, SetsAssumption
<1>1. TypeOK /\ phase = "ready" /\ phase' = "ready" /\ pc[t] = "out"
  BY DEF PoolInv, Release
<1>2. held' \in [Tasks -> SUBSET Handles]
  BY <1>1 DEF Release, Drop, TypeOK
<1>3. OpenSlots' = OpenSlots /\ UNCHANGED <<cursor, db, num, sem, live>>
  BY DEF Release, OpenSlots
<1>4. CASE Matching(h) = {}
  <2>1. UNCHANGED <<in_use, stats, dirty, pc>>
    BY <1>4 DEF Release
  <2>2. TypeOK'
    BY <1>1, <1>2, <1>3, <2>1 DEF TypeOK, Slots
  <2>3. \A l : At(l)' = At(l)
    BY <2>1 DEF At
  <2>4. PhaseMatchesCalls' /\ SlotsMatchCounters' /\ NeverAboveMinimum'
    BY <1>1, <1>3, <2>1, <2>3
    DEF PoolInv, PhaseMatchesCalls, SlotsMatchCounters, NeverAboveMinimum
  <2>5. TokensMatchConnections' /\ StatsMatchSlots'
    BY <1>1, <1>3, <2>1, <2>3
    DEF PoolInv, TokensMatchConnections, StatsMatchSlots, Promised
  <2> QED
    BY <2>2, <2>4, <2>5 DEF PoolInv
<1>5. CASE Matching(h) # {}
  <2>1. PICK i \in in_use : in_use' = in_use \ {i}
    BY <1>5 DEF Release, Matching
  <2>2. /\ stats' = [stats EXCEPT !.active = @ - 1, !.idle = @ + 1]
        /\ Rollback(h)
        /\ Goto(t, "returning")
    BY <1>5 DEF Release
  <2>3. Cardinality(in_use') = Cardinality(in_use) - 1
    BY <1>1, <2>1, CountsAreNaturals, FS_RemoveElement
  <2>4. Cardinality(in_use') \in Nat
    BY <1>1, <2>1, CountsAreNaturals, FS_RemoveElement, FS_CardinalityType
  <2>5. /\ stats \in [total : Nat, active : Nat, idle : Nat, peak : Nat]
        /\ stats.total = num
        /\ stats.active = Cardinality(in_use)
        /\ stats.idle + stats.active = num
        /\ num \in Nat
    BY <1>1 DEF PoolInv, StatsMatchSlots, TypeOK
  <2>6. stats.active - 1 \in Nat
    BY <2>3, <2>4, <2>5
  <2>7. stats' \in [total : Nat, active : Nat, idle : Nat, peak : Nat]
    <3>1. stats.idle + 1 \in Nat
      BY <2>5
    <3>2. stats' = [stats EXCEPT !.active = @ - 1, !.idle = @ + 1]
      BY <2>2
    <3>3. stats \in [total : Nat, active : Nat, idle : Nat, peak : Nat]
      BY <2>5
    <3> QED
      BY <2>6, <3>1, <3>2, <3>3
  <2>8. /\ stats'.total = stats.total
        /\ stats'.active = stats.active - 1
        /\ stats'.idle = stats.idle + 1
    BY <2>2, <2>5
  <2>9. TypeOK'
    BY <1>1, <1>2, <1>3, <2>1, <2>2, <2>7
    DEF TypeOK, Slots, Rollback, Goto
  <2>10. /\ Cardinality(At("returning")') = Cardinality(At("returning")) + 1
         /\ At("granted")' = At("granted")
         /\ At("deleted")' = At("deleted")
    BY <1>1, <2>2, MovingCounts
  <2>11. PhaseMatchesCalls'
    BY <1>1, <2>10 DEF PoolInv, PhaseMatchesCalls
  <2>12. SlotsMatchCounters' /\ NeverAboveMinimum'
    BY <1>1, <1>3, <2>1 DEF PoolInv, SlotsMatchCounters, NeverAboveMinimum
  <2>13. StatsMatchSlots'
    <3>1. num' = Cardinality(OpenSlots')
      BY <1>3 DEF PoolInv, SlotsMatchCounters
    <3> QED
      BY <1>3, <2>3, <2>5, <2>8, <3>1 DEF StatsMatchSlots
  <2>14. Promised' = Promised
    BY <1>1, <1>3, <2>3, <2>10, CountsAreNaturals DEF Promised, TypeOK
  <2>15. TokensMatchConnections'
    BY <1>1, <1>3, <2>14 DEF PoolInv, TokensMatchConnections
  <2> QED
    BY <2>9, <2>11, <2>12, <2>13, <2>15 DEF PoolInv
<1> QED
  BY <1>4, <1>5

\* The token is back: it was below the maximum, so the give is never refused.
LEMMA GiveTokenInv ==
    ASSUME PoolInv, NEW t \in Tasks, GiveToken(t)
    PROVE  PoolInv' /\ sem < MaxConn
<1> USE SizesAssumption, SetsAssumption
<1>1. TypeOK /\ pc[t] = "returning" /\ Goto(t, "out")
  BY DEF PoolInv, GiveToken
<1>2. phase = "ready" /\ phase' = "ready"
  BY <1>1 DEF PoolInv, PhaseMatchesCalls, TypeOK, GiveToken
<1>3. /\ Cardinality(At("returning")') = Cardinality(At("returning")) - 1
      /\ At("granted")' = At("granted")
      /\ At("deleted")' = At("deleted")
  BY <1>1, MovingCounts
<1>4. Cardinality(At("returning")') \in Nat
  <2>1. At("returning")' \in SUBSET At("returning")
    BY <1>1 DEF At, Goto, TypeOK
  <2> QED
    BY <1>1, <2>1, CountsAreNaturals, FS_Subset, FS_CardinalityType
<1>5. sem < MaxConn
  BY <1>1, <1>2, <1>3, <1>4, CountsAreNaturals
  DEF PoolInv, TokensMatchConnections, Promised, TypeOK
<1>6. sem' = sem + 1 /\ UNCHANGED <<cursor, db, in_use, num, stats>>
  BY <1>5 DEF GiveToken
<1>7. TypeOK'
  BY <1>1, <1>2, <1>5, <1>6 DEF TypeOK, GiveToken, Goto, Slots
<1>8. OpenSlots' = OpenSlots
  BY <1>6 DEF OpenSlots
<1>9. PhaseMatchesCalls' /\ SlotsMatchCounters' /\ NeverAboveMinimum'
  BY <1>2, <1>3, <1>6, <1>8
  DEF PoolInv, PhaseMatchesCalls, SlotsMatchCounters, NeverAboveMinimum
<1>10. StatsMatchSlots'
  BY <1>2, <1>6, <1>8 DEF PoolInv, StatsMatchSlots
<1>11. Promised' = Promised
  BY <1>1, <1>3, <1>6, CountsAreNaturals DEF Promised, TypeOK
<1>12. TokensMatchConnections'
  BY <1>2, <1>6, <1>11 DEF PoolInv, TokensMatchConnections
<1> QED
  BY <1>5, <1>7, <1>9, <1>10, <1>12 DEF PoolInv

\* shrink changes nothing at all, for it closes nothing.
LEMMA ShrinkStutters == PoolInv /\ Shrink => UNCHANGED vars
<1> SUFFICES ASSUME PoolInv, Shrink PROVE UNCHANGED vars
  OBVIOUS
<1>1. TypeOK /\ NeverAboveMinimum
  BY DEF PoolInv
<1>2. PICK old \in SUBSET IdleSlots :
        /\ db' = [i \in Slots |-> IF i \in Doomed(old) THEN NULL ELSE db[i]]
        /\ num' = num - Cardinality(Doomed(old))
        /\ stats' = [stats EXCEPT !.idle = @ - Cardinality(Doomed(old))]
        /\ live' = live \ {db[i] : i \in Doomed(old)}
        /\ dirty' = dirty \ {db[i] : i \in Doomed(old)}
  BY DEF Shrink
<1>3. Doomed(old) = {} /\ Cardinality(Doomed(old)) = 0
  BY <1>1, ShrinkClosesNothing, FS_EmptySet
<1>4. db' = db
  BY <1>1, <1>2, <1>3 DEF TypeOK
<1>5. num' = num
  BY <1>1, <1>2, <1>3, SizesAssumption DEF TypeOK
<1>6. stats' = stats
  <2>1. stats.idle - 0 = stats.idle
    BY <1>1 DEF TypeOK
  <2> QED
    BY <1>1, <1>2, <1>3, <2>1 DEF TypeOK
<1>7. live' = live /\ dirty' = dirty
  BY <1>2, <1>3
<1> QED
  BY <1>4, <1>5, <1>6, <1>7 DEF Shrink, vars

\* After destroy no call is left to count.
LEMMA DestroyInv == PoolInv /\ Destroy => PoolInv'
<1> SUFFICES ASSUME PoolInv, Destroy PROVE PoolInv'
  OBVIOUS
<1>1. TypeOK'
  BY DEF PoolInv, TypeOK, Destroy, Slots
<1>2. OpenSlots' = OpenSlots
  BY DEF Destroy, OpenSlots
<1>3. PhaseMatchesCalls' /\ SlotsMatchCounters' /\ NeverAboveMinimum'
  BY <1>2
  DEF PoolInv, PhaseMatchesCalls, SlotsMatchCounters, NeverAboveMinimum, Destroy
<1>4. TokensMatchConnections' /\ StatsMatchSlots'
  BY DEF TokensMatchConnections, StatsMatchSlots, Destroy
<1> QED
  BY <1>1, <1>3, <1>4 DEF PoolInv

-----------------------------------------------------------------------------
(* The theorems *)

\* PoolInv holds in every reachable state of the pool: the invariant of
\* sqlite_pool.c that its comments leave unsaid.
THEOREM PoolInvariant == Spec => []PoolInv
<1>1. Init => PoolInv
  BY InitInv
<1>2. PoolInv /\ [Next]_vars => PoolInv'
  <2> SUFFICES ASSUME PoolInv, [Next]_vars PROVE PoolInv'
    OBVIOUS
  <2>1. CASE CreateSlot \/ CreateReturn
    BY <2>1, CreateSlotInv, CreateReturnInv
  <2>2. CASE \E t \in Tasks : AcquireCall(t) \/ TimeOut(t)
    BY <2>2, CallStepInv
  <2>3. CASE \E t \in Tasks : TakeToken(t)
    BY <2>3, TakeTokenInv
  <2>4. CASE \E t \in Tasks : AcquireIdle(t) \/ AcquireMiss(t)
    BY <2>4, AcquireIdleInv, AcquireMissInv
  <2>5. CASE \E t \in Tasks : \E h \in held[t] : Begin(t, h) \/ Release(t, h)
    BY <2>5, BeginInv, ReleaseInv
  <2>6. CASE \E t \in Tasks : GiveToken(t)
    BY <2>6, GiveTokenInv
  <2>7. CASE Destroy
    BY <2>7, DestroyInv
  <2>8. CASE Shrink \/ UNCHANGED vars
    <3>1. UNCHANGED vars
      BY <2>8, ShrinkStutters
    <3> QED
      BY <3>1 DEF vars, PoolInv, TypeOK, PhaseMatchesCalls, SlotsMatchCounters,
         TokensMatchConnections, NeverAboveMinimum, StatsMatchSlots, Promised,
         At, OpenSlots, Slots
  <2> QED
    BY <2>1, <2>2, <2>3, <2>4, <2>5, <2>6, <2>7, <2>8 DEF Next
<1> QED
  BY <1>1, <1>2, PTL DEF Spec

\* Every variable of the pool keeps its type: no counter of
\* sqlite_pool_stats_t wraps below zero and the semaphore stays in range.
THEOREM TypeCorrect == Spec => []TypeOK
<1>1. PoolInv => TypeOK
  BY DEF PoolInv
<1> QED
  BY <1>1, PoolInvariant, PTL

\* Tokens, calls in progress and loans number at most min_connections and at
\* least the connections, at every point between the lock and the semaphore.
THEOREM TokensMatch == Spec => []TokensMatchConnections
<1>1. PoolInv => TokensMatchConnections
  BY DEF PoolInv
<1> QED
  BY <1>1, PoolInvariant, PTL

\* For every max_connections the pool stays at min_connections or below.
THEOREM PoolNeverGrows == Spec => []NeverAboveMinimum
<1>1. PoolInv => NeverAboveMinimum
  BY DEF PoolInv
<1> QED
  BY <1>1, PoolInvariant, PTL

\* What sqlite_pool_get_stats reports agrees with the slots.
THEOREM StatsMatch == Spec => []StatsMatchSlots
<1>1. PoolInv => StatsMatchSlots
  BY DEF PoolInv
<1> QED
  BY <1>1, PoolInvariant, PTL

\* A time-out while no other call holds a token means that every open
\* connection is lent: no token is lost while a connection is left idle.
THEOREM TimeOutJustified == Spec => TimeOutMeansBusy
<1>1. ASSUME PoolInv, NEW t \in Tasks, TimeOut(t),
             At("granted") \cup At("returning") = {}
      PROVE  OpenSlots \subseteq in_use
  <2>1. TypeOK /\ phase = "ready" /\ sem = 0
    BY <1>1 DEF PoolInv, PhaseMatchesCalls, TimeOut, TypeOK
  <2>2. Cardinality(At("granted")) = 0 /\ Cardinality(At("returning")) = 0
    BY <1>1, FS_EmptySet
  <2>3. Promised = Cardinality(in_use)
    BY <2>1, <2>2, CountsAreNaturals DEF Promised
  <2>4. Cardinality(OpenSlots) <= Cardinality(in_use)
    BY <1>1, <2>1, <2>3
    DEF PoolInv, SlotsMatchCounters, TokensMatchConnections
  <2>5. in_use \in SUBSET OpenSlots
    BY <1>1 DEF PoolInv, SlotsMatchCounters
  <2> QED
    BY <2>1, <2>4, <2>5, CountsAreNaturals, FS_Subset
<1>2. PoolInv => [\A t \in Tasks :
                    /\ TimeOut(t)
                    /\ At("granted") \cup At("returning") = {}
                    => OpenSlots \subseteq in_use]_vars
  BY <1>1
<1> QED
  BY <1>2, PoolInvariant, PTL DEF TimeOutMeansBusy

-----------------------------------------------------------------------------
(* Waiting for each other *)

\* The slots of a pool that is not destroyed hold live connections, each in one
\* slot, whatever failed opens left in the hands of the tasks.
SlotsHoldLive ==
    phase # "destroyed" =>
        /\ \A i \in OpenSlots : db[i] \in live
        /\ \A i, j \in OpenSlots : db[i] = db[j] => i = j

\* No connection leaks: for each slot in use there is a task that will release it.
InUseIsHeld ==
    phase # "destroyed" =>
        \A i \in in_use : \E t \in Tasks : db[i] \in held[t]

\* A task that waits for a connection holds fewer than it may.
HeldIsBounded ==
    \A t \in Tasks :
        /\ IsFiniteSet(held[t])
        /\ pc[t] \in {"waiting", "granted"} => Cardinality(held[t]) < HoldLimit

WaitInv ==
    /\ SlotsHoldLive
    /\ InUseIsHeld
    /\ HeldIsBounded

\* A step in which one task goes to a place where it neither waits nor has a
\* token, with one handle more or less, or none.
LEMMA StaysBounded ==
    ASSUME TypeOK, HeldIsBounded, NEW t \in Tasks,
           NEW h,
           \/ Goto(t, "out")
           \/ Goto(t, "returning")
           \/ pc' = pc /\ pc[t] = "out",
           \/ held' = [held EXCEPT ![t] = @ \cup {h}]
           \/ held' = [held EXCEPT ![t] = @ \ {h}]
           \/ held' = held
    PROVE  HeldIsBounded'
<1>1. \A u \in Tasks \ {t} : pc'[u] = pc[u] /\ held'[u] = held[u]
  BY DEF TypeOK, Goto
<1>2. pc'[t] \in {"out", "returning"}
  BY DEF TypeOK, Goto
<1>3. held'[t] \in {held[t] \cup {h}, held[t] \ {h}, held[t]}
  BY DEF TypeOK
<1>4. IsFiniteSet(held'[t])
  <2>1. IsFiniteSet(held[t])
    BY DEF HeldIsBounded
  <2> QED
    BY <1>3, <2>1, FS_AddElement, FS_RemoveElement
<1> QED
  BY <1>1, <1>2, <1>4 DEF HeldIsBounded

\* Steps that touch neither slots nor loans, and let nobody wait who holds as
\* many connections as it may.
LEMMA QuietWait ==
    ASSUME TypeOK, WaitInv, phase # "destroyed", phase' # "destroyed",
           UNCHANGED <<db, in_use, live, held>>,
           \A t \in Tasks : pc'[t] \in {"waiting", "granted"} =>
               \/ pc[t] \in {"waiting", "granted"}
               \/ Cardinality(held[t]) < HoldLimit
    PROVE  WaitInv'
<1>1. OpenSlots' = OpenSlots
  BY DEF OpenSlots, Slots
<1>2. SlotsHoldLive' /\ InUseIsHeld'
  BY <1>1 DEF WaitInv, SlotsHoldLive, InUseIsHeld
<1>3. HeldIsBounded'
  BY DEF WaitInv, HeldIsBounded
<1> QED
  BY <1>2, <1>3 DEF WaitInv

\* Nobody holds anything, and nobody waits.
LEMMA WaitInit == Init => WaitInv
<1> SUFFICES ASSUME Init PROVE WaitInv
  OBVIOUS
<1>1. OpenSlots = {}
  BY DEF Init, OpenSlots
<1> QED
  BY <1>1, FS_EmptySet
  DEF Init, WaitInv, SlotsHoldLive, InUseIsHeld, HeldIsBounded

\* A connection just opened is in no slot yet: it may take an empty one.
LEMMA NewSlotHoldsLive ==
    ASSUME TypeOK, SlotsHoldLive, phase # "destroyed",
           NEW i \in Slots, db[i] = NULL, NEW h \in Handles, OpenSucceeds(h),
           db' = [db EXCEPT ![i] = h]
    PROVE  /\ SlotsHoldLive'
           /\ \A j \in OpenSlots : db'[j] = db[j]
           /\ db'[i] = h
<1>1. h # NULL /\ h \notin live /\ live' = live \cup {h}
  BY SetsAssumption DEF OpenSucceeds
<1>2. \A j \in Slots : db'[j] = IF j = i THEN h ELSE db[j]
  BY DEF TypeOK
<1>3. OpenSlots' = OpenSlots \cup {i} /\ i \notin OpenSlots
  BY <1>1, <1>2 DEF OpenSlots, Slots
<1>4. \A j \in OpenSlots : db'[j] = db[j] /\ db[j] \in live
  BY <1>2, <1>3 DEF OpenSlots, SlotsHoldLive
<1>5. \A j \in OpenSlots' : db'[j] \in live'
  BY <1>1, <1>2, <1>3, <1>4
<1>6. ASSUME NEW j \in OpenSlots', NEW k \in OpenSlots', db'[j] = db'[k]
      PROVE  j = k
  <2>1. CASE j = i \/ k = i
    BY <1>1, <1>2, <1>3, <1>4, <1>6, <2>1
  <2>2. CASE j # i /\ k # i
    BY <1>3, <1>4, <1>6, <2>2 DEF SlotsHoldLive
  <2> QED
    BY <2>1, <2>2
<1> QED
  BY <1>2, <1>4, <1>5, <1>6 DEF SlotsHoldLive

\* create fills a slot that nobody uses.
LEMMA CreateSlotWait ==
    ASSUME PoolInv, WaitInv, CreateSlot
    PROVE  WaitInv'
<1>1. /\ TypeOK /\ phase = "create" /\ phase' = "create" /\ in_use = {}
      /\ UNCHANGED <<in_use, pc, held>>
      /\ cursor + 1 \in Slots
  BY SizesAssumption
  DEF PoolInv, TypeOK, PhaseMatchesCalls, CreateSlot, Slots
<1>2. db[cursor + 1] = NULL
  <2>1. cursor + 1 \notin 1..cursor
    BY <1>1, SizesAssumption DEF TypeOK
  <2> QED
    BY <1>1, <2>1 DEF PoolInv, PhaseMatchesCalls, OpenSlots
<1>3. InUseIsHeld' /\ HeldIsBounded'
  BY <1>1 DEF WaitInv, InUseIsHeld, HeldIsBounded
<1>4. CASE \E h \in Handles : /\ OpenSucceeds(h)
                              /\ db' = [db EXCEPT ![cursor + 1] = h]
  <2>1. SlotsHoldLive'
    BY <1>1, <1>2, <1>4, NewSlotHoldsLive DEF WaitInv
  <2> QED
    BY <1>3, <2>1 DEF WaitInv
<1>5. CASE /\ \E h \in Handles \cup {NULL} : OpenFails(h)
           /\ UNCHANGED db
  <2>1. live \subseteq live'
    BY <1>5 DEF OpenFails
  <2>2. OpenSlots' = OpenSlots
    BY <1>5 DEF OpenSlots, Slots
  <2>3. SlotsHoldLive'
    BY <1>1, <1>5, <2>1, <2>2 DEF WaitInv, SlotsHoldLive
  <2> QED
    BY <1>3, <2>3 DEF WaitInv
<1> QED
  BY <1>4, <1>5 DEF CreateSlot

\* The connection acquire lends is held from then on.
LEMMA AcquireIdleWait ==
    ASSUME PoolInv, WaitInv, NEW t \in Tasks, AcquireIdle(t)
    PROVE  WaitInv'
<1>1. /\ TypeOK /\ phase = "ready" /\ phase' = "ready"
      /\ UNCHANGED <<db, live>> /\ Goto(t, "out")
  BY DEF PoolInv, TypeOK, PhaseMatchesCalls, AcquireIdle
<1>2. PICK i \in IdleSlots : in_use' = in_use \cup {i} /\ Hand(t, db[i])
  BY DEF AcquireIdle
<1>3. held' = [held EXCEPT ![t] = @ \cup {db[i]}]
  BY <1>2 DEF Hand, IdleSlots, OpenSlots
<1>4. \A u \in Tasks : held[u] \subseteq held'[u]
  BY <1>1, <1>3 DEF TypeOK
<1>5. db[i] \in held'[t]
  BY <1>1, <1>3 DEF TypeOK
<1>6. InUseIsHeld'
  BY <1>1, <1>2, <1>4, <1>5 DEF WaitInv, InUseIsHeld
<1>7. OpenSlots' = OpenSlots
  BY <1>1 DEF OpenSlots, Slots
<1>8. SlotsHoldLive'
  BY <1>1, <1>7 DEF WaitInv, SlotsHoldLive
<1>9. HeldIsBounded'
  BY <1>1, <1>3, StaysBounded DEF WaitInv
<1> QED
  BY <1>6, <1>8, <1>9 DEF WaitInv

\* So is the one acquire has just opened; a failed open only adds a handle.
LEMMA AcquireMissWait ==
    ASSUME PoolInv, WaitInv, NEW t \in Tasks, AcquireMiss(t)
    PROVE  WaitInv'
<1>1. /\ TypeOK /\ phase = "ready" /\ phase' = "ready" /\ Goto(t, "out")
      /\ in_use \subseteq OpenSlots
  BY DEF PoolInv, TypeOK, PhaseMatchesCalls, SlotsMatchCounters, AcquireMiss
<1>2. CASE \E i \in EmptySlots, h \in Handles :
             /\ OpenSucceeds(h)
             /\ db' = [db EXCEPT ![i] = h]
             /\ in_use' = in_use \cup {i}
             /\ Hand(t, h)
  <2>1. PICK i \in EmptySlots, h \in Handles :
          /\ OpenSucceeds(h)
          /\ db' = [db EXCEPT ![i] = h]
          /\ in_use' = in_use \cup {i}
          /\ Hand(t, h)
    BY <1>2
  <2>2. i \in Slots /\ db[i] = NULL /\ h # NULL
    BY SetsAssumption DEF EmptySlots, OpenSlots
  <2>3. /\ SlotsHoldLive'
        /\ \A j \in OpenSlots : db'[j] = db[j]
        /\ db'[i] = h
    BY <1>1, <2>1, <2>2, NewSlotHoldsLive DEF WaitInv
  <2>4. held' = [held EXCEPT ![t] = @ \cup {h}]
    BY <2>1, <2>2 DEF Hand
  <2>5. /\ \A u \in Tasks : held[u] \subseteq held'[u]
        /\ h \in held'[t]
    BY <1>1, <2>4 DEF TypeOK
  <2>6. InUseIsHeld'
    BY <1>1, <2>1, <2>3, <2>5 DEF WaitInv, InUseIsHeld
  <2>7. HeldIsBounded'
    BY <1>1, <2>4, StaysBounded DEF WaitInv
  <2> QED
    BY <2>3, <2>6, <2>7 DEF WaitInv
<1>3. CASE /\ UNCHANGED <<db, in_use>>
           /\ \/ UNCHANGED <<live, held>>
              \/ \E h \in Handles \cup {NULL} : OpenFails(h) /\ Hand(t, h)
  <2>1. PICK h : /\ held' = [held EXCEPT ![t] = @ \cup {h}] \/ held' = held
                 /\ live \subseteq live'
    <3>1. CASE UNCHANGED <<live, held>>
      BY <3>1
    <3>2. CASE \E h \in Handles \cup {NULL} : OpenFails(h) /\ Hand(t, h)
      <4>1. PICK h \in Handles \cup {NULL} : OpenFails(h) /\ Hand(t, h)
        BY <3>2
      <4>2. live \subseteq live'
        BY <4>1 DEF OpenFails
      <4>3. CASE h = NULL
        BY <1>1, <4>1, <4>2, <4>3 DEF Hand, TypeOK
      <4>4. CASE h # NULL
        BY <4>1, <4>2, <4>4 DEF Hand
      <4> QED
        BY <4>3, <4>4
    <3> QED
      BY <1>3, <3>1, <3>2
  <2>2. \A u \in Tasks : held[u] \subseteq held'[u]
    BY <1>1, <2>1 DEF TypeOK
  <2>3. OpenSlots' = OpenSlots
    BY <1>3 DEF OpenSlots, Slots
  <2>4. SlotsHoldLive' /\ InUseIsHeld'
    BY <1>1, <1>3, <2>1, <2>2, <2>3 DEF WaitInv, SlotsHoldLive, InUseIsHeld
  <2>5. HeldIsBounded'
    BY <1>1, <2>1, StaysBounded DEF WaitInv
  <2> QED
    BY <2>4, <2>5 DEF WaitInv
<1> QED
  BY <1>2, <1>3 DEF AcquireMiss

\* release gives back the slot of the handle it takes from the task; the other
\* slots in use hold other connections.
LEMMA ReleaseWait ==
    ASSUME PoolInv, WaitInv, NEW t \in Tasks, NEW h \in held[t], Release(t, h)
    PROVE  WaitInv'
<1>1. /\ TypeOK /\ phase = "ready" /\ phase' = "ready"
      /\ UNCHANGED <<db, live>> /\ in_use \subseteq OpenSlots
      /\ held' = [held EXCEPT ![t] = @ \ {h}]
  BY DEF PoolInv, TypeOK, PhaseMatchesCalls, SlotsMatchCounters, Release, Drop
<1>2. in_use' \subseteq in_use /\ \A i \in in_use' : db[i] # h
  <2>1. CASE Matching(h) = {}
    BY <2>1 DEF Release, Matching
  <2>2. CASE Matching(h) # {}
    <3>1. PICK i \in Matching(h) : in_use' = in_use \ {i}
      BY <2>2 DEF Release
    <3>2. i \in in_use /\ db[i] = h
      BY <3>1 DEF Matching
    <3>3. \A j \in in_use : db[j] = h => j = i
      BY <1>1, <3>2 DEF WaitInv, SlotsHoldLive
    <3> QED
      BY <3>1, <3>3
  <2> QED
    BY <2>1, <2>2
<1>3. \A u \in Tasks : \A g \in held[u] : g # h => g \in held'[u]
  BY <1>1 DEF TypeOK
<1>4. InUseIsHeld'
  BY <1>1, <1>2, <1>3 DEF WaitInv, InUseIsHeld
<1>5. OpenSlots' = OpenSlots
  BY <1>1 DEF OpenSlots, Slots
<1>6. SlotsHoldLive'
  BY <1>1, <1>5 DEF WaitInv, SlotsHoldLive
<1>7. HeldIsBounded'
  BY <1>1, StaysBounded DEF WaitInv, Release
<1> QED
  BY <1>4, <1>6, <1>7 DEF WaitInv

\* Every step of the pool.
LEMMA WaitNext == PoolInv /\ WaitInv /\ [Next]_vars => WaitInv'
<1> SUFFICES ASSUME PoolInv, WaitInv, [Next]_vars PROVE WaitInv'
  OBVIOUS
<1>1. TypeOK
  BY DEF PoolInv
<1>2. CASE CreateReturn
  BY <1>1, <1>2, QuietWait DEF CreateReturn
<1>3. ASSUME NEW t \in Tasks, AcquireCall(t) \/ TakeToken(t) \/ TimeOut(t)
                              \/ GiveToken(t)
      PROVE  WaitInv'
  <2>1. phase # "destroyed" /\ phase' = phase
    BY <1>1, <1>3 DEF PoolInv, PhaseMatchesCalls, TypeOK, AcquireCall,
       TakeToken, TimeOut, GiveToken
  <2>2. UNCHANGED <<db, in_use, live, held>>
    BY <1>3 DEF AcquireCall, TakeToken, TimeOut, GiveToken
  <2>3. \A u \in Tasks : pc'[u] \in {"waiting", "granted"} =>
            \/ pc[u] \in {"waiting", "granted"}
            \/ Cardinality(held[u]) < HoldLimit
    BY <1>1, <1>3 DEF TypeOK, AcquireCall, TakeToken, TimeOut, GiveToken, Goto
  <2> QED
    BY <1>1, <2>1, <2>2, <2>3, QuietWait
<1>4. ASSUME NEW t \in Tasks, NEW h \in held[t], Begin(t, h)
      PROVE  WaitInv'
  BY <1>1, <1>4, QuietWait DEF Begin
<1>5. CASE Destroy
  <2>1. SlotsHoldLive' /\ InUseIsHeld'
    BY <1>5 DEF Destroy, SlotsHoldLive, InUseIsHeld
  <2>2. HeldIsBounded'
    BY <1>5, FS_EmptySet DEF Destroy, HeldIsBounded
  <2> QED
    BY <2>1, <2>2 DEF WaitInv
<1>6. CASE Shrink \/ UNCHANGED vars
  <2>1. UNCHANGED vars
    BY <1>6, ShrinkStutters
  <2> QED
    BY <2>1 DEF vars, WaitInv, SlotsHoldLive, InUseIsHeld, HeldIsBounded,
       OpenSlots, Slots
<1> QED
  BY <1>2, <1>3, <1>4, <1>5, <1>6, CreateSlotWait, AcquireIdleWait,
     AcquireMissWait, ReleaseWait
  DEF Next

\* Fewer slots are in use than k for each task, when no task holds more than k.
LEMMA HeldAreCounted ==
    ASSUME TypeOK, SlotsHoldLive, InUseIsHeld, phase # "destroyed",
           in_use \subseteq OpenSlots, NEW k \in Nat,
           \A t \in Tasks : IsFiniteSet(held[t]) /\ Cardinality(held[t]) <= k
    PROVE  Cardinality(in_use) <= Cardinality(Tasks) * k
<1>1. \A t \in Tasks : \E f : f \in Injection(held[t], 1..k)
  <2> SUFFICES ASSUME NEW t \in Tasks
               PROVE  \E f : f \in Injection(held[t], 1..k)
    OBVIOUS
  <2>1. PICK n \in Nat : ExistsBijection(1..n, held[t])
    BY FS_NatBijection
  <2>2. n = Cardinality(held[t])
    BY <2>1, FS_CountingElements
  <2>3. PICK g : g \in Bijection(1..n, held[t])
    BY <2>1 DEF ExistsBijection
  <2> DEFINE f == [x \in held[t] |-> CHOOSE i \in 1..n : g[i] = x]
  <2>4. \A x \in held[t] : f[x] \in 1..n /\ g[f[x]] = x
    BY <2>3 DEF Bijection, Surjection
  <2>5. 1..n \subseteq 1..k
    BY <2>2
  <2>6. f \in [held[t] -> 1..k]
    BY <2>4, <2>5
  <2>7. \A x, y \in held[t] : f[x] = f[y] => x = y
    BY <2>4
  <2> QED
    BY <2>6, <2>7 DEF Injection, IsInjective
<1> DEFINE number == [t \in Tasks |-> CHOOSE f : f \in Injection(held[t], 1..k)]
           holder == [i \in in_use |-> CHOOSE t \in Tasks : db[i] \in held[t]]
           place == [i \in in_use |-> <<holder[i], number[holder[i]][db[i]]>>]
<1>2. \A t \in Tasks : number[t] \in Injection(held[t], 1..k)
  BY <1>1
<1>3. \A i \in in_use : holder[i] \in Tasks /\ db[i] \in held[holder[i]]
  BY DEF InUseIsHeld
<1> HIDE DEF number, holder
<1>4. \A t \in Tasks : /\ \A x \in held[t] : number[t][x] \in 1..k
                       /\ \A x, y \in held[t] :
                            number[t][x] = number[t][y] => x = y
  BY <1>2 DEF Injection, IsInjective
<1>5. place \in [in_use -> Tasks \X (1..k)]
  BY <1>3, <1>4
<1>6. ASSUME NEW i \in in_use, NEW j \in in_use, place[i] = place[j]
      PROVE  i = j
  <2>1. /\ holder[i] = holder[j]
        /\ number[holder[i]][db[i]] = number[holder[j]][db[j]]
    BY <1>6
  <2>2. db[i] = db[j]
    BY <1>3, <1>4, <2>1
  <2> QED
    BY <2>2 DEF SlotsHoldLive
<1>7. place \in Injection(in_use, Tasks \X (1..k))
  BY <1>5, <1>6 DEF Injection, IsInjective
<1>8. IsFiniteSet(1..k) /\ Cardinality(1..k) = k
  BY FS_Interval
<1>9. /\ IsFiniteSet(Tasks \X (1..k))
      /\ Cardinality(Tasks \X (1..k)) = Cardinality(Tasks) * k
  BY <1>8, FS_Product, SetsAssumption
<1> QED
  BY <1>7, <1>9, FS_Injection

\* Whatever opens fail, a slot in use has a holder.
THEOREM NoConnectionLeaks == Spec => []InUseIsHeld
<1>1. WaitInv => InUseIsHeld
  BY DEF WaitInv
<1> QED
  BY <1>1, WaitInit, WaitNext, PoolInvariant, PTL DEF Spec

\* A pool that has more connections than all tasks can hold while each waits for
\* one more is never stuck: there is a token, or one on its way, or a task that
\* holds a connection and is free to release it.
THEOREM NoDeadlock == Spec => []NeverAllWait
<1>1. PoolInv /\ WaitInv => NeverAllWait
  <2> SUFFICES ASSUME PoolInv, WaitInv, phase = "ready", num > 0,
                      num > Cardinality(Tasks) * (HoldLimit - 1),
                      ~(sem > 0), At("granted") \cup At("returning") = {},
                      \A t \in Tasks : pc[t] = "out" => held[t] = {}
               PROVE  FALSE
    BY DEF NeverAllWait
  <2>1. TypeOK /\ sem = 0 /\ in_use \subseteq OpenSlots
    BY DEF PoolInv, TypeOK, SlotsMatchCounters
  <2>2. num <= Cardinality(in_use)
    BY <2>1, FS_EmptySet, CountsAreNaturals
    DEF PoolInv, TokensMatchConnections, Promised
  <2>3. \A t \in Tasks : held[t] = {} \/ pc[t] = "waiting"
    BY <2>1 DEF TypeOK, At, PoolInv, PhaseMatchesCalls
  <2>4. \A t \in Tasks : /\ IsFiniteSet(held[t])
                         /\ Cardinality(held[t]) \in Nat
                         /\ held[t] # {} => Cardinality(held[t]) < HoldLimit
    BY <2>3, FS_CardinalityType DEF WaitInv, HeldIsBounded
  <2>5. in_use # {}
    <3> SUFFICES ASSUME in_use = {} PROVE FALSE
      OBVIOUS
    <3>1. Cardinality(in_use) = 0
      BY FS_EmptySet
    <3>2. num \in 0..MaxConn
      BY <2>1 DEF TypeOK
    <3> QED
      BY <2>2, <3>1, <3>2, SizesAssumption
  <2>6. PICK t \in Tasks : held[t] # {}
    BY <2>5 DEF WaitInv, InUseIsHeld
  <2> DEFINE k == HoldLimit - 1
  <2>7. k \in Nat
    BY <2>4, <2>6, SizesAssumption
  <2>8. \A u \in Tasks : IsFiniteSet(held[u]) /\ Cardinality(held[u]) <= k
    BY <2>4, <2>7, FS_EmptySet, SizesAssumption
  <2>9. num > Cardinality(Tasks) * k
    OBVIOUS
  <2> HIDE DEF k
  <2>10. Cardinality(in_use) <= Cardinality(Tasks) * k
    BY <2>1, <2>7, <2>8, HeldAreCounted DEF WaitInv
  <2>11. Cardinality(Tasks) * k \in Nat
    BY <2>7, SetsAssumption, FS_CardinalityType
  <2> QED
    BY <2>1, <2>2, <2>9, <2>10, <2>11, CountsAreNaturals DEF TypeOK
<1> QED
  BY <1>1, WaitInit, WaitNext, PoolInvariant, PTL DEF Spec

-----------------------------------------------------------------------------
(* What is open at the end *)

\* A failed open leaves no object that is still allocated; the address of one
\* that was closed it may leave.
NoOpenHandle == "open_handle" \notin OpenFaults

\* Every connection that is open is in a slot, for destroy to close.
AllPooled ==
    /\ phase # "destroyed" => live \subseteq PooledHandles
    /\ DestroyClosesAll

\* A connection just opened goes into the empty slot i, the others stay in theirs.
LEMMA OpenedIsPooled ==
    ASSUME TypeOK, live \subseteq PooledHandles, NEW i \in Slots, db[i] = NULL,
           NEW h \in Handles, OpenSucceeds(h), db' = [db EXCEPT ![i] = h]
    PROVE  live' \subseteq PooledHandles'
<1>1. live' = live \cup {h} /\ h # NULL
  BY SetsAssumption DEF OpenSucceeds
<1>2. db'[i] = h /\ \A j \in Slots \ {i} : db'[j] = db[j]
  BY DEF TypeOK
<1>3. h \in PooledHandles'
  BY <1>1, <1>2 DEF PooledHandles, Slots
<1>4. ASSUME NEW g \in live PROVE g \in PooledHandles'
  <2>1. PICK j \in Slots : db[j] = g /\ g # NULL
    BY DEF PooledHandles
  <2>2. db'[j] = g
    BY <1>2, <2>1
  <2> QED
    BY <2>1, <2>2 DEF PooledHandles, Slots
<1> QED
  BY <1>1, <1>3, <1>4

\* A failed open opens nothing.
LEMMA FailedIsClosed ==
    ASSUME NoOpenHandle, NEW h, OpenFails(h)
    PROVE  live' = live
BY DEF NoOpenHandle, OpenFails

LEMMA PooledNext ==
    ASSUME NoOpenHandle, PoolInv, AllPooled, [Next]_vars
    PROVE  AllPooled'
<1>1. TypeOK
  BY DEF PoolInv
<1>2. ASSUME UNCHANGED <<phase, db, live>> PROVE AllPooled'
  BY <1>2 DEF AllPooled, DestroyClosesAll, PooledHandles, Slots
<1>3. CASE CreateSlot
  <2>1. /\ phase = "create" /\ phase' = "create" /\ cursor + 1 \in Slots
        /\ live \subseteq PooledHandles
    BY <1>1, <1>3, SizesAssumption DEF TypeOK, CreateSlot, Slots, AllPooled
  <2>2. db[cursor + 1] = NULL
    <3>1. cursor + 1 \notin 1..cursor
      BY <1>1, SizesAssumption DEF TypeOK
    <3> QED
      BY <2>1, <3>1 DEF PoolInv, PhaseMatchesCalls, OpenSlots
  <2>3. CASE \E h \in Handles : /\ OpenSucceeds(h)
                                /\ db' = [db EXCEPT ![cursor + 1] = h]
    <3>1. live' \subseteq PooledHandles'
      BY <1>1, <2>1, <2>2, <2>3, OpenedIsPooled
    <3> QED
      BY <2>1, <3>1 DEF AllPooled, DestroyClosesAll
  <2>4. CASE (\E h \in Handles \cup {NULL} : OpenFails(h)) /\ UNCHANGED db
    BY <1>2, <2>1, <2>4, FailedIsClosed
  <2> QED
    BY <1>3, <2>3, <2>4 DEF CreateSlot
<1>4. CASE CreateReturn
  <2>1. phase # "destroyed" /\ phase' # "destroyed" /\ UNCHANGED <<db, live>>
    BY <1>4 DEF CreateReturn
  <2> QED
    BY <2>1 DEF AllPooled, DestroyClosesAll, PooledHandles, Slots
<1>5. ASSUME NEW t \in Tasks, AcquireMiss(t) PROVE AllPooled'
  <2>1. phase = "ready" /\ phase' = "ready" /\ live \subseteq PooledHandles
    BY <1>1, <1>5 DEF PoolInv, TypeOK, PhaseMatchesCalls, AcquireMiss, AllPooled
  <2>2. CASE \E i \in EmptySlots, h \in Handles :
               OpenSucceeds(h) /\ db' = [db EXCEPT ![i] = h]
    <3>1. PICK i \in EmptySlots, h \in Handles :
            OpenSucceeds(h) /\ db' = [db EXCEPT ![i] = h]
      BY <2>2
    <3>2. i \in Slots /\ db[i] = NULL
      BY DEF EmptySlots, OpenSlots
    <3>3. live' \subseteq PooledHandles'
      BY <1>1, <2>1, <3>1, <3>2, OpenedIsPooled
    <3> QED
      BY <2>1, <3>3 DEF AllPooled, DestroyClosesAll
  <2>3. CASE /\ UNCHANGED db
             /\ \/ UNCHANGED live
                \/ \E h \in Handles \cup {NULL} : OpenFails(h)
    BY <1>2, <2>1, <2>3, FailedIsClosed
  <2> QED
    BY <1>5, <2>2, <2>3 DEF AcquireMiss
<1>6. ASSUME NEW t \in Tasks,
             \/ AcquireCall(t) \/ TakeToken(t) \/ TimeOut(t) \/ AcquireIdle(t)
             \/ GiveToken(t)
             \/ \E h \in held[t] : Begin(t, h) \/ Release(t, h)
      PROVE  AllPooled'
  <2>1. UNCHANGED <<phase, db, live>>
    BY <1>6 DEF AcquireCall, TakeToken, TimeOut, AcquireIdle, GiveToken, Begin,
       Release
  <2> QED
    BY <1>2, <2>1
<1>7. CASE Destroy
  BY <1>7 DEF Destroy, AllPooled, DestroyClosesAll
<1>8. CASE Shrink \/ UNCHANGED vars
  <2>1. UNCHANGED vars
    BY <1>8, ShrinkStutters
  <2> QED
    BY <1>2, <2>1 DEF vars
<1> QED
  BY <1>3, <1>4, <1>5, <1>6, <1>7, <1>8 DEF Next

\* sqlite_pool_destroy leaves no connection open, however tasks use the pool and
\* also when acquire returned handles that were closed already.
THEOREM DestroyedIsEmpty == ASSUME NoOpenHandle PROVE Spec => []DestroyClosesAll
<1>1. Init => AllPooled
  BY DEF Init, AllPooled, DestroyClosesAll
<1>2. PoolInv /\ AllPooled /\ [Next]_vars => AllPooled'
  BY PooledNext
<1>3. AllPooled => DestroyClosesAll
  BY DEF AllPooled
<1> QED
  BY <1>1, <1>2, <1>3, PoolInvariant, PTL DEF Spec
=============================================================================
