-------------------------- MODULE AsyncExecProofs ---------------------------
(***************************************************************************)
(* The asynchronous executor for every number of clients, result slots and *)
(* queue places, and counters of any width: the requests that exist are    *)
(* distinct, the gauge counts them up to the skew, the unlocked writes     *)
(* harm only requests whose slot was shared, exhaustion of the slots is    *)
(* permanent, and accepted requests are served once and in order.          *)
(***************************************************************************)
EXTENDS AsyncExec, FiniteSetTheorems, TLAPS

\* The calls a behaviour has made are numbered.
NumbersOK ==
    /\ \A r \in Outstanding : r.call \in 1..calls
    /\ \A i \in 1..Len(log) : log[i].call \in 1..calls
    /\ shared \subseteq 1..calls
    /\ notified \subseteq 1..calls

\* A request is at one place: with one client, at one place of the queue or
\* with the worker.
PlacesOK ==
    /\ \A c, d \in Clients : pc[c] \in InCall /\ pc[d] \in InCall /\ c # d =>
         req[c].call # req[d].call
    /\ \A i, j \in 1..Len(queue) : i # j => queue[i].call # queue[j].call
    /\ \A c \in Clients, i \in 1..Len(queue) :
         pc[c] \in InCall => req[c].call # queue[i].call
    /\ worker \in Busy =>
         /\ \A c \in Clients : pc[c] \in InCall => req[c].call # current.call
         /\ \A i \in 1..Len(queue) : queue[i].call # current.call

\* What is done was neither queued nor being built since.
LogOK ==
    \A k \in 1..Len(log) :
        /\ \A c \in Clients : pc[c] \in InCall => req[c].call # log[k].call
        /\ \A i \in 1..Len(queue) : queue[i].call # log[k].call
        /\ worker \in {"process", "execute"} => current.call # log[k].call

\* A request without a slot is not executed, and gets none when it has one.
SlotTaken ==
    /\ \A c \in Clients : pc[c] = "allocate" => req[c].slot = NoSlot
    /\ worker \in {"execute", "callback"} => current.slot # NoSlot

\* Who shares a slot is known for it.
SharingKnown ==
    \A r1, r2 \in Outstanding :
        r1.slot = r2.slot /\ r1.slot # NoSlot /\ r1 # r2 => r1.call \in shared

HasId(r, res, sh) ==
    r.slot # NoSlot /\ r.call \notin sh => res[r.slot].id = r.id

\* From its writing on, the slot of a request that shares it with no other has
\* its id; and when its callback is invoked, its verdict.
SlotsOK ==
    /\ \A c \in Clients : pc[c] = "send" => HasId(req[c], results, shared)
    /\ \A r \in Queued \cup Working : HasId(r, results, shared)
    /\ worker = "callback" /\ current.call \notin shared =>
         results[current.slot].status = "final"

\* The inductive invariant.
ExecInv ==
    /\ TypeOK
    /\ NumbersOK
    /\ PlacesOK
    /\ LogOK
    /\ SlotTaken
    /\ SharingKnown
    /\ SlotsOK
    /\ PendingIsOffBySkew

-----------------------------------------------------------------------------
(* Words and queues *)

\* What a word keeps of a number is the rest of a division by its range.
LEMMA WordIs ==
    ASSUME NEW n \in Int
    PROVE  /\ Word(n) \in 0..(WordSize - 1)
           /\ \E k \in Int : n = k * WordSize + Word(n)
<1>1. WordSize \in Nat /\ WordSize > 0
  BY ParametersAssumption
<1>2. n % WordSize \in 0..(WordSize - 1)
  BY <1>1
<1>3. n = (n \div WordSize) * WordSize + (n % WordSize) /\ n \div WordSize \in Int
  BY <1>1
<1> QED
  BY <1>2, <1>3 DEF Word

\* Two words whose difference is a multiple of the range are the same.
LEMMA WordIsUnique ==
    ASSUME NEW k \in Int, NEW a \in 0..(WordSize - 1), NEW b \in 0..(WordSize - 1),
           a = k * WordSize + b
    PROVE  a = b
<1>1. WordSize \in Nat /\ WordSize > 0
  BY ParametersAssumption
<1>2. CASE k = 0
  BY <1>1, <1>2
<1>3. CASE k >= 1
  <2>1. k * WordSize >= WordSize
    BY <1>1, <1>3
  <2> QED
    BY <1>1, <2>1
<1>4. CASE k <= -1
  <2>1. k * WordSize <= -WordSize
    BY <1>1, <1>4
  <2> QED
    BY <1>1, <2>1
<1> QED
  BY <1>2, <1>3, <1>4

\* Adding to a word is adding to the number it keeps.
LEMMA WordOfSum ==
    ASSUME NEW n \in Int, NEW d \in Int
    PROVE  Word(Word(n) + d) = Word(n + d)
<1>1. PICK k \in Int : n = k * WordSize + Word(n)
  BY WordIs
<1>2. Word(n) \in Int /\ Word(n) + d \in Int /\ n + d \in Int
  BY WordIs, ParametersAssumption
<1>3. PICK l \in Int : Word(n) + d = l * WordSize + Word(Word(n) + d)
  BY <1>2, WordIs
<1>4. PICK m \in Int : n + d = m * WordSize + Word(n + d)
  BY <1>2, WordIs
<1>5. WordSize \in Int
  BY ParametersAssumption
<1> DEFINE a == Word(Word(n) + d)
           b == Word(n + d)
<1>6. a \in 0..(WordSize - 1) /\ b \in 0..(WordSize - 1)
  BY <1>2, WordIs
<1>7. a \in Int /\ b \in Int
  BY <1>5, <1>6
<1> HIDE DEF a, b
<1>8. a = (m - k - l) * WordSize + b
  <2>1. l * WordSize + a + k * WordSize = m * WordSize + b
    BY <1>1, <1>2, <1>3, <1>4, <1>5, <1>7 DEF a, b
  <2>2. (m - k - l) * WordSize = m * WordSize - k * WordSize - l * WordSize
    BY <1>5
  <2>3. /\ m * WordSize \in Int /\ k * WordSize \in Int /\ l * WordSize \in Int
    BY <1>5
  <2> QED
    BY <1>7, <2>1, <2>2, <2>3
<1>9. m - k - l \in Int
  OBVIOUS
<1> QED
  BY <1>6, <1>8, <1>9, WordIsUnique DEF a, b

\* A queue with one more element.
LEMMA Appended ==
    ASSUME NEW S, NEW q \in Seq(S), NEW e \in S
    PROVE  /\ Append(q, e) \in Seq(S)
           /\ Len(Append(q, e)) = Len(q) + 1
           /\ \A i \in 1..Len(q) : Append(q, e)[i] = q[i]
           /\ Append(q, e)[Len(q) + 1] = e
OBVIOUS

\* A queue without its first element.
LEMMA Taken ==
    ASSUME NEW S, NEW q \in Seq(S), q # <<>>
    PROVE  /\ Tail(q) \in Seq(S) /\ Len(Tail(q)) = Len(q) - 1
           /\ \A i \in 1..(Len(q) - 1) : Tail(q)[i] = q[i + 1]
           /\ Head(q) = q[1] /\ Head(q) \in S /\ Len(q) \in Nat \ {0}
<1>1. Len(q) \in Nat \ {0}
  OBVIOUS
<1>2. Head(q) = q[1] /\ Head(q) \in S
  BY <1>1
<1> QED
  BY <1>1, <1>2

\* The first element of a queue and the others are the queue.
LEMMA HeadAndTail ==
    ASSUME NEW S, NEW q \in Seq(S), q # <<>>
    PROVE  <<Head(q)>> \o Tail(q) = q
<1>1. /\ Tail(q) \in Seq(S) /\ Len(Tail(q)) = Len(q) - 1
      /\ \A i \in 1..(Len(q) - 1) : Tail(q)[i] = q[i + 1]
      /\ Head(q) = q[1] /\ Head(q) \in S /\ Len(q) \in Nat \ {0}
  BY Taken
<1> DEFINE p == <<Head(q)>> \o Tail(q)
<1>2. /\ p \in Seq(S) /\ Len(p) = Len(q)
      /\ \A i \in 1..Len(q) : p[i] = IF i = 1 THEN Head(q) ELSE Tail(q)[i - 1]
  BY <1>1
<1>3. \A i \in 1..Len(q) : i = 1 \/ (i - 1 \in 1..(Len(q) - 1) /\ (i - 1) + 1 = i)
  BY <1>1
<1>4. \A i \in 1..Len(q) : p[i] = q[i]
  BY <1>1, <1>2, <1>3
<1> QED
  BY <1>2, <1>4

-----------------------------------------------------------------------------
(* The requests *)

\* Where the requests are.
LEMMA OutstandingIs ==
    ASSUME NEW r
    PROVE  r \in Outstanding <=>
             \/ \E c \in Clients : pc[c] \in InCall /\ r = req[c]
             \/ \E i \in 1..Len(queue) : r = queue[i]
             \/ worker \in Busy /\ r = current
BY DEF Outstanding, Building, Queued, Working

\* The requests are requests.
LEMMA OutstandingAre == TypeOK => Outstanding \subseteq Requests
<1> SUFFICES ASSUME TypeOK, NEW r \in Outstanding PROVE r \in Requests
  OBVIOUS
<1>1. \A i \in 1..Len(queue) : queue[i] \in Requests
  BY DEF TypeOK
<1> QED
  BY <1>1, OutstandingIs DEF TypeOK

\* The requests are distinguished by their calls.
LEMMA CallsDistinguish ==
    ASSUME PlacesOK, NEW r1 \in Outstanding, NEW r2 \in Outstanding,
           r1.call = r2.call
    PROVE  r1 = r2
BY OutstandingIs DEF PlacesOK

\* There are finitely many.
LEMMA OutstandingFinite ==
    TypeOK => IsFiniteSet(Outstanding) /\ Cardinality(Outstanding) \in Nat
<1> SUFFICES ASSUME TypeOK
             PROVE  IsFiniteSet(Outstanding) /\ Cardinality(Outstanding) \in Nat
  OBVIOUS
<1>1. IsFiniteSet(Building)
  <2> DEFINE C == {d \in Clients : pc[d] \in InCall}
             f == [c \in C |-> req[c]]
  <2>1. IsFiniteSet(C)
    BY ParametersAssumption, FS_Subset
  <2>2. f \in Surjection(C, Building)
    BY DEF Building, Surjection
  <2> QED
    BY <2>1, <2>2, FS_Surjection
<1>2. IsFiniteSet(Queued)
  <2> DEFINE N == 1..Len(queue)
             f == [i \in N |-> queue[i]]
  <2>1. IsFiniteSet(N)
    <3>1. 1 \in Int /\ Len(queue) \in Int
      BY DEF TypeOK
    <3> QED
      BY <3>1, FS_Interval
  <2>2. f \in Surjection(N, Queued)
    BY DEF Queued, Surjection
  <2> QED
    BY <2>1, <2>2, FS_Surjection
<1>3. IsFiniteSet(Working)
  BY FS_EmptySet, FS_Singleton DEF Working
<1> QED
  BY <1>1, <1>2, <1>3, FS_Union, FS_CardinalityType DEF Outstanding

\* An element replaced by another one.
LEMMA ReplacedCount ==
    ASSUME NEW S, IsFiniteSet(S), NEW x \in S, NEW y, y \notin S
    PROVE  Cardinality((S \ {x}) \cup {y}) = Cardinality(S)
<1>1. IsFiniteSet(S \ {x}) /\ Cardinality(S \ {x}) = Cardinality(S) - 1
  BY FS_RemoveElement
<1>2. y \notin S \ {x}
  OBVIOUS
<1>3. Cardinality((S \ {x}) \cup {y}) = Cardinality(S \ {x}) + 1
  BY <1>1, <1>2, FS_AddElement
<1>4. Cardinality(S) \in Nat
  BY FS_CardinalityType
<1> QED
  BY <1>1, <1>3, <1>4

\* A request given a slot.
LEMMA SlottedRequest ==
    ASSUME NEW r \in Requests, NEW s \in Slots
    PROVE  /\ [r EXCEPT !.slot = s] \in Requests
           /\ [r EXCEPT !.slot = s].call = r.call
           /\ [r EXCEPT !.slot = s].id = r.id
           /\ [r EXCEPT !.slot = s].slot = s
BY DEF Requests

\* A slot with another status.
LEMMA MarkedResult ==
    ASSUME NEW e \in Results, NEW v \in {"pending", "running", "final"}
    PROVE  /\ [e EXCEPT !.status = v] \in Results
           /\ [e EXCEPT !.status = v].id = e.id
           /\ [e EXCEPT !.status = v].status = v
BY DEF Results

\* What stands for no request and no result, and zero.
LEMMA Blanks ==
    /\ NoReq \in Requests /\ NoReq.slot = NoSlot
    /\ Blank \in Results
    /\ NoSlot \notin Slots
    /\ 0 \in 0..(WordSize - 1) /\ Word(0) = 0
<1>1. 0 \in 0..(WordSize - 1)
  BY ParametersAssumption
<1>2. PICK k \in Int : 0 = k * WordSize + Word(0)
  BY WordIs
<1>3. Word(0) = 0
  BY <1>1, <1>2, WordIs, WordIsUnique
<1> QED
  BY <1>1, <1>3, ParametersAssumption
  DEF NoReq, Requests, Blank, Results, NoSlot, Slots

\* Without a request there is no slot that matters.
LEMMA EmptyExec ==
    ASSUME ExecInv, TypeOK',
           \A c \in Clients : pc'[c] \notin InCall,
           queue' = <<>>, worker' \notin Busy,
           UNCHANGED <<calls, log, notified, shared>>,
           phase' = "up" => pending' = 0 /\ skew' = 0
    PROVE  ExecInv' /\ Outstanding' = {}
<1>1. Outstanding' = {}
  BY DEF Outstanding, Building, Queued, Working
<1>2. NumbersOK' /\ PlacesOK' /\ LogOK'
  BY <1>1 DEF ExecInv, NumbersOK, PlacesOK, LogOK, Busy
<1>3. SlotTaken' /\ SharingKnown' /\ SlotsOK'
  BY <1>1 DEF SlotTaken, SharingKnown, SlotsOK, Outstanding, InCall, Busy
<1>4. PendingIsOffBySkew'
  BY <1>1, Blanks, FS_EmptySet DEF PendingIsOffBySkew
<1> QED
  BY <1>1, <1>2, <1>3, <1>4 DEF ExecInv

\* Nothing has been started.
LEMMA InitExec == Init => ExecInv
<1> SUFFICES ASSUME Init PROVE ExecInv
  OBVIOUS
<1>1. TypeOK
  BY Blanks, ParametersAssumption DEF Init, TypeOK
<1>2. Outstanding = {}
  BY DEF Init, Outstanding, Building, Queued, Working, InCall, Busy
<1>3. NumbersOK /\ PlacesOK /\ LogOK
  BY <1>2 DEF Init, NumbersOK, PlacesOK, LogOK, Busy, InCall
<1>4. SlotTaken /\ SharingKnown /\ SlotsOK
  BY <1>2 DEF Init, SlotTaken, SharingKnown, SlotsOK, Outstanding, InCall, Busy
<1> QED
  BY <1>1, <1>3, <1>4 DEF Init, ExecInv, PendingIsOffBySkew

\* A new context has no requests.
LEMMA StartExec == ExecInv /\ Start => ExecInv'
<1> SUFFICES ASSUME ExecInv, Start PROVE ExecInv'
  OBVIOUS
<1>1. TypeOK'
  BY Blanks, ParametersAssumption DEF ExecInv, TypeOK, Start
<1> QED
  BY <1>1, EmptyExec DEF Start, InCall, Busy

-----------------------------------------------------------------------------
(* The clients *)

\* A new request has a new number, and is counted.
LEMMA SubmitExec ==
    ASSUME ExecInv, NEW c \in Clients, Submit(c)
    PROVE  ExecInv'
<1> DEFINE r == [call |-> calls + 1, id |-> nextId, slot |-> NoSlot]
<1>1. /\ pc[c] = "out" /\ phase = "up" /\ phase' = "up"
      /\ calls' = calls + 1 /\ calls < MaxRequests
      /\ req' = [req EXCEPT ![c] = r]
      /\ pending' = Word(pending + 1)
      /\ pc' = [pc EXCEPT ![c] = "allocate"]
      /\ UNCHANGED <<results, queue, worker, current, log, notified, shared,
                     skew>>
  BY DEF Submit, Goto, workerVars
<1>2. calls \in Nat /\ MaxRequests \in Nat
  BY ParametersAssumption DEF ExecInv, TypeOK
<1>3. r \in Requests /\ r.call = calls + 1 /\ r.slot = NoSlot
  BY <1>1, <1>2 DEF ExecInv, TypeOK, Requests
<1> HIDE DEF r
<1>4. /\ \A d \in Clients : pc'[d] = IF d = c THEN "allocate" ELSE pc[d]
      /\ \A d \in Clients : req'[d] = IF d = c THEN r ELSE req[d]
  BY <1>1 DEF ExecInv, TypeOK
<1>5. TypeOK'
  <2>1. nextId' \in 0..(WordSize - 1) /\ pending' \in 0..(WordSize - 1)
    <3>1. nextId + 1 \in Int /\ pending + 1 \in Int
      BY ParametersAssumption DEF ExecInv, TypeOK
    <3> QED
      BY <1>1, <3>1, WordIs DEF Submit
  <2>2. calls' \in 0..MaxRequests
    BY <1>1, <1>2
  <2>3. pc' \in [Clients -> {"deleted", "out"} \cup InCall]
    BY <1>1 DEF ExecInv, TypeOK, InCall
  <2>4. req' \in [Clients -> Requests]
    BY <1>1, <1>3 DEF ExecInv, TypeOK
  <2> QED
    BY <1>1, <2>1, <2>2, <2>3, <2>4 DEF ExecInv, TypeOK
<1>6. Outstanding' = Outstanding \cup {r} /\ r \notin Outstanding
  <2>1. Queued' = Queued /\ Working' = Working
    BY <1>1 DEF Queued, Working
  <2>2. Building' = Building \cup {r}
    BY <1>1, <1>4 DEF Building, InCall
  <2>3. r \notin Outstanding
    BY <1>2, <1>3 DEF ExecInv, NumbersOK
  <2> QED
    BY <2>1, <2>2, <2>3 DEF Outstanding
<1>7. NumbersOK'
  <2>1. \A n \in 1..calls : n \in 1..calls' /\ n # calls + 1
    BY <1>1, <1>2
  <2>2. calls + 1 \in 1..calls'
    BY <1>1, <1>2
  <2> QED
    BY <1>1, <1>3, <1>6, <2>1, <2>2 DEF ExecInv, NumbersOK
<1>8. \A q \in Outstanding : q.call # r.call
  BY <1>2, <1>3 DEF ExecInv, NumbersOK
<1>9. PlacesOK'
  <2>1. /\ \A d \in Clients : pc[d] \in InCall => req[d] \in Outstanding
        /\ \A i \in 1..Len(queue) : queue[i] \in Outstanding
        /\ worker \in Busy => current \in Outstanding
    BY OutstandingIs
  <2> QED
    BY <1>1, <1>4, <1>8, <2>1 DEF ExecInv, PlacesOK
<1>10. LogOK'
  <2>1. \A k \in 1..Len(log) : log[k].call # calls + 1
    BY <1>2 DEF ExecInv, NumbersOK
  <2> QED
    BY <1>1, <1>3, <1>4, <2>1 DEF ExecInv, LogOK
<1>11. SlotTaken'
  BY <1>1, <1>3, <1>4 DEF ExecInv, SlotTaken
<1>12. SharingKnown'
  BY <1>1, <1>3, <1>6 DEF ExecInv, SharingKnown
<1>13. SlotsOK'
  BY <1>1, <1>4 DEF ExecInv, SlotsOK, HasId, Queued, Working
<1>14. PendingIsOffBySkew'
  <2>1. IsFiniteSet(Outstanding) /\ Cardinality(Outstanding) \in Nat
    BY OutstandingFinite DEF ExecInv
  <2>2. Cardinality(Outstanding') = Cardinality(Outstanding) + 1
    BY <1>6, <2>1, FS_AddElement
  <2>3. pending = Word(Cardinality(Outstanding) + skew)
    BY <1>1 DEF ExecInv, PendingIsOffBySkew
  <2>4. skew \in Int
    BY DEF ExecInv, TypeOK
  <2>5. pending' = Word(Cardinality(Outstanding) + skew + 1)
    BY <1>1, <2>1, <2>3, <2>4, WordOfSum
  <2>6. Cardinality(Outstanding) + skew + 1 = Cardinality(Outstanding') + skew'
    BY <1>1, <2>1, <2>2, <2>4
  <2> QED
    BY <2>5, <2>6 DEF PendingIsOffBySkew
<1> QED
  BY <1>5, <1>7, <1>9, <1>10, <1>11, <1>12, <1>13, <1>14 DEF ExecInv

\* A request that gets a slot stays the same request otherwise; those that have
\* the slot already, and it, are on record.
LEMMA AllocateExec ==
    ASSUME ExecInv, NEW c \in Clients, Allocate(c)
    PROVE  ExecInv'
<1>1. /\ pc[c] = "allocate" /\ pc' = [pc EXCEPT ![c] = "fill"]
      /\ UNCHANGED <<phase, nextId, pending, queue, worker, current, log,
                     notified, calls, skew>>
  BY DEF Allocate, Goto, workerVars
<1>2. \A d \in Clients : pc'[d] = IF d = c THEN "fill" ELSE pc[d]
  BY <1>1 DEF ExecInv, TypeOK
<1>3. pc' \in [Clients -> {"deleted", "out"} \cup InCall]
  BY <1>1 DEF ExecInv, TypeOK, InCall
<1>4. req[c] \in Outstanding /\ req[c] \in Requests /\ req[c].slot = NoSlot
  BY <1>1, OutstandingIs DEF InCall, ExecInv, SlotTaken, TypeOK
<1>5. CASE UNCHANGED <<req, results, shared>>
  <2>1. TypeOK'
    BY <1>1, <1>3, <1>5 DEF ExecInv, TypeOK
  <2>2. Building' = Building /\ Queued' = Queued /\ Working' = Working
    BY <1>1, <1>2, <1>5 DEF Building, Queued, Working, InCall
  <2>3. Outstanding' = Outstanding
    BY <2>2 DEF Outstanding
  <2>4. NumbersOK' /\ SharingKnown' /\ PendingIsOffBySkew'
    BY <1>1, <1>5, <2>3 DEF ExecInv, NumbersOK, SharingKnown,
       PendingIsOffBySkew
  <2>5. PlacesOK' /\ LogOK'
    BY <1>1, <1>2, <1>5 DEF ExecInv, PlacesOK, LogOK, InCall
  <2>6. SlotTaken' /\ SlotsOK'
    BY <1>1, <1>2, <1>5, <2>2 DEF ExecInv, SlotTaken, SlotsOK, HasId
  <2> QED
    BY <2>1, <2>4, <2>5, <2>6 DEF ExecInv
<1>6. ASSUME NEW s \in FreeSlots,
             req' = [req EXCEPT ![c].slot = s],
             results' = [results EXCEPT ![s] = Blank],
             LET sharers == {r.call : r \in {q \in Outstanding : q.slot = s}}
             IN  shared' = IF sharers = {} THEN shared
                           ELSE shared \cup sharers \cup {req[c].call}
      PROVE  ExecInv'
  <2> DEFINE r == [req[c] EXCEPT !.slot = s]
  <2>1. s \in Slots /\ s # NoSlot
    BY Blanks DEF FreeSlots
  <2>2. r \in Requests /\ r.call = req[c].call /\ r.id = req[c].id /\ r.slot = s
    BY <1>4, <2>1, SlottedRequest
  <2>3. req' = [req EXCEPT ![c] = r]
    BY <1>6
  <2> HIDE DEF r
  <2>4. \A d \in Clients : req'[d] = IF d = c THEN r ELSE req[d]
    BY <2>3 DEF ExecInv, TypeOK
  <2>5. \A q \in Outstanding : q.slot = s => q.call \in shared'
                                            /\ r.call \in shared'
    BY <1>6, <2>2
  <2>6. shared \subseteq shared' /\
        shared' \subseteq shared \cup {q.call : q \in Outstanding}
    BY <1>4, <1>6
  <2>7. \A n \in 1..calls : n \in 1..MaxRequests
    BY ParametersAssumption DEF ExecInv, TypeOK
  <2>8. shared' \subseteq 1..calls
    BY <2>6 DEF ExecInv, NumbersOK
  <2>9. TypeOK'
    <3>1. req' \in [Clients -> Requests]
      BY <2>2, <2>3 DEF ExecInv, TypeOK
    <3>2. results' \in [Slots -> Results]
      BY <1>6, Blanks DEF ExecInv, TypeOK
    <3>3. shared' \subseteq 1..MaxRequests
      BY <2>7, <2>8
    <3> QED
      BY <1>1, <1>3, <3>1, <3>2, <3>3 DEF ExecInv, TypeOK
  <2>10. Queued' = Queued /\ Working' = Working
    BY <1>1 DEF Queued, Working
  <2>11. \A q \in Outstanding \ {req[c]} : q.call # req[c].call
    BY <1>4, CallsDistinguish DEF ExecInv
  <2>12. Outstanding' = (Outstanding \ {req[c]}) \cup {r}
    <3>1. \A d \in Clients : pc[d] \in InCall /\ d # c => req[d] # req[c]
      BY <1>1 DEF ExecInv, PlacesOK, InCall
    <3>2. Building' = (Building \ {req[c]}) \cup {r}
      BY <1>1, <1>2, <2>4, <3>1 DEF Building, InCall
    <3>3. req[c] \notin Queued /\ req[c] \notin Working
      BY <1>1 DEF ExecInv, PlacesOK, InCall, Queued, Working
    <3> QED
      BY <2>10, <3>2, <3>3 DEF Outstanding
  <2>13. r \notin Outstanding
    BY <1>4, <2>1, <2>2, <2>11
  <2>14. NumbersOK'
    BY <1>1, <1>4, <2>2, <2>8, <2>12 DEF ExecInv, NumbersOK
  <2>15. PlacesOK' /\ LogOK'
    BY <1>1, <1>2, <2>2, <2>4 DEF ExecInv, PlacesOK, LogOK, InCall
  <2>16. SlotTaken'
    BY <1>1, <1>2, <2>4 DEF ExecInv, SlotTaken
  <2>17. SharingKnown'
    <3> SUFFICES ASSUME NEW r1 \in Outstanding', NEW r2 \in Outstanding',
                        r1.slot = r2.slot, r1.slot # NoSlot, r1 # r2
                 PROVE  r1.call \in shared'
      BY DEF SharingKnown
    <3>1. CASE r1 \in Outstanding /\ r2 \in Outstanding
      BY <2>6, <3>1 DEF ExecInv, SharingKnown
    <3>2. CASE r1 = r \/ r2 = r
      BY <2>2, <2>5, <2>12, <3>2
    <3> QED
      BY <2>12, <3>1, <3>2
  <2>18. \A q \in Outstanding : HasId(q, results, shared) =>
                                 HasId(q, results', shared')
    <3>1. \A q \in Outstanding : q.slot # NoSlot => q.slot \in Slots
      BY OutstandingAre DEF ExecInv, Requests
    <3>2. \A q \in Slots : q # s => results'[q] = results[q]
      BY <1>6 DEF ExecInv, TypeOK
    <3> QED
      BY <2>5, <2>6, <3>1, <3>2 DEF HasId
  <2>19. SlotsOK'
    <3>1. \A d \in Clients : pc[d] = "send" => req[d] \in Outstanding
      BY OutstandingIs DEF InCall
    <3>2. \A d \in Clients :
            pc'[d] = "send" => HasId(req'[d], results', shared')
      BY <1>2, <2>4, <2>18, <3>1 DEF ExecInv, SlotsOK
    <3>3. \A q \in Queued' \cup Working' : HasId(q, results', shared')
      BY <2>10, <2>18 DEF ExecInv, SlotsOK, Outstanding
    <3>4. worker = "callback" /\ current.call \notin shared' =>
            current.slot # s
      BY <2>5 DEF Outstanding, Working, Busy
    <3>5. worker' = "callback" /\ current'.call \notin shared' =>
            results'[current'.slot].status = "final"
      BY <1>1, <1>6, <2>6, <3>4 DEF ExecInv, TypeOK, SlotsOK
    <3> QED
      BY <3>2, <3>3, <3>5 DEF SlotsOK
  <2>20. PendingIsOffBySkew'
    <3>1. Cardinality(Outstanding') = Cardinality(Outstanding)
      BY <1>4, <2>12, <2>13, OutstandingFinite, ReplacedCount DEF ExecInv
    <3> QED
      BY <1>1, <3>1 DEF ExecInv, PendingIsOffBySkew
  <2> QED
    BY <2>9, <2>14, <2>15, <2>16, <2>17, <2>19, <2>20 DEF ExecInv
<1> QED
  BY <1>5, <1>6 DEF Allocate

\* A client writes its id into its slot; who has the same slot is on record.
LEMMA FillExec ==
    ASSUME ExecInv, NEW c \in Clients, Fill(c)
    PROVE  ExecInv'
<1>1. /\ pc[c] = "fill" /\ pc' = [pc EXCEPT ![c] = "send"]
      /\ UNCHANGED <<phase, nextId, pending, queue, req, worker, current, log,
                     notified, calls, shared, skew>>
      /\ results' = [s \in Slots |->
                       IF s = req[c].slot
                       THEN [status |-> "pending", id |-> req[c].id]
                       ELSE results[s]]
  BY DEF Fill, Goto, workerVars
<1>2. \A d \in Clients : pc'[d] = IF d = c THEN "send" ELSE pc[d]
  BY <1>1 DEF ExecInv, TypeOK
<1>3. req[c] \in Outstanding /\ req[c] \in Requests
  BY <1>1, OutstandingIs DEF InCall, ExecInv, TypeOK
<1>4. TypeOK'
  <2>1. pc' \in [Clients -> {"deleted", "out"} \cup InCall]
    BY <1>1 DEF ExecInv, TypeOK, InCall
  <2>2. [status |-> "pending", id |-> req[c].id] \in Results
    BY <1>3 DEF Requests, Results
  <2>3. results' \in [Slots -> Results]
    BY <1>1, <2>2 DEF ExecInv, TypeOK
  <2> QED
    BY <1>1, <2>1, <2>3 DEF ExecInv, TypeOK
<1>5. Building' = Building /\ Queued' = Queued /\ Working' = Working
  BY <1>1, <1>2 DEF Building, Queued, Working, InCall
<1>6. Outstanding' = Outstanding
  BY <1>5 DEF Outstanding
<1>7. NumbersOK' /\ SharingKnown' /\ PendingIsOffBySkew'
  BY <1>1, <1>6 DEF ExecInv, NumbersOK, SharingKnown, PendingIsOffBySkew
<1>8. PlacesOK' /\ LogOK' /\ SlotTaken'
  BY <1>1, <1>2 DEF ExecInv, PlacesOK, LogOK, SlotTaken, InCall
<1>9. \A q \in Outstanding \ {req[c]} :
        q.slot # NoSlot /\ q.call \notin shared => q.slot # req[c].slot
  BY <1>3 DEF ExecInv, SharingKnown
<1>10. \A q \in Outstanding \ {req[c]} : HasId(q, results, shared) =>
                                          HasId(q, results', shared)
  <2>1. \A q \in Outstanding : q.slot # NoSlot => q.slot \in Slots
    BY OutstandingAre DEF ExecInv, Requests
  <2> QED
    BY <1>1, <1>9, <2>1 DEF HasId
<1>11. HasId(req[c], results', shared)
  BY <1>1, <1>3 DEF HasId, Requests
<1>12. SlotsOK'
  <2>4. \A d \in Clients : pc[d] = "send" => req[d] \in Outstanding
    BY OutstandingIs DEF InCall
  <2>1. \A d \in Clients : pc'[d] = "send" => HasId(req[d], results', shared)
    BY <1>2, <1>10, <1>11, <2>4 DEF ExecInv, SlotsOK
  <2>2. \A q \in Queued \cup Working : HasId(q, results', shared)
    BY <1>10, <1>11 DEF ExecInv, SlotsOK, Outstanding
  <2>3. worker = "callback" /\ current.call \notin shared =>
          current.slot # req[c].slot /\ current.slot \in Slots
    <3>1. worker = "callback" => current \in Outstanding /\ current # req[c]
      BY <1>1, OutstandingIs DEF ExecInv, PlacesOK, InCall, Busy
    <3>2. worker = "callback" => current.slot # NoSlot /\ current \in Requests
      BY DEF ExecInv, SlotTaken, TypeOK
    <3> QED
      BY <1>9, <3>1, <3>2 DEF Requests
  <2> QED
    BY <1>1, <1>5, <2>1, <2>2, <2>3 DEF ExecInv, SlotsOK
<1> QED
  BY <1>4, <1>7, <1>8, <1>12 DEF ExecInv

\* A request that is sent moves from its client to the end of the queue.
LEMMA SendExec ==
    ASSUME ExecInv, NEW c \in Clients, Send(c)
    PROVE  ExecInv'
<1>1. /\ pc[c] = "send" /\ pc' = [pc EXCEPT ![c] = "out"]
      /\ Len(queue) < QueueSize
      /\ queue' = Append(queue, req[c])
      /\ req' = [req EXCEPT ![c] = NoReq]
      /\ UNCHANGED <<phase, nextId, pending, results, worker, current, log,
                     notified, calls, shared, skew>>
  BY DEF Send, Goto, workerVars
<1>2. /\ \A d \in Clients : pc'[d] = IF d = c THEN "out" ELSE pc[d]
      /\ \A d \in Clients \ {c} : req'[d] = req[d]
  BY <1>1 DEF ExecInv, TypeOK
<1>3. req[c] \in Requests /\ queue \in Seq(Requests) /\ Len(queue) \in Nat
  BY DEF ExecInv, TypeOK
<1>4. /\ queue' \in Seq(Requests) /\ Len(queue') = Len(queue) + 1
      /\ \A i \in 1..Len(queue) : queue'[i] = queue[i]
      /\ queue'[Len(queue) + 1] = req[c]
  BY <1>1, <1>3, Appended
<1>5. \A i \in 1..Len(queue') : i \in 1..Len(queue) \/ i = Len(queue) + 1
  BY <1>3, <1>4
<1>6. TypeOK'
  <2>1. pc' \in [Clients -> {"deleted", "out"} \cup InCall]
    BY <1>1 DEF ExecInv, TypeOK
  <2>2. req' \in [Clients -> Requests]
    BY <1>1, Blanks DEF ExecInv, TypeOK
  <2>3. Len(queue') <= QueueSize
    BY <1>1, <1>3, <1>4, ParametersAssumption
  <2> QED
    BY <1>1, <1>4, <2>1, <2>2, <2>3 DEF ExecInv, TypeOK
<1>7. Queued' = Queued \cup {req[c]} /\ Working' = Working
  <2>1. \A i \in 1..Len(queue) : i \in 1..Len(queue')
    BY <1>3, <1>4
  <2>2. Len(queue) + 1 \in 1..Len(queue')
    BY <1>3, <1>4
  <2> QED
    BY <1>1, <1>4, <1>5, <2>1, <2>2 DEF Queued, Working
<1>8. Outstanding' = Outstanding
  <2>1. Building \subseteq Building' \cup {req[c]} /\ Building' \subseteq Building
    BY <1>2 DEF Building, InCall
  <2>2. req[c] \in Building
    BY <1>1 DEF Building, InCall
  <2> QED
    BY <1>7, <2>1, <2>2 DEF Outstanding
<1>9. NumbersOK' /\ SharingKnown' /\ PendingIsOffBySkew'
  BY <1>1, <1>8 DEF ExecInv, NumbersOK, SharingKnown, PendingIsOffBySkew
<1>10. PlacesOK'
  <2>1. \A d \in Clients : pc'[d] \in InCall =>
          d # c /\ pc[d] \in InCall /\ req'[d] = req[d]
    BY <1>2 DEF InCall
  <2>2. pc[c] \in InCall
    BY <1>1 DEF InCall
  <2>3. \A i, j \in 1..Len(queue') : i # j => queue'[i].call # queue'[j].call
    BY <1>4, <1>5, <2>2 DEF ExecInv, PlacesOK
  <2>4. \A d \in Clients, i \in 1..Len(queue') :
          pc'[d] \in InCall => req'[d].call # queue'[i].call
    BY <1>4, <1>5, <2>1, <2>2 DEF ExecInv, PlacesOK
  <2> QED
    BY <1>1, <1>4, <1>5, <2>1, <2>2, <2>3, <2>4 DEF ExecInv, PlacesOK
<1>11. LogOK'
  BY <1>1, <1>2, <1>4, <1>5 DEF ExecInv, LogOK, InCall
<1>12. SlotTaken'
  BY <1>1, <1>2 DEF ExecInv, SlotTaken
<1>13. SlotsOK'
  BY <1>1, <1>2, <1>7 DEF ExecInv, SlotsOK
<1> QED
  BY <1>6, <1>9, <1>10, <1>11, <1>12, <1>13 DEF ExecInv

\* A rejected request is gone, and counted in the skew.
LEMMA SendFailsExec ==
    ASSUME ExecInv, NEW c \in Clients, SendFails(c)
    PROVE  ExecInv'
<1>1. /\ pc[c] = "send" /\ pc' = [pc EXCEPT ![c] = "out"]
      /\ req' = [req EXCEPT ![c] = NoReq]
      /\ results' = [s \in Slots |-> IF s = req[c].slot THEN Blank
                                     ELSE results[s]]
      /\ skew' = skew + 1
      /\ UNCHANGED <<phase, nextId, pending, queue, worker, current, log,
                     notified, calls, shared>>
  BY DEF SendFails, FreeResult, Goto, workerVars
<1>2. /\ \A d \in Clients : pc'[d] = IF d = c THEN "out" ELSE pc[d]
      /\ \A d \in Clients \ {c} : req'[d] = req[d]
  BY <1>1 DEF ExecInv, TypeOK
<1>3. req[c] \in Outstanding
  BY <1>1, OutstandingIs DEF InCall
<1>4. TypeOK'
  <2>1. pc' \in [Clients -> {"deleted", "out"} \cup InCall]
    BY <1>1 DEF ExecInv, TypeOK
  <2>2. req' \in [Clients -> Requests] /\ results' \in [Slots -> Results]
    BY <1>1, Blanks DEF ExecInv, TypeOK
  <2> QED
    BY <1>1, <2>1, <2>2 DEF ExecInv, TypeOK
<1>5. Queued' = Queued /\ Working' = Working
  BY <1>1 DEF Queued, Working
<1>6. Outstanding' = Outstanding \ {req[c]}
  <2>1. Building' = Building \ {req[c]}
    <3>1. \A d \in Clients : pc[d] \in InCall /\ d # c => req[d] # req[c]
      BY <1>1 DEF ExecInv, PlacesOK, InCall
    <3> QED
      BY <1>1, <1>2, <3>1 DEF Building, InCall
  <2>2. req[c] \notin Queued /\ req[c] \notin Working
    BY <1>1 DEF ExecInv, PlacesOK, InCall, Queued, Working
  <2> QED
    BY <1>5, <2>1, <2>2 DEF Outstanding
<1>7. NumbersOK' /\ SharingKnown'
  BY <1>1, <1>6 DEF ExecInv, NumbersOK, SharingKnown
<1>8. PlacesOK' /\ LogOK' /\ SlotTaken'
  BY <1>1, <1>2 DEF ExecInv, PlacesOK, LogOK, SlotTaken, InCall
<1>9. \A q \in Outstanding' : q.slot # NoSlot /\ q.call \notin shared =>
        q.slot # req[c].slot /\ q.slot \in Slots
  <2>1. \A q \in Outstanding : q.slot # NoSlot => q.slot \in Slots
    BY OutstandingAre DEF ExecInv, Requests
  <2> QED
    BY <1>3, <1>6, <2>1 DEF ExecInv, SharingKnown
<1>10. \A q \in Outstanding' : HasId(q, results, shared) =>
                                 HasId(q, results', shared)
  BY <1>1, <1>9 DEF HasId
<1>11. SlotsOK'
  <2>1. \A d \in Clients : pc'[d] = "send" =>
          pc[d] = "send" /\ req'[d] = req[d] /\ req[d] \in Outstanding'
    <3>1. \A d \in Clients : pc'[d] = "send" => pc[d] = "send" /\ d # c
      BY <1>2
    <3>2. \A d \in Clients : pc[d] = "send" /\ d # c =>
            req[d] \in Outstanding /\ req[d] # req[c]
      BY <1>1, OutstandingIs DEF ExecInv, PlacesOK, InCall
    <3> QED
      BY <1>2, <1>6, <3>1, <3>2
  <2>2. \A q \in Queued' \cup Working' : q \in Outstanding'
    BY DEF Outstanding
  <2>3. worker = "callback" => current \in Outstanding' /\ current.slot # NoSlot
    BY <1>5 DEF Outstanding, Working, Busy, ExecInv, SlotTaken
  <2>4. worker = "callback" /\ current.call \notin shared =>
          results'[current.slot] = results[current.slot]
    BY <1>1, <1>9, <2>3
  <2> QED
    BY <1>1, <1>5, <1>10, <2>1, <2>2, <2>4 DEF ExecInv, SlotsOK
<1>12. PendingIsOffBySkew'
  <2>1. IsFiniteSet(Outstanding) /\ Cardinality(Outstanding) \in Nat
    BY OutstandingFinite DEF ExecInv
  <2>2. Cardinality(Outstanding') = Cardinality(Outstanding) - 1
    BY <1>3, <1>6, <2>1, FS_RemoveElement
  <2>3. Cardinality(Outstanding') + skew' = Cardinality(Outstanding) + skew
    BY <1>1, <2>1, <2>2 DEF ExecInv, TypeOK
  <2> QED
    BY <1>1, <2>3 DEF ExecInv, PendingIsOffBySkew
<1> QED
  BY <1>4, <1>7, <1>8, <1>11, <1>12 DEF ExecInv

-----------------------------------------------------------------------------
(* The worker *)

\* The request at the head of the queue becomes the worker's.
LEMMA ReceiveExec == ExecInv /\ Receive => ExecInv'
<1> SUFFICES ASSUME ExecInv, Receive PROVE ExecInv'
  OBVIOUS
<1>1. /\ worker = "receive" /\ worker' = "process" /\ queue # <<>>
      /\ current' = Head(queue) /\ queue' = Tail(queue)
      /\ UNCHANGED <<phase, nextId, pending, results, pc, req, calls, log,
                     notified, shared, skew>>
  BY DEF Receive, clientVars
<1>2. queue \in Seq(Requests)
  BY DEF ExecInv, TypeOK
<1>3. /\ queue' \in Seq(Requests) /\ Len(queue') = Len(queue) - 1
      /\ \A i \in 1..Len(queue') : queue'[i] = queue[i + 1]
      /\ current' = queue[1] /\ current' \in Requests
      /\ Len(queue) \in Nat \ {0}
  BY <1>1, <1>2, Taken
<1>4. TypeOK'
  <2>1. Len(queue') <= QueueSize
    BY <1>3, ParametersAssumption DEF ExecInv, TypeOK
  <2> QED
    BY <1>1, <1>3, <2>1 DEF ExecInv, TypeOK, Busy
<1>5. /\ \A i \in 1..Len(queue') : i + 1 \in 1..Len(queue) /\ i + 1 # 1
      /\ \A i, j \in 1..Len(queue') : i # j => i + 1 # j + 1
      /\ 1 \in 1..Len(queue)
      /\ \A i \in 1..Len(queue) : i = 1 \/ i - 1 \in 1..Len(queue')
      /\ \A i \in 1..Len(queue) : (i - 1) + 1 = i
  BY <1>3
<1>6. Queued' \cup Working' = Queued \cup Working
  <2>1. Working = {} /\ Working' = {queue[1]}
    BY <1>1, <1>3 DEF Working, Busy
  <2>2. /\ \A i \in 1..Len(queue) : queue[i] = queue[1] \/ queue[i] = queue'[i - 1]
        /\ \A i \in 1..Len(queue') : queue'[i] = queue[i + 1]
    BY <1>3, <1>5
  <2>3. Queued \subseteq Queued' \cup {queue[1]}
    <3>1. ASSUME NEW i \in 1..Len(queue) PROVE queue[i] \in Queued' \cup {queue[1]}
      <4>1. CASE queue[i] = queue[1]
        BY <4>1
      <4>2. CASE queue[i] # queue[1]
        <5>1. i - 1 \in 1..Len(queue') /\ queue[i] = queue'[i - 1]
          BY <1>5, <2>2, <4>2
        <5> QED
          BY <5>1 DEF Queued
      <4> QED
        BY <4>1, <4>2
    <3> QED
      BY <3>1 DEF Queued
  <2>4. Queued' \cup {queue[1]} \subseteq Queued
    <3>1. queue[1] \in Queued
      BY <1>5 DEF Queued
    <3>2. \A i \in 1..Len(queue') : queue'[i] \in Queued
      BY <1>5, <2>2 DEF Queued
    <3> QED
      BY <3>1, <3>2 DEF Queued
  <2> QED
    BY <2>1, <2>3, <2>4
<1>7. Building' = Building
  BY <1>1 DEF Building
<1>8. Outstanding' = Outstanding
  BY <1>6, <1>7 DEF Outstanding
<1>9. NumbersOK' /\ SharingKnown' /\ PendingIsOffBySkew'
  BY <1>1, <1>8 DEF ExecInv, NumbersOK, SharingKnown, PendingIsOffBySkew
<1>10. PlacesOK'
  BY <1>1, <1>3, <1>5 DEF ExecInv, PlacesOK
<1>11. LogOK'
  BY <1>1, <1>3, <1>5 DEF ExecInv, LogOK
<1>12. SlotTaken' /\ SlotsOK'
  BY <1>1, <1>6 DEF ExecInv, SlotTaken, SlotsOK
<1> QED
  BY <1>4, <1>9, <1>10, <1>11, <1>12 DEF ExecInv

\* While the worker is at the same request, or at none, the requests are where
\* they were.
LEMMA WorkerKeeps ==
    ASSUME ExecInv,
           worker' \in Busy <=> worker \in Busy,
           worker \in Busy => current' = current,
           UNCHANGED <<phase, pending, queue, pc, req, calls, notified, shared,
                       skew>>
    PROVE  /\ Outstanding' = Outstanding
           /\ Queued' = Queued /\ Working' = Working
           /\ PlacesOK' /\ SharingKnown' /\ PendingIsOffBySkew'
<1>1. Queued' = Queued /\ Working' = Working /\ Building' = Building
  BY DEF Queued, Working, Building
<1>2. Outstanding' = Outstanding
  BY <1>1 DEF Outstanding
<1>3. PlacesOK'
  BY DEF ExecInv, PlacesOK
<1> QED
  BY <1>1, <1>2, <1>3 DEF ExecInv, SharingKnown, PendingIsOffBySkew

\* The worker's turns without a request.
LEMMA IdleExec == ExecInv /\ (ReceiveTimesOut \/ CheckStop) => ExecInv'
<1> SUFFICES ASSUME ExecInv, ReceiveTimesOut \/ CheckStop PROVE ExecInv'
  OBVIOUS
<1>1. /\ worker \in {"receive", "check"} /\ worker' \in {"receive", "check", "exited"}
      /\ UNCHANGED <<phase, nextId, pending, results, queue, pc, req, current,
                     calls, log, notified, shared, skew>>
  BY DEF ReceiveTimesOut, CheckStop, clientVars
<1>2. worker \notin Busy /\ worker' \notin Busy
  BY <1>1 DEF Busy
<1>3. /\ Outstanding' = Outstanding
      /\ Queued' = Queued /\ Working' = Working
      /\ PlacesOK' /\ SharingKnown' /\ PendingIsOffBySkew'
  BY <1>1, <1>2, WorkerKeeps
<1>4. TypeOK' /\ LogOK' /\ SlotTaken'
  BY <1>1 DEF ExecInv, TypeOK, LogOK, SlotTaken
<1>5. NumbersOK' /\ SlotsOK'
  BY <1>1, <1>3 DEF ExecInv, NumbersOK, SlotsOK
<1> QED
  BY <1>3, <1>4, <1>5 DEF ExecInv

\* What is appended to the log is the worker's request.
LEMMA LoggedExec ==
    ASSUME ExecInv, worker \in {"process", "execute"}, NEW b \in BOOLEAN,
           log' = Append(log, [call |-> current.call, executed |-> b]),
           UNCHANGED <<calls, queue, pc, req>>, current' = current,
           worker' \in {"callback", "finish"}
    PROVE  /\ log' \in Seq([call : 1..MaxRequests, executed : BOOLEAN])
           /\ \A i \in 1..Len(log') : log'[i].call \in 1..calls
           /\ LogOK'
<1>1. worker \in Busy /\ current \in Outstanding
  BY OutstandingIs DEF Busy
<1>2. current.call \in 1..calls /\ current.call \in 1..MaxRequests
  BY <1>1, ParametersAssumption DEF ExecInv, NumbersOK, TypeOK
<1>3. [call |-> current.call, executed |-> b]
        \in [call : 1..MaxRequests, executed : BOOLEAN]
  BY <1>2
<1>4. log \in Seq([call : 1..MaxRequests, executed : BOOLEAN])
  BY DEF ExecInv, TypeOK
<1>5. /\ log' \in Seq([call : 1..MaxRequests, executed : BOOLEAN])
      /\ Len(log') = Len(log) + 1
      /\ \A i \in 1..Len(log) : log'[i] = log[i]
      /\ log'[Len(log) + 1] = [call |-> current.call, executed |-> b]
  BY <1>3, <1>4, Appended
<1>6. \A i \in 1..Len(log') : i \in 1..Len(log) \/ i = Len(log) + 1
  <2>1. Len(log) \in Nat
    BY <1>4
  <2> QED
    BY <1>5, <2>1
<1>7. \A i \in 1..Len(log') : log'[i].call \in 1..calls
  BY <1>2, <1>5, <1>6 DEF ExecInv, NumbersOK
<1>8. LogOK'
  BY <1>1, <1>5, <1>6 DEF ExecInv, LogOK, PlacesOK
<1> QED
  BY <1>5, <1>7, <1>8

\* Another status in the slot of the worker's request changes nobody's id.
LEMMA MarkExec ==
    ASSUME ExecInv, worker \in Busy, current.slot # NoSlot,
           NEW v \in {"pending", "running", "final"},
           results' = [results EXCEPT ![current.slot].status = v]
    PROVE  /\ results' \in [Slots -> Results]
           /\ current.slot \in Slots /\ results'[current.slot].status = v
           /\ \A r \in Outstanding : HasId(r, results, shared) =>
                                       HasId(r, results', shared)
<1>1. current.slot \in Slots
  BY DEF ExecInv, TypeOK, Requests
<1> DEFINE e == [results[current.slot] EXCEPT !.status = v]
<1>2. e \in Results /\ e.id = results[current.slot].id /\ e.status = v
  <2>1. results[current.slot] \in Results
    BY <1>1 DEF ExecInv, TypeOK
  <2> QED
    BY <2>1, MarkedResult
<1>3. results' = [results EXCEPT ![current.slot] = e]
  OBVIOUS
<1> HIDE DEF e
<1>4. results' \in [Slots -> Results] /\ results'[current.slot] = e
  BY <1>1, <1>2, <1>3 DEF ExecInv, TypeOK
<1>5. \A s \in Slots : results'[s].id = results[s].id
  BY <1>1, <1>2, <1>3 DEF ExecInv, TypeOK
<1>6. \A r \in Outstanding : r.slot # NoSlot => r.slot \in Slots
  BY OutstandingAre DEF ExecInv, Requests
<1> QED
  BY <1>1, <1>2, <1>4, <1>5, <1>6 DEF HasId

\* process_async_request, up to the statement.
LEMMA ProcessExec == ExecInv /\ Process => ExecInv'
<1> SUFFICES ASSUME ExecInv, Process PROVE ExecInv'
  OBVIOUS
<1>1. /\ worker = "process" /\ worker' \in {"finish", "execute"}
      /\ UNCHANGED <<phase, nextId, pending, queue, pc, req, current, notified,
                     calls, shared, skew>>
  BY DEF Process, clientVars
<1>2. worker \in Busy /\ worker' \in Busy
  BY <1>1 DEF Busy
<1>3. /\ Outstanding' = Outstanding
      /\ Queued' = Queued /\ Working' = Working
      /\ PlacesOK' /\ SharingKnown' /\ PendingIsOffBySkew'
  BY <1>1, <1>2, WorkerKeeps
<1>4. CASE current.slot = NoSlot
  <2>1. /\ worker' = "finish" /\ results' = results
        /\ log' = Append(log, [call |-> current.call, executed |-> FALSE])
    BY <1>4 DEF Process
  <2>2. /\ log' \in Seq([call : 1..MaxRequests, executed : BOOLEAN])
        /\ \A i \in 1..Len(log') : log'[i].call \in 1..calls
        /\ LogOK'
    BY <1>1, <2>1, LoggedExec
  <2>3. TypeOK' /\ SlotTaken'
    BY <1>1, <1>2, <2>1, <2>2 DEF ExecInv, TypeOK, SlotTaken
  <2>4. NumbersOK' /\ SlotsOK'
    BY <1>1, <1>3, <2>1, <2>2 DEF ExecInv, NumbersOK, SlotsOK
  <2> QED
    BY <1>3, <2>2, <2>3, <2>4 DEF ExecInv
<1>5. CASE current.slot # NoSlot
  <2>1. /\ worker' = "execute" /\ log' = log
        /\ results' = [results EXCEPT ![current.slot].status = "running"]
    BY <1>5 DEF Process
  <2>2. /\ results' \in [Slots -> Results]
        /\ \A r \in Outstanding : HasId(r, results, shared) =>
                                    HasId(r, results', shared)
    BY <1>2, <1>5, <2>1, MarkExec
  <2>3. TypeOK' /\ SlotTaken' /\ LogOK'
    BY <1>1, <1>2, <1>5, <2>1, <2>2 DEF ExecInv, TypeOK, SlotTaken, LogOK
  <2>4. NumbersOK'
    BY <1>1, <1>3, <2>1 DEF ExecInv, NumbersOK
  <2>5. SlotsOK'
    <3>1. \A d \in Clients : pc[d] = "send" => req[d] \in Outstanding
      BY OutstandingIs DEF InCall
    <3>2. \A r \in Queued \cup Working : r \in Outstanding
      BY DEF Outstanding
    <3> QED
      BY <1>1, <1>3, <2>1, <2>2, <3>1, <3>2 DEF ExecInv, SlotsOK
  <2> QED
    BY <1>3, <2>3, <2>4, <2>5 DEF ExecInv
<1> QED
  BY <1>4, <1>5

\* The verdict.
LEMMA ExecuteExec == ExecInv /\ Execute => ExecInv'
<1> SUFFICES ASSUME ExecInv, Execute PROVE ExecInv'
  OBVIOUS
<1>1. /\ worker = "execute" /\ worker' = "callback"
      /\ results' = [results EXCEPT ![current.slot].status = "final"]
      /\ log' = Append(log, [call |-> current.call, executed |-> TRUE])
      /\ UNCHANGED <<phase, nextId, pending, queue, pc, req, current, notified,
                     calls, shared, skew>>
  BY DEF Execute, clientVars
<1>2. worker \in Busy /\ worker' \in Busy /\ current.slot # NoSlot
  BY <1>1 DEF Busy, ExecInv, SlotTaken
<1>3. /\ Outstanding' = Outstanding
      /\ Queued' = Queued /\ Working' = Working
      /\ PlacesOK' /\ SharingKnown' /\ PendingIsOffBySkew'
  BY <1>1, <1>2, WorkerKeeps
<1>4. /\ log' \in Seq([call : 1..MaxRequests, executed : BOOLEAN])
      /\ \A i \in 1..Len(log') : log'[i].call \in 1..calls
      /\ LogOK'
  BY <1>1, LoggedExec
<1>5. /\ results' \in [Slots -> Results]
      /\ results'[current.slot].status = "final"
      /\ \A r \in Outstanding : HasId(r, results, shared) =>
                                  HasId(r, results', shared)
  BY <1>1, <1>2, MarkExec
<1>6. TypeOK' /\ SlotTaken'
  BY <1>1, <1>2, <1>4, <1>5 DEF ExecInv, TypeOK, SlotTaken
<1>7. NumbersOK'
  BY <1>1, <1>3, <1>4 DEF ExecInv, NumbersOK
<1>8. SlotsOK'
  <2>1. \A d \in Clients : pc[d] = "send" => req[d] \in Outstanding
    BY OutstandingIs DEF InCall
  <2>2. \A r \in Queued \cup Working : r \in Outstanding
    BY DEF Outstanding
  <2> QED
    BY <1>1, <1>3, <1>5, <2>1, <2>2 DEF ExecInv, SlotsOK
<1> QED
  BY <1>3, <1>4, <1>6, <1>7, <1>8 DEF ExecInv

\* The callback.
LEMMA CallbackExec == ExecInv /\ Callback => ExecInv'
<1> SUFFICES ASSUME ExecInv, Callback PROVE ExecInv'
  OBVIOUS
<1>1. /\ worker = "callback" /\ worker' = "finish"
      /\ notified' = notified \cup {current.call}
      /\ UNCHANGED <<phase, nextId, pending, results, queue, pc, req, current,
                     log, calls, shared, skew>>
  BY DEF Callback, clientVars
<1>2. worker \in Busy /\ worker' \in Busy /\ current \in Outstanding
  BY <1>1, OutstandingIs DEF Busy
<1>3. Queued' = Queued /\ Working' = Working /\ Building' = Building
  BY <1>1, <1>2 DEF Queued, Working, Building
<1>4. Outstanding' = Outstanding
  BY <1>3 DEF Outstanding
<1>5. current.call \in 1..calls /\ current.call \in 1..MaxRequests
  BY <1>2, ParametersAssumption DEF ExecInv, NumbersOK, TypeOK
<1>6. TypeOK' /\ PlacesOK' /\ LogOK' /\ SlotTaken'
  BY <1>1, <1>2, <1>5 DEF ExecInv, TypeOK, PlacesOK, LogOK, SlotTaken
<1>7. NumbersOK' /\ SharingKnown' /\ SlotsOK' /\ PendingIsOffBySkew'
  BY <1>1, <1>3, <1>4, <1>5 DEF ExecInv, NumbersOK, SharingKnown, SlotsOK,
     PendingIsOffBySkew
<1> QED
  BY <1>6, <1>7 DEF ExecInv

\* A finished request is gone and no longer counted.
LEMMA FinishExec == ExecInv /\ Finish => ExecInv'
<1> SUFFICES ASSUME ExecInv, Finish PROVE ExecInv'
  OBVIOUS
<1>1. /\ worker = "finish" /\ worker' = "check"
      /\ pending' = Word(pending - 1) /\ current' = NoReq
      /\ UNCHANGED <<phase, nextId, results, queue, pc, req, log, notified,
                     calls, shared, skew>>
  BY DEF Finish, Uncount, clientVars
<1>2. worker \in Busy /\ worker' \notin Busy /\ current \in Outstanding
  BY <1>1, OutstandingIs DEF Busy
<1>3. Queued' = Queued /\ Building' = Building /\ Working = {current}
      /\ Working' = {}
  BY <1>1, <1>2 DEF Queued, Building, Working
<1>4. current \notin Queued /\ current \notin Building
  BY <1>2 DEF ExecInv, PlacesOK, Queued, Building
<1>5. Outstanding' = Outstanding \ {current}
  BY <1>3, <1>4 DEF Outstanding
<1>6. pending \in Int /\ skew \in Int
  BY ParametersAssumption DEF ExecInv, TypeOK
<1>7. TypeOK'
  <2>1. pending' \in 0..(WordSize - 1)
    <3>1. pending - 1 \in Int
      BY <1>6
    <3> QED
      BY <1>1, <3>1, WordIs
  <2> QED
    BY <1>1, <2>1, Blanks DEF ExecInv, TypeOK
<1>8. PlacesOK' /\ LogOK' /\ SlotTaken'
  BY <1>1, <1>2 DEF ExecInv, PlacesOK, LogOK, SlotTaken
<1>9. NumbersOK' /\ SharingKnown' /\ SlotsOK'
  BY <1>1, <1>3, <1>5 DEF ExecInv, NumbersOK, SharingKnown, SlotsOK
<1>10. PendingIsOffBySkew'
  <2>1. IsFiniteSet(Outstanding) /\ Cardinality(Outstanding) \in Nat
    BY OutstandingFinite DEF ExecInv
  <2>2. Cardinality(Outstanding') = Cardinality(Outstanding) - 1
    BY <1>2, <1>5, <2>1, FS_RemoveElement
  <2>3. CASE phase = "up"
    <3>1. pending = Word(Cardinality(Outstanding) + skew)
      BY <2>3 DEF ExecInv, PendingIsOffBySkew
    <3>2. Cardinality(Outstanding) + skew \in Int
      BY <1>6, <2>1
    <3>3. Word(Word(Cardinality(Outstanding) + skew) + (-1))
            = Word(Cardinality(Outstanding) + skew + (-1))
      BY <3>2, WordOfSum
    <3>4. pending - 1 = pending + (-1)
      BY <1>6
    <3>5. Cardinality(Outstanding) + skew + (-1)
            = Cardinality(Outstanding') + skew'
      BY <1>1, <1>6, <2>1, <2>2
    <3> QED
      BY <1>1, <3>1, <3>3, <3>4, <3>5 DEF PendingIsOffBySkew
  <2> QED
    BY <1>1, <2>3 DEF PendingIsOffBySkew
<1> QED
  BY <1>7, <1>8, <1>9, <1>10 DEF ExecInv

-----------------------------------------------------------------------------
(* The application *)

\* A reset puts what is outstanding in the skew.
LEMMA ResetExec == ExecInv /\ ResetStats => ExecInv'
<1> SUFFICES ASSUME ExecInv, ResetStats PROVE ExecInv'
  OBVIOUS
<1>1. /\ pending' = 0 /\ skew' = -Cardinality(Outstanding)
      /\ UNCHANGED <<phase, nextId, results, queue, pc, req, worker, current,
                     log, notified, calls, shared>>
  BY DEF ResetStats, clientVars, workerVars
<1>2. Cardinality(Outstanding) \in Nat
  BY OutstandingFinite DEF ExecInv
<1>3. Queued' = Queued /\ Working' = Working /\ Building' = Building
  BY <1>1 DEF Queued, Working, Building
<1>4. Outstanding' = Outstanding
  BY <1>3 DEF Outstanding
<1>5. TypeOK' /\ PlacesOK' /\ LogOK' /\ SlotTaken'
  <2>1. TypeOK'
    BY <1>1, <1>2, Blanks DEF ExecInv, TypeOK
  <2> QED
    BY <1>1, <2>1 DEF ExecInv, PlacesOK, LogOK, SlotTaken
<1>6. NumbersOK' /\ SharingKnown' /\ SlotsOK'
  BY <1>1, <1>3, <1>4 DEF ExecInv, NumbersOK, SharingKnown, SlotsOK
<1>7. PendingIsOffBySkew'
  <2>1. Cardinality(Outstanding') + skew' = 0
    BY <1>1, <1>2, <1>4
  <2> QED
    BY <1>1, <2>1, Blanks DEF PendingIsOffBySkew
<1> QED
  BY <1>5, <1>6, <1>7 DEF ExecInv

\* Deleted clients build no requests; what is queued or with the worker stays.
LEMMA StopExec == ExecInv /\ Stop => ExecInv'
<1> SUFFICES ASSUME ExecInv, Stop PROVE ExecInv'
  OBVIOUS
<1>1. /\ phase' = "stopping"
      /\ pc' = [c \in Clients |-> "deleted"]
      /\ req' = [c \in Clients |-> NoReq]
      /\ UNCHANGED <<nextId, pending, results, queue, worker, current, log,
                     notified, calls, shared, skew>>
  BY DEF Stop, workerVars
<1>2. \A c \in Clients : pc'[c] = "deleted"
  BY <1>1
<1>3. Queued' = Queued /\ Working' = Working /\ Building' = {}
  BY <1>1, <1>2 DEF Queued, Working, Building, InCall
<1>4. Outstanding' \subseteq Outstanding
  BY <1>3 DEF Outstanding
<1>5. TypeOK'
  BY <1>1, Blanks DEF ExecInv, TypeOK
<1>6. PlacesOK' /\ LogOK' /\ SlotTaken'
  BY <1>1, <1>2 DEF ExecInv, PlacesOK, LogOK, SlotTaken, InCall
<1>7. NumbersOK' /\ SharingKnown' /\ SlotsOK'
  BY <1>1, <1>2, <1>3, <1>4 DEF ExecInv, NumbersOK, SharingKnown, SlotsOK
<1> QED
  BY <1>1, <1>5, <1>6, <1>7 DEF ExecInv, PendingIsOffBySkew

\* The queue and the worker are gone; the clients are deleted already.
LEMMA DisposeExec == ExecInv /\ Dispose => ExecInv'
<1> SUFFICES ASSUME ExecInv, Dispose PROVE ExecInv'
  OBVIOUS
<1>1. /\ phase' = "down" /\ worker' = "exited"
      /\ current' = NoReq /\ queue' = <<>>
      /\ UNCHANGED <<nextId, pending, results, pc, req, calls, log, notified,
                     shared, skew>>
  BY DEF Dispose, clientVars
<1>2. worker' \notin Busy /\ Len(queue') = 0
  BY <1>1 DEF Busy
<1>3. Queued' = {} /\ Working' = {} /\ Building' = Building
  BY <1>1, <1>2 DEF Queued, Working, Building
<1>4. Outstanding' \subseteq Outstanding
  BY <1>3 DEF Outstanding
<1>5. TypeOK'
  <2>1. queue' \in Seq(Requests) /\ Len(queue') <= QueueSize
    BY <1>1, ParametersAssumption
  <2> QED
    BY <1>1, <2>1, Blanks DEF ExecInv, TypeOK
<1>6. PlacesOK' /\ LogOK' /\ SlotTaken'
  BY <1>1, <1>2 DEF ExecInv, PlacesOK, LogOK, SlotTaken
<1>7. NumbersOK' /\ SharingKnown' /\ SlotsOK'
  BY <1>1, <1>3, <1>4 DEF ExecInv, NumbersOK, SharingKnown, SlotsOK
<1> QED
  BY <1>1, <1>5, <1>6, <1>7 DEF ExecInv, PendingIsOffBySkew

\* Every step.
LEMMA NextExec == ExecInv /\ [Next]_vars => ExecInv'
<1> SUFFICES ASSUME ExecInv, [Next]_vars PROVE ExecInv'
  OBVIOUS
<1>1. CASE UNCHANGED vars
  <2>1. UNCHANGED <<phase, nextId, pending, results, queue, pc, req, worker,
                    current, log, notified, calls, shared, skew>>
    BY <1>1 DEF vars, clientVars, workerVars
  <2>2. Queued' = Queued /\ Working' = Working /\ Building' = Building
    BY <2>1 DEF Queued, Working, Building
  <2>3. Outstanding' = Outstanding
    BY <2>2 DEF Outstanding
  <2>4. TypeOK' /\ PlacesOK' /\ LogOK' /\ SlotTaken'
    BY <2>1 DEF ExecInv, TypeOK, PlacesOK, LogOK, SlotTaken
  <2>5. NumbersOK' /\ SharingKnown' /\ SlotsOK' /\ PendingIsOffBySkew'
    BY <2>1, <2>2, <2>3 DEF ExecInv, NumbersOK, SharingKnown, SlotsOK,
       PendingIsOffBySkew
  <2> QED
    BY <2>4, <2>5 DEF ExecInv
<1>2. ASSUME NEW c \in Clients, Client(c) PROVE ExecInv'
  BY <1>2, SubmitExec, AllocateExec, FillExec, SendExec, SendFailsExec
  DEF Client
<1>3. CASE Worker
  BY <1>3, ReceiveExec, IdleExec, ProcessExec, ExecuteExec, CallbackExec,
     FinishExec DEF Worker
<1> QED
  BY <1>1, <1>2, <1>3, StartExec, ResetExec, StopExec, DisposeExec DEF Next


-----------------------------------------------------------------------------
(* The invariants *)

THEOREM ExecInvariant == Spec => []ExecInv
<1>1. Init => ExecInv
  BY InitExec
<1>2. ExecInv /\ [Next]_vars => ExecInv'
  BY NextExec
<1> QED
  BY <1>1, <1>2, PTL DEF Spec

\* Every variable stays within its type; in particular the queue never exceeds
\* its size.
THEOREM TypeCorrect == Spec => []TypeOK
<1>1. ExecInv => TypeOK
  BY DEF ExecInv
<1> QED
  BY <1>1, ExecInvariant, PTL

\* pending_requests counts the outstanding requests up to the skew that the
\* rejected calls and the resets left: the clients' increments and the worker's
\* decrements, at different times under the mutex, are never lost.
THEOREM PendingIsCounted == Spec => []PendingIsOffBySkew
<1>1. ExecInv => PendingIsOffBySkew
  BY DEF ExecInv
<1> QED
  BY <1>1, ExecInvariant, PTL

\* A callback is given a wrong result only when its slot was allocated to
\* another call while the request was outstanding.
THEOREM ResultsAreRight == Spec => []ResultWrongOnlyIfShared
<1>1. ExecInv => ResultWrongOnlyIfShared
  <2> SUFFICES ASSUME ExecInv, worker = "callback", current.call \notin shared
               PROVE  /\ results[current.slot].id = current.id
                      /\ results[current.slot].status = "final"
    BY DEF ResultWrongOnlyIfShared
  <2>1. current \in Working
    BY DEF Working, Busy
  <2>2. current.slot # NoSlot
    BY DEF ExecInv, SlotTaken
  <2> QED
    BY <2>1, <2>2 DEF ExecInv, SlotsOK, HasId
<1> QED
  BY <1>1, ExecInvariant, PTL

-----------------------------------------------------------------------------
(* Exhaustion *)

\* A step that puts no slot on any request, changes no slot and logs nothing
\* leaves the executor exhausted.
LEMMA StaysExhausted ==
    ASSUME Exhausted, phase' = "up", log' = log,
           \A s \in Slots : results'[s].status = results[s].status,
           \A r \in Building' \cup Queued' : r.slot = NoSlot,
           worker' \in {"process", "execute"} => current'.slot = NoSlot
    PROVE  /\ Exhausted'
           /\ \A i \in DOMAIN log' \ DOMAIN log : ~log'[i].executed
BY DEF Exhausted

\* No step of a client.
LEMMA ClientExhausted ==
    ASSUME ExecInv, Exhausted, phase' = "up", NEW c \in Clients, Client(c)
    PROVE  /\ Exhausted'
           /\ \A i \in DOMAIN log' \ DOMAIN log : ~log'[i].executed
<1>1. /\ \A d \in Clients : pc[d] \in InCall => req[d].slot = NoSlot
      /\ \A i \in 1..Len(queue) : queue[i].slot = NoSlot
      /\ \A s \in Slots : results[s].status = "final"
      /\ worker \in {"process", "execute"} => current.slot = NoSlot
  BY DEF Exhausted, Building, Queued
<1>2. NoSlot \notin Slots
  BY DEF NoSlot, Slots
<1>3. /\ req \in [Clients -> Requests] /\ queue \in Seq(Requests)
      /\ pc \in [Clients -> {"deleted", "out"} \cup InCall]
  BY DEF ExecInv, TypeOK
<1>4. UNCHANGED <<log, worker, current>>
  BY DEF Client, Submit, Allocate, Fill, Send, SendFails, workerVars
<1>5. SUFFICES /\ \A s \in Slots : results'[s].status = results[s].status
               /\ \A d \in Clients : pc'[d] \in InCall => req'[d].slot = NoSlot
               /\ \A i \in 1..Len(queue') : queue'[i].slot = NoSlot
  <2>1. \A r \in Building' \cup Queued' : r.slot = NoSlot
    BY <1>5 DEF Building, Queued
  <2> QED
    BY <1>1, <1>4, <1>5, <2>1, StaysExhausted
<1>6. CASE Submit(c)
  <2>1. /\ req' = [req EXCEPT ![c] = [call |-> calls + 1, id |-> nextId,
                                      slot |-> NoSlot]]
        /\ pc' = [pc EXCEPT ![c] = "allocate"] /\ UNCHANGED <<results, queue>>
    BY <1>6 DEF Submit, Goto
  <2> QED
    BY <1>1, <1>3, <2>1
<1>7. CASE Allocate(c)
  <2>1. FreeSlots = {}
    BY <1>1 DEF FreeSlots
  <2>2. /\ pc[c] = "allocate" /\ pc' = [pc EXCEPT ![c] = "fill"]
        /\ UNCHANGED <<req, results, queue>>
    BY <1>7, <2>1 DEF Allocate, Goto
  <2> QED
    BY <1>1, <1>3, <2>2 DEF InCall
<1>8. CASE Fill(c)
  <2>1. /\ pc[c] = "fill" /\ pc' = [pc EXCEPT ![c] = "send"]
        /\ results' = [s \in Slots |->
                         IF s = req[c].slot
                         THEN [status |-> "pending", id |-> req[c].id]
                         ELSE results[s]]
        /\ UNCHANGED <<req, queue>>
    BY <1>8 DEF Fill, Goto
  <2>2. req[c].slot = NoSlot
    BY <1>1, <2>1 DEF InCall
  <2>3. \A s \in Slots : results'[s] = results[s]
    BY <1>2, <2>1, <2>2
  <2> QED
    BY <1>1, <1>3, <2>1, <2>3 DEF InCall
<1>9. CASE Send(c)
  <2>1. /\ pc[c] = "send" /\ pc' = [pc EXCEPT ![c] = "out"]
        /\ queue' = Append(queue, req[c]) /\ req' = [req EXCEPT ![c] = NoReq]
        /\ UNCHANGED results
    BY <1>9 DEF Send, Goto
  <2>2. req[c].slot = NoSlot
    BY <1>1, <2>1 DEF InCall
  <2>3. \A i \in 1..Len(queue') : queue'[i].slot = NoSlot
    BY <1>1, <1>3, <2>1, <2>2
  <2>4. \A d \in Clients : pc'[d] \in InCall => req'[d].slot = NoSlot
    BY <1>1, <1>3, <2>1 DEF InCall
  <2> QED
    BY <2>1, <2>3, <2>4
<1>10. CASE SendFails(c)
  <2>1. /\ pc[c] = "send" /\ pc' = [pc EXCEPT ![c] = "out"]
        /\ results' = [s \in Slots |-> IF s = req[c].slot THEN Blank
                                       ELSE results[s]]
        /\ req' = [req EXCEPT ![c] = NoReq] /\ UNCHANGED queue
    BY <1>10 DEF SendFails, Goto, FreeResult
  <2>2. req[c].slot = NoSlot
    BY <1>1, <2>1 DEF InCall
  <2>3. \A s \in Slots : results'[s] = results[s]
    BY <1>2, <2>1, <2>2
  <2> QED
    BY <1>1, <1>3, <2>1, <2>3 DEF InCall
<1> QED
  BY <1>6, <1>7, <1>8, <1>9, <1>10 DEF Client

\* No step of the worker.
LEMMA WorkerExhausted ==
    ASSUME ExecInv, Exhausted, phase' = "up", Worker
    PROVE  /\ Exhausted'
           /\ \A i \in DOMAIN log' \ DOMAIN log : ~log'[i].executed
<1>1. /\ \A r \in Building \cup Queued : r.slot = NoSlot
      /\ \A i \in 1..Len(queue) : queue[i].slot = NoSlot
      /\ worker \in {"process", "execute"} => current.slot = NoSlot
  BY DEF Exhausted, Queued
<1>2. UNCHANGED <<pc, req>>
  BY DEF Worker, Receive, ReceiveTimesOut, Process, Execute, Callback, Finish,
     CheckStop, clientVars
<1>3. Building' = Building
  BY <1>2 DEF Building
<1>4. CASE Receive
  <2>1. /\ queue # <<>> /\ current' = Head(queue) /\ queue' = Tail(queue)
        /\ UNCHANGED <<results, log>>
    BY <1>4 DEF Receive
  <2>2. queue \in Seq(Requests)
    BY DEF ExecInv, TypeOK
  <2>3. /\ \A i \in 1..Len(queue') : i + 1 \in 1..Len(queue)
        /\ \A i \in 1..Len(queue') : queue'[i] = queue[i + 1]
        /\ current' = queue[1] /\ 1 \in 1..Len(queue)
    BY <2>1, <2>2, Taken
  <2>4. /\ \A i \in 1..Len(queue') : queue'[i].slot = NoSlot
        /\ current'.slot = NoSlot
    BY <1>1, <2>3
  <2>5. \A r \in Building' \cup Queued' : r.slot = NoSlot
    BY <1>1, <1>3, <2>4 DEF Queued
  <2> QED
    BY <2>1, <2>4, <2>5, StaysExhausted
<1>5. CASE Process
  <2>1. current.slot = NoSlot
    BY <1>1, <1>5 DEF Process
  <2>2. /\ log' = Append(log, [call |-> current.call, executed |-> FALSE])
        /\ worker' = "finish" /\ UNCHANGED <<results, queue, current>>
    BY <1>5, <2>1 DEF Process
  <2>3. log \in Seq([call : 1..MaxRequests, executed : BOOLEAN])
    BY DEF ExecInv, TypeOK
  <2>4. \A i \in DOMAIN log' \ DOMAIN log : i = Len(log) + 1 /\ ~log'[i].executed
    BY <2>2, <2>3
  <2>5. Queued' = Queued
    BY <2>2 DEF Queued
  <2> QED
    BY <1>1, <1>3, <2>2, <2>4, <2>5 DEF Exhausted
<1>6. CASE Execute
  BY <1>1, <1>6 DEF Execute, ExecInv, SlotTaken
<1>7. CASE ReceiveTimesOut \/ Callback \/ Finish \/ CheckStop
  <2>1. /\ worker' \notin {"process", "execute"}
        /\ UNCHANGED <<results, queue, log>>
    BY <1>7 DEF ReceiveTimesOut, Callback, Finish, CheckStop
  <2>2. Queued' = Queued
    BY <2>1 DEF Queued
  <2> QED
    BY <1>1, <1>3, <2>1, <2>2, StaysExhausted
<1> QED
  BY <1>4, <1>5, <1>6, <1>7 DEF Worker

\* Once every slot has a verdict and no waiting request has a slot, nothing is
\* executed until the executor is started again.
THEOREM ExhaustionLasts == Spec => ExhaustionIsPermanent
<1>1. ExecInv /\ [Next]_vars =>
        [Exhausted /\ phase' = "up" => /\ Exhausted'
                                       /\ \A i \in DOMAIN log' \ DOMAIN log :
                                            ~log'[i].executed]_vars
  <2> SUFFICES ASSUME ExecInv, Next, Exhausted, phase' = "up"
               PROVE  /\ Exhausted'
                      /\ \A i \in DOMAIN log' \ DOMAIN log : ~log'[i].executed
    OBVIOUS
  <2>1. CASE Start \/ Stop \/ Dispose
    BY <2>1 DEF Start, Stop, Dispose, Exhausted
  <2>2. CASE ResetStats
    <3>1. UNCHANGED <<results, queue, pc, req, worker, current, log>>
      BY <2>2 DEF ResetStats, clientVars, workerVars
    <3>2. Building' = Building /\ Queued' = Queued
      BY <3>1 DEF Building, Queued
    <3> QED
      BY <3>1, <3>2, StaysExhausted DEF Exhausted
  <2> QED
    BY <2>1, <2>2, ClientExhausted, WorkerExhausted DEF Next
<1> QED
  BY <1>1, ExecInvariant, PTL DEF Spec, ExhaustionIsPermanent

-----------------------------------------------------------------------------
(* The abstract service *)

\* The requests that wait, and the calls of a queue of requests.
Line == (IF worker \in {"process", "execute"} THEN <<current>> ELSE <<>>) \o queue
CallsOf(q) == [i \in 1..Len(q) |-> q[i].call]

LEMMA CallsOfAppended ==
    ASSUME NEW S, NEW q \in Seq(S), NEW e \in S
    PROVE  CallsOf(Append(q, e)) = Append(CallsOf(q), e.call)
<1>1. /\ Len(Append(q, e)) = Len(q) + 1 /\ Len(q) \in Nat
      /\ \A i \in 1..(Len(q) + 1) :
           Append(q, e)[i] = IF i = Len(q) + 1 THEN e ELSE q[i]
  OBVIOUS
<1>2. CallsOf(q) \in Seq({r.call : r \in S}) /\ Len(CallsOf(q)) = Len(q)
  <2>1. \A i \in 1..Len(q) : q[i] \in S
    OBVIOUS
  <2> QED
    BY <1>1, <2>1 DEF CallsOf
<1>3. Append(CallsOf(q), e.call) =
        [i \in 1..(Len(q) + 1) |-> IF i = Len(q) + 1 THEN e.call
                                   ELSE CallsOf(q)[i]]
  BY <1>1, <1>2
<1>4. \A i \in 1..(Len(q) + 1) : i # Len(q) + 1 => i \in 1..Len(q)
  BY <1>1
<1> QED
  BY <1>1, <1>3, <1>4 DEF CallsOf

LEMMA CallsOfTaken ==
    ASSUME NEW S, NEW q \in Seq(S), q # <<>>
    PROVE  /\ CallsOf(q) # <<>>
           /\ Head(CallsOf(q)) = Head(q).call
           /\ Tail(CallsOf(q)) = CallsOf(Tail(q))
<1>1. /\ Len(Tail(q)) = Len(q) - 1 /\ Len(q) \in Nat \ {0} /\ Head(q) = q[1]
      /\ \A i \in 1..(Len(q) - 1) : Tail(q)[i] = q[i + 1]
  BY Taken
<1>2. CallsOf(q) \in Seq({r.call : r \in S}) /\ Len(CallsOf(q)) = Len(q)
  <2>1. \A i \in 1..Len(q) : q[i] \in S
    OBVIOUS
  <2> QED
    BY <1>1, <2>1 DEF CallsOf
<1>3. CallsOf(q) # <<>>
  BY <1>1, <1>2
<1>4. Head(CallsOf(q)) = CallsOf(q)[1] /\ 1 \in 1..Len(q)
  BY <1>1, <1>2
<1>5. /\ Tail(CallsOf(q)) \in Seq({r.call : r \in S})
      /\ Len(Tail(CallsOf(q))) = Len(q) - 1
      /\ \A i \in 1..(Len(q) - 1) : Tail(CallsOf(q))[i] = CallsOf(q)[i + 1]
  BY <1>2, <1>3, Taken
<1>6. \A i \in 1..(Len(q) - 1) : i + 1 \in 1..Len(q)
  BY <1>1
<1>7. Tail(CallsOf(q)) = CallsOf(Tail(q))
  <2>1. /\ CallsOf(Tail(q)) \in Seq({r.call : r \in S})
        /\ Len(CallsOf(Tail(q))) = Len(q) - 1
        /\ \A i \in 1..(Len(q) - 1) : CallsOf(Tail(q))[i] = CallsOf(q)[i + 1]
    <3>1. \A i \in 1..(Len(q) - 1) : Tail(q)[i] \in S
      BY <1>1, <1>6
    <3> QED
      BY <1>1, <1>6, <3>1 DEF CallsOf
  <2> QED
    BY <1>1, <1>5, <2>1
<1> QED
  BY <1>1, <1>3, <1>4, <1>7 DEF CallsOf

\* The line is the queue, behind the request the worker has received.
LEMMA LineIs ==
    ASSUME TypeOK
    PROVE  /\ Waiting = CallsOf(Line)
           /\ Line \in Seq(Requests)
           /\ worker \notin {"process", "execute"} => Line = queue
           /\ worker \in {"process", "execute"} =>
                /\ Line # <<>> /\ Head(Line) = current /\ Tail(Line) = queue
           /\ \A r \in Requests :
                Append(Line, r) =
                  (IF worker \in {"process", "execute"} THEN <<current>>
                   ELSE <<>>) \o Append(queue, r)
           /\ \A i \in 1..Len(Line) :
                \/ worker \in {"process", "execute"} /\ Line[i] = current
                \/ \E j \in 1..Len(queue) : Line[i] = queue[j]
<1>1. queue \in Seq(Requests) /\ current \in Requests
  BY DEF TypeOK
<1>2. Waiting = CallsOf(Line)
  BY DEF Waiting, CallsOf, Line
<1>3. CASE worker \notin {"process", "execute"}
  <2>1. Line = <<>> \o queue /\ <<>> \o queue = queue
    BY <1>1, <1>3 DEF Line
  <2>2. \A r \in Requests : <<>> \o Append(queue, r) = Append(queue, r)
    BY <1>1
  <2> QED
    BY <1>1, <1>2, <1>3, <2>1, <2>2
<1>4. CASE worker \in {"process", "execute"}
  <2>1. Line = <<current>> \o queue
    BY <1>4 DEF Line
  <2>2. /\ Len(Line) = Len(queue) + 1 /\ Len(queue) \in Nat
        /\ Line \in Seq(Requests)
        /\ \A i \in 1..(Len(queue) + 1) :
             Line[i] = IF i = 1 THEN current ELSE queue[i - 1]
    BY <1>1, <2>1
  <2>3. Line # <<>> /\ Head(Line) = current
    BY <2>2
  <2>4. Tail(Line) = queue
    <3>1. /\ Tail(Line) \in Seq(Requests) /\ Len(Tail(Line)) = Len(queue)
          /\ \A i \in 1..Len(queue) : Tail(Line)[i] = Line[i + 1]
      BY <2>2, <2>3, Taken
    <3>2. \A i \in 1..Len(queue) : Tail(Line)[i] = queue[i]
      BY <2>2, <3>1
    <3> QED
      BY <1>1, <3>1, <3>2
  <2>5. \A r \in Requests : Append(Line, r) = <<current>> \o Append(queue, r)
    <3> SUFFICES ASSUME NEW r \in Requests
                 PROVE  Append(Line, r) = <<current>> \o Append(queue, r)
      OBVIOUS
    <3> DEFINE A == Append(Line, r)
               B == <<current>> \o Append(queue, r)
    <3>1. /\ A \in Seq(Requests) /\ Len(A) = Len(queue) + 2
          /\ \A i \in 1..(Len(queue) + 1) : A[i] = Line[i]
          /\ A[Len(queue) + 2] = r
      BY <2>2, Appended
    <3>2. /\ Append(queue, r) \in Seq(Requests)
          /\ Len(Append(queue, r)) = Len(queue) + 1
          /\ \A i \in 1..Len(queue) : Append(queue, r)[i] = queue[i]
          /\ Append(queue, r)[Len(queue) + 1] = r
      BY <1>1, Appended
    <3>3. /\ B \in Seq(Requests) /\ Len(B) = Len(queue) + 2
          /\ \A i \in 1..(Len(queue) + 2) :
               B[i] = IF i = 1 THEN current ELSE Append(queue, r)[i - 1]
      BY <1>1, <2>2, <3>2
    <3> HIDE DEF A, B
    <3>4. ASSUME NEW i \in 1..(Len(queue) + 2) PROVE A[i] = B[i]
      <4>1. CASE i = 1
        BY <2>2, <3>1, <3>3, <4>1
      <4>2. CASE i \in 2..(Len(queue) + 1)
        <5>1. A[i] = queue[i - 1] /\ i - 1 \in 1..Len(queue)
          BY <2>2, <3>1, <4>2
        <5>2. B[i] = Append(queue, r)[i - 1]
          BY <2>2, <3>3, <4>2
        <5> QED
          BY <3>2, <5>1, <5>2
      <4>3. CASE i = Len(queue) + 2
        <5>1. A[i] = r /\ i # 1 /\ i - 1 = Len(queue) + 1
          BY <2>2, <3>1, <4>3
        <5> QED
          BY <3>2, <3>3, <5>1
      <4> QED
        BY <2>2, <4>1, <4>2, <4>3
    <3>5. A = B
      BY <3>1, <3>3, <3>4
    <3> QED
      BY <3>5 DEF A, B
  <2>6. \A i \in 1..Len(Line) : i = 1 \/ i - 1 \in 1..Len(queue)
    BY <2>2
  <2>7. \A i \in 1..Len(Line) : \/ Line[i] = current
                                \/ \E j \in 1..Len(queue) : Line[i] = queue[j]
    BY <2>2, <2>6
  <2> QED
    BY <1>2, <1>4, <2>1, <2>2, <2>3, <2>4, <2>5, <2>7
<1> QED
  BY <1>3, <1>4

\* A step that leaves what waits and what is served alone is a stutter.
LEMMA LineStays ==
    ASSUME ExecInv, ExecInv', Line' = Line, log' = log
    PROVE  UNCHANGED <<Waiting, [i \in 1..Len(log) |-> log[i].call]>>
<1>1. Waiting = CallsOf(Line) /\ Waiting' = CallsOf(Line)'
  BY LineIs DEF ExecInv, Waiting, CallsOf, Line
<1>2. CallsOf(Line)' = CallsOf(Line)
  BY DEF CallsOf
<1>3. [i \in 1..Len(log) |-> log[i].call]' = [i \in 1..Len(log) |-> log[i].call]
  OBVIOUS
<1> QED
  BY <1>1, <1>2, <1>3

\* Calls are in progress only while the executor is up, and nothing is left of
\* an executor that is down.
PhaseOK ==
    /\ phase # "up" => \A c \in Clients : pc[c] = "deleted"
    /\ phase = "down" => worker = "exited" /\ queue = <<>>

LEMMA PhaseInvariant == Spec => []PhaseOK
<1>1. Init => PhaseOK
  BY DEF Init, PhaseOK
<1>2. PhaseOK /\ [Next]_vars => PhaseOK'
  <2> SUFFICES ASSUME PhaseOK, [Next]_vars PROVE PhaseOK'
    OBVIOUS
  <2>1. CASE UNCHANGED vars
    BY <2>1 DEF PhaseOK, vars, clientVars, workerVars
  <2>2. CASE Start \/ ResetStats \/ Stop \/ Dispose
    BY <2>2 DEF PhaseOK, Start, ResetStats, Stop, Dispose, clientVars, workerVars
  <2>3. ASSUME NEW c \in Clients, Client(c) PROVE PhaseOK'
    <3>1. phase = "up" /\ phase' = "up"
      BY <2>3 DEF PhaseOK, Client, Submit, Allocate, Fill, Send, SendFails
    <3> QED
      BY <3>1 DEF PhaseOK
  <2>4. CASE Worker
    <3>1. phase # "down" /\ phase' = phase /\ pc' = pc
      BY <2>4 DEF PhaseOK, Worker, Receive, ReceiveTimesOut, Process, Execute,
                  Callback, Finish, CheckStop, Busy, clientVars
    <3> QED
      BY <3>1 DEF PhaseOK
  <2> QED
    BY <2>1, <2>2, <2>3, <2>4 DEF Next
<1> QED
  BY <1>1, <1>2, PTL DEF Spec

\* A request put on the queue is accepted: it was never seen there before.
LEMMA SendAccepts ==
    ASSUME ExecInv, ExecInv', PhaseOK, NEW c \in Clients, Send(c)
    PROVE  Service!ServiceNext
<1>1. /\ pc[c] = "send" /\ queue' = Append(queue, req[c])
      /\ UNCHANGED <<phase, worker, current, log>>
  BY DEF Send, workerVars
<1>2. /\ req[c] \in Requests /\ queue \in Seq(Requests)
      /\ pc[c] \in InCall /\ req[c].call \in 1..MaxRequests
  <2>1. req[c] \in Outstanding /\ calls \in 0..MaxRequests
    BY <1>1, OutstandingIs DEF InCall, ExecInv, TypeOK
  <2>2. req[c].call \in 1..MaxRequests
    BY <2>1, ParametersAssumption DEF ExecInv, NumbersOK
  <2> QED
    BY <1>1, <2>2 DEF InCall, ExecInv, TypeOK
<1>3. Line' = Append(Line, req[c])
  BY <1>1, <1>2, LineIs DEF Line, ExecInv
<1>4. /\ Waiting = CallsOf(Line) /\ Line \in Seq(Requests)
      /\ \A i \in 1..Len(Line) :
           \/ worker \in {"process", "execute"} /\ Line[i] = current
           \/ \E j \in 1..Len(queue) : Line[i] = queue[j]
  BY LineIs DEF ExecInv
<1>5. Waiting' = CallsOf(Line')
  BY DEF Waiting, CallsOf, Line
<1>6. Waiting' = Append(Waiting, req[c].call)
  BY <1>2, <1>3, <1>4, <1>5, CallsOfAppended
<1>7. req[c].call \notin {Waiting[i] : i \in 1..Len(Waiting)}
  <2>1. Len(Waiting) = Len(Line)
    BY <1>4 DEF CallsOf
  <2>2. \A i \in 1..Len(Line) : Waiting[i] = Line[i].call
    BY <1>4 DEF CallsOf
  <2>3. \A i \in 1..Len(Line) : Line[i].call # req[c].call
    BY <1>2, <1>4 DEF ExecInv, PlacesOK, Busy
  <2> QED
    BY <2>1, <2>2, <2>3
<1>8. req[c].call \notin {CallsOf(log)[i] : i \in 1..Len(CallsOf(log))}
  <2>1. \A i \in 1..Len(log) : log[i].call # req[c].call
    BY <1>2 DEF ExecInv, LogOK
  <2>2. log \in Seq([call : 1..MaxRequests, executed : BOOLEAN])
    BY DEF ExecInv, TypeOK
  <2>3. Len(CallsOf(log)) = Len(log)
    BY <2>2 DEF CallsOf
  <2> QED
    BY <2>1, <2>3 DEF CallsOf
<1>9. [i \in 1..Len(log) |-> log[i].call]' = [i \in 1..Len(log) |-> log[i].call]
  BY <1>1
<1>10. Service!Accept(req[c].call)
  <2>1. phase = "up"
    BY <1>1 DEF PhaseOK, ExecInv, TypeOK
  <2> QED
    BY <1>1, <1>6, <1>7, <1>8, <1>9, <2>1 DEF Service!Accept, Service!Known, CallsOf
<1> QED
  BY <1>2, <1>10 DEF Service!ServiceNext

\* The worker serves the first of the line: by executing the request or, when
\* it has no slot, by dropping it.
LEMMA WorkerServes ==
    ASSUME ExecInv, ExecInv', worker \in {"process", "execute"},
           worker' \notin {"process", "execute"}, UNCHANGED <<phase, queue>>,
           phase # "down", NEW b \in BOOLEAN,
           log' = Append(log, [call |-> current.call, executed |-> b])
    PROVE  Service!ServiceNext
<1>1. /\ Waiting = CallsOf(Line) /\ Line \in Seq(Requests) /\ Line # <<>>
      /\ Head(Line) = current /\ Tail(Line) = queue
  BY LineIs DEF ExecInv
<1>2. Line' = queue
  <2>1. queue \in Seq(Requests) /\ <<>> \o queue = queue
    BY DEF ExecInv, TypeOK
  <2> QED
    BY <2>1 DEF Line
<1>3. Waiting' = CallsOf(Line')
  BY DEF Waiting, CallsOf, Line
<1>4. /\ Waiting # <<>> /\ Head(Waiting) = current.call
      /\ Waiting' = Tail(Waiting)
  BY <1>1, <1>2, <1>3, CallsOfTaken
<1>5. /\ log \in Seq([call : 1..MaxRequests, executed : BOOLEAN])
      /\ [call |-> current.call, executed |-> b]
            \in [call : 1..MaxRequests, executed : BOOLEAN]
  <2>1. current \in Outstanding /\ calls \in 0..MaxRequests
    BY OutstandingIs DEF Busy, ExecInv, TypeOK
  <2>2. current.call \in 1..MaxRequests
    BY <2>1, ParametersAssumption DEF ExecInv, NumbersOK
  <2> QED
    BY <2>2 DEF ExecInv, TypeOK
<1>6. CallsOf(log') = Append(CallsOf(log), current.call)
  <2> DEFINE E == [call : 1..MaxRequests, executed : BOOLEAN]
             e == [call |-> current.call, executed |-> b]
  <2>1. log \in Seq(E) /\ e \in E /\ e.call = current.call /\ log' = Append(log, e)
    BY <1>5
  <2> HIDE DEF E, e
  <2>2. CallsOf(Append(log, e)) = Append(CallsOf(log), e.call)
    BY <2>1, CallsOfAppended
  <2> QED
    BY <2>1, <2>2
<1>7. Service!Serve
  BY <1>4, <1>6 DEF Service!Serve, CallsOf
<1> QED
  BY <1>7 DEF Service!ServiceNext

\* The end of a shutdown leaves nothing waiting.
LEMMA DisposeLoses ==
    ASSUME ExecInv, ExecInv', Dispose
    PROVE  Service!ServiceNext
<1>0. /\ phase = "stopping" /\ phase' = "down"
      /\ worker' \notin {"process", "execute"} /\ queue' = <<>> /\ log' = log
  BY DEF Dispose
<1>1. Line' = <<>>
  BY <1>0 DEF Line
<1>2. Waiting' = CallsOf(Line')
  BY DEF Waiting, CallsOf, Line
<1>3. Waiting' = <<>>
  BY <1>1, <1>2 DEF CallsOf
<1>4. [i \in 1..Len(log) |-> log[i].call]' = [i \in 1..Len(log) |-> log[i].call]
  BY <1>0
<1> QED
  BY <1>0, <1>3, <1>4 DEF Service!Lose, Service!ServiceNext

\* Every step of the executor is a step of the service, or a stutter.
LEMMA NextServes ==
    ASSUME ExecInv, ExecInv', PhaseOK, [Next]_vars
    PROVE  [Service!ServiceNext]_(Service!serviceVars)
<1> USE DEF ExecInv, Service!serviceVars
<1>1. CASE UNCHANGED vars
  BY <1>1, LineStays DEF vars, workerVars, Line
<1>2. CASE Start
  <2>1. /\ phase = "down" /\ phase' = "up" /\ queue' = <<>> /\ log' = log
        /\ worker' = "check" /\ worker = "exited" /\ queue = <<>>
    BY <1>2 DEF Start, PhaseOK
  <2>2. Line' = Line
    BY <2>1 DEF Line
  <2> QED
    BY <2>1, <2>2, LineStays DEF Service!Open, Service!ServiceNext
<1>3. CASE Dispose
  BY <1>3, DisposeLoses
<1>4. CASE ResetStats \/ Stop
  <2>1. UNCHANGED <<Waiting, [i \in 1..Len(log) |-> log[i].call]>>
    BY <1>4, LineStays DEF ResetStats, Stop, workerVars, Line
  <2> QED
    BY <1>4, <2>1 DEF ResetStats, Stop, Service!Close, Service!ServiceNext
<1>5. ASSUME NEW c \in Clients, Client(c)
      PROVE  [Service!ServiceNext]_(Service!serviceVars)
  <2>1. CASE Send(c)
    BY <2>1, SendAccepts
  <2>2. CASE ~Send(c)
    BY <1>5, <2>2, LineStays
    DEF Client, Submit, Allocate, Fill, SendFails, workerVars, Line
  <2> QED
    BY <2>1, <2>2
<1>6. CASE Receive
  <2>1. /\ worker = "receive" /\ worker' = "process" /\ queue # <<>>
        /\ phase' = phase
        /\ current' = Head(queue) /\ queue' = Tail(queue) /\ log' = log
    BY <1>6 DEF Receive
  <2>2. queue \in Seq(Requests) /\ Line = queue
    BY <2>1, LineIs DEF TypeOK
  <2>3. Line' = <<Head(queue)>> \o Tail(queue)
    BY <2>1 DEF Line
  <2>4. Line' = Line
    BY <2>1, <2>2, <2>3, HeadAndTail
  <2> QED
    BY <2>1, <2>4, LineStays
<1>7. CASE Process
  <2>1. CASE current.slot = NoSlot
    BY <1>7, <2>1, WorkerServes DEF Process, PhaseOK
  <2>2. CASE current.slot # NoSlot
    BY <1>7, <2>2, LineStays DEF Process, Line
  <2> QED
    BY <2>1, <2>2
<1>8. CASE Execute
  BY <1>8, WorkerServes DEF Execute, PhaseOK
<1>9. CASE ReceiveTimesOut \/ Callback \/ Finish \/ CheckStop
  <2>1. /\ worker \notin {"process", "execute"}
        /\ worker' \notin {"process", "execute"}
        /\ UNCHANGED <<phase, queue, log>>
    BY <1>9 DEF ReceiveTimesOut, Callback, Finish, CheckStop
  <2> QED
    BY <2>1, LineStays DEF Line
<1> QED
  BY <1>1, <1>2, <1>3, <1>4, <1>5, <1>6, <1>7, <1>8, <1>9 DEF Next, Worker

\* Every behaviour of the executor serves each accepted request at most once,
\* in the order of acceptance, and loses one only at the end of a shutdown.
THEOREM ExecImplementsService == Spec => ImplementsService
<1>1. Init => Service!ServiceInit
  BY DEF Init, Service!ServiceInit, Waiting
<1>2. ExecInv /\ ExecInv' /\ PhaseOK /\ [Next]_vars =>
        [Service!ServiceNext]_(Service!serviceVars)
  BY NextServes
<1> QED
  BY <1>1, <1>2, ExecInvariant, PhaseInvariant, PTL
  DEF Spec, ImplementsService, Service!ServiceSpec

=============================================================================
