--------------------------- MODULE ExclusiveLease ---------------------------
(***************************************************************************)
(* What the connection pool promises the tasks that acquire connections,   *)
(* and the statement cache those that get statements, apart from how they  *)
(* do it: an object is lent to one task at a time, open and with nothing   *)
(* left over from its last use (a transaction, bindings, a cursor), and is *)
(* not closed while it is lent.                                            *)
(***************************************************************************)
CONSTANTS Tasks, Objects

VARIABLES
    open,    \* the open objects
    lent,    \* task -> the objects lent to it
    dirty    \* the objects with something left over from a use

leaseVars == <<open, lent, dirty>>

Free(S) == \A t \in Tasks : S \cap lent[t] = {}

LeaseInit ==
    /\ open = {}
    /\ lent = [t \in Tasks |-> {}]
    /\ dirty = {}

Open(x) ==
    /\ x \notin open
    /\ open' = open \cup {x}
    /\ UNCHANGED <<lent, dirty>>

\* An object that is there is lent, or one is opened for the purpose and
\* others, lent to nobody, are closed to make room for it.
Lend(t, x, closed) ==
    /\ Free(closed \cup {x})
    /\ x \notin closed
    /\ x \in open => x \notin dirty
    /\ open' = (open \ closed) \cup {x}
    /\ lent' = [lent EXCEPT ![t] = @ \cup {x}]
    /\ dirty' = dirty \ closed

Use(t, x) ==
    /\ x \in lent[t]
    /\ dirty' = dirty \cup {x}
    /\ UNCHANGED <<open, lent>>

Return(t, x) ==
    /\ x \in lent[t]
    /\ lent' = [lent EXCEPT ![t] = @ \ {x}]
    /\ dirty' \in {dirty, dirty \ {x}}
    /\ UNCHANGED open

Close(S) ==
    /\ Free(S)
    /\ open' = open \ S
    /\ dirty' = dirty \ S
    /\ UNCHANGED lent

\* The end of the pool or the cache: every lease ends.
End ==
    /\ open' \subseteq open
    /\ lent' = [t \in Tasks |-> {}]
    /\ dirty' \subseteq dirty

LeaseNext ==
    \/ \E x \in Objects : Open(x)
    \/ \E t \in Tasks, x \in Objects :
         \/ \E closed \in SUBSET open : Lend(t, x, closed)
         \/ Use(t, x)
         \/ Return(t, x)
    \/ \E S \in SUBSET open : Close(S)
    \/ End

LeaseSpec == LeaseInit /\ [][LeaseNext]_leaseVars
=============================================================================
