------------------------- MODULE TransactionalStore -------------------------
(***************************************************************************)
(* What a program expects of connections to one database, apart from how   *)
(* it is done: a transaction sees the database as it was committed last,   *)
(* and its own updates, from its begin to its end; updates are made by one *)
(* transaction at a time and become the database all at once; one given up *)
(* leaves nothing behind, and what is committed outlasts any failure.      *)
(* Nothing is expected any more once the store is void.                    *)
(***************************************************************************)
EXTENDS Naturals

CONSTANTS
    Keys,     \* what is stored under: of a value, the number of its updates
    Clients   \* each in one transaction at a time

VARIABLES
    committed,   \* key -> value
    view,        \* client -> what its transaction sees, or Nothing
    void         \* nothing is promised any more

storeVars == <<committed, view, void>>

Nothing == [k \in {} |-> 0]

Others(c) == Clients \ {c}

StoreInit ==
    /\ committed \in [Keys -> Nat]
    /\ view = [c \in Clients |-> Nothing]
    /\ void = FALSE

Start(c) ==
    /\ view[c] = Nothing
    /\ view' = [view EXCEPT ![c] = committed]
    /\ UNCHANGED committed

Update(c, k) ==
    /\ view[c] # Nothing
    /\ \A d \in Others(c) : view[d] \in {Nothing, committed}
    /\ view' = [view EXCEPT ![c][k] = @ + 1]
    /\ UNCHANGED committed

\* No other transaction is open: none sees the database change.
Commit(c) ==
    /\ view[c] # Nothing
    /\ \A d \in Others(c) : view[d] = Nothing
    /\ committed' = view[c]
    /\ UNCHANGED view

\* The end of a transaction, or its updates are undone and it goes on.
GiveUp(c) ==
    /\ view[c] # Nothing
    /\ view' \in {[view EXCEPT ![c] = v] : v \in {Nothing, committed}}
    /\ UNCHANGED committed

\* Every transaction ends, as in a power loss.
Crash ==
    /\ view' = [c \in Clients |-> Nothing]
    /\ UNCHANGED committed

StoreStep ==
    \/ \E c \in Clients :
         \/ Start(c)
         \/ \E k \in Keys : Update(c, k)
         \/ Commit(c)
         \/ GiveUp(c)
    \/ Crash

StoreNext ==
    \/ void'
    \/ /\ ~void
       /\ ~void'
       /\ StoreStep

StoreSpec == StoreInit /\ [][StoreNext]_storeVars
=============================================================================
