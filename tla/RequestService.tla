--------------------------- MODULE RequestService ---------------------------
(***************************************************************************)
(* What the asynchronous executor promises of requests, apart from how it  *)
(* does it: while it is up it accepts requests, which wait; requests are   *)
(* served one at a time in the order in which they were accepted, each at  *)
(* most once; and only the end of a shutdown loses those that wait.        *)
(* Serving does not promise executing: see DoneMeansNotified in AsyncExec. *)
(***************************************************************************)
EXTENDS Naturals, Sequences

CONSTANT Calls   \* the names of the requests

VARIABLES
    phase,     \* "down", "up" or "stopping"
    waiting,   \* the accepted requests not served yet, oldest first
    served     \* the served requests, in order

serviceVars == <<phase, waiting, served>>

Known == {waiting[i] : i \in 1..Len(waiting)}
         \cup {served[i] : i \in 1..Len(served)}

ServiceInit ==
    /\ phase = "down"
    /\ waiting = <<>>
    /\ served = <<>>

Open ==
    /\ phase = "down"
    /\ phase' = "up"
    /\ UNCHANGED <<waiting, served>>

Accept(n) ==
    /\ phase = "up"
    /\ n \notin Known
    /\ waiting' = Append(waiting, n)
    /\ UNCHANGED <<phase, served>>

Serve ==
    /\ phase # "down"
    /\ waiting # <<>>
    /\ served' = Append(served, Head(waiting))
    /\ waiting' = Tail(waiting)
    /\ UNCHANGED phase

\* A shutdown begins; what waits may still be served.
Close ==
    /\ phase = "up"
    /\ phase' = "stopping"
    /\ UNCHANGED <<waiting, served>>

Lose ==
    /\ phase = "stopping"
    /\ phase' = "down"
    /\ waiting' = <<>>
    /\ UNCHANGED served

ServiceNext ==
    \/ Open
    \/ \E n \in Calls : Accept(n)
    \/ Serve
    \/ Close
    \/ Lose

ServiceSpec == ServiceInit /\ [][ServiceNext]_serviceVars
=============================================================================
