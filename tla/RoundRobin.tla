----------------------------- MODULE RoundRobin -----------------------------
(***************************************************************************)
(* Controller::OrderEntryRR: which of the N order-entry connections of an  *)
(* account gets the next order action.  get_next() scans the connections   *)
(* from index_, skips those that are not ready, and leaves index_ behind   *)
(* the one it returns.  Connections come and go between two calls.         *)
(***************************************************************************)
EXTENDS Naturals

CONSTANT N  \* --number_of_order_entry_connections, zero ends the process

ASSUME NAssumption == N \in Nat \ {0}

VARIABLES
    ready,   \* ready() of each connection
    index,   \* index_
    waited   \* auxiliary: actions a connection saw go elsewhere since it
             \* became ready or was last chosen

vars == <<ready, index, waited>>

Connection == 0 .. N - 1

\* (start + offset) % N for two numbers below N.
At(start, offset) == IF start + offset < N THEN start + offset ELSE start + offset - N

\* Mutants: the scan always starts at the same connection; no modulus.
BehindStays(chosen) == 0
BehindRuns(chosen) == chosen + 1

\* (index + 1) % N.
Behind(chosen) == IF chosen = N - 1 THEN 0 ELSE chosen + 1

\* Mutant: one of the connections is never looked at.
IsNextShort(chosen) ==
    \E offset \in 0 .. N - 2 :
        /\ chosen = At(index, offset)
        /\ ready[chosen]
        /\ \A earlier \in 0 .. offset - 1 : ~ready[At(index, earlier)]

\* The first ready connection at or behind index_.
IsNext(chosen) ==
    \E offset \in 0 .. N - 1 :
        /\ chosen = At(index, offset)
        /\ ready[chosen]
        /\ \A earlier \in 0 .. offset - 1 : ~ready[At(index, earlier)]

Init ==
    /\ ready = [c \in Connection |-> FALSE]
    /\ index = 0
    /\ waited = [c \in Connection |-> 0]

\* get_next() returns a connection.  When there is none it throws NotReady and
\* changes nothing.
GetNext(chosen) ==
    /\ IsNext(chosen)
    /\ index' = Behind(chosen)
    /\ waited' = [c \in Connection |->
                    IF ready[c] /\ c # chosen THEN waited[c] + 1 ELSE 0]
    /\ UNCHANGED ready

\* A connection becomes ready or is lost.
Toggle(c) ==
    /\ ready' = [ready EXCEPT ![c] = ~@]
    /\ waited' = [waited EXCEPT ![c] = 0]
    /\ UNCHANGED index

Next == \E c \in Connection : GetNext(c) \/ Toggle(c)

Spec == Init /\ [][Next]_vars

-----------------------------------------------------------------------------
TypeOK ==
    /\ ready \in [Connection -> BOOLEAN]
    /\ index \in Connection
    /\ waited \in [Connection -> Nat]

\* No connection is passed over: one that stays ready gets one of any N
\* consecutive order actions, however the others come and go
\* (controller.cpp:374-380).
NotPassedOver == \A c \in Connection : waited[c] < N

\* NotReady is thrown only when no connection is ready: the scan misses none
\* (controller.cpp:374, 383).
ThrowsOnlyIfNoneReady ==
    (\E c \in Connection : ready[c]) => \E c \in Connection : IsNext(c)

\* How many connections a scan from start looks at before it comes to c.
Distance(start, c) == IF start <= c THEN c - start ELSE c + N - start

\* A ready connection that saw k actions go elsewhere has at most N - 1 - k
\* connections before it in the scan.
IInv ==
    /\ TypeOK
    /\ \A c \in Connection : waited[c] + Distance(index, c) <= N - 1
=============================================================================
