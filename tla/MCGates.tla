------------------------------ MODULE MCGates ------------------------------
\* Small instances of the two gates that count who is inside, the one of the HTTP
\* layer and the one of a database handle.  They share no state: the initial state
\* chooses one, and only it takes steps.
EXTENDS RequestGates, DbHandle

CONSTANTS t1, t2

VARIABLE part       \* the gate that runs

\* One tenant with a cap of its own, one without.
MCTenantLimit == [t \in {t1, t2} |-> IF t = t1 THEN 2 ELSE 0]
\* The pools differ in size, so that a cap taken from the wrong one is seen.
MCMaxActive == [k \in Pool |-> IF k = "search" THEN 2 ELSE 1]

MCInit == part \in {"requests", "handle"} /\ Init /\ HandleInit

MCNext ==
  /\ UNCHANGED part
  /\ \/ part = "requests" /\ Next /\ UNCHANGED handleVars
     \/ part = "handle" /\ HandleNext /\ UNCHANGED vars

\* In the part that stands still nothing its fairness asks for is ever enabled.
MCSpec == MCInit /\ [][MCNext]_<<part, vars, handleVars>> /\ Fairness /\ HandleFairness
=============================================================================
