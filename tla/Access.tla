------------------------------- MODULE Access -------------------------------
(***************************************************************************)
(* What the lock lattice of the store promises to the code that runs under *)
(* it, with every lock, queue and wake-up left out: a thread is granted    *)
(* one access at a time and an access is granted only while it is          *)
(* compatible with the accesses of all other threads.                      *)
(*                                                                         *)
(*   read   some collections, shared; with no collection it stands for an  *)
(*          operation that takes only the shared side of the state lock    *)
(*   write  some collections, exclusively (two for a rename)               *)
(*   all    the whole data directory (dump and restore)                    *)
(*                                                                         *)
(* LockLattice implements this module; LocalStore is written on top of it. *)
(***************************************************************************)
CONSTANTS Thread, Coll

VARIABLE access        \* access[t] is what t may touch at this moment

Free == [mode |-> "free", colls |-> {}]
Reads(cs) == [mode |-> "read", colls |-> cs]
Writes(cs) == [mode |-> "write", colls |-> cs]
Whole == [mode |-> "all", colls |-> {}]

AccessType == [mode : {"free", "read", "write", "all"}, colls : SUBSET Coll]

Compatible(a, b) ==
  \/ a.mode = "free"
  \/ b.mode = "free"
  \/ a.mode = "read" /\ b.mode = "read"
  \/ /\ {a.mode, b.mode} \subseteq {"read", "write"}
     /\ a.colls \cap b.colls = {}

AccessInit == access = [t \in Thread |-> Free]

Grant(t, a) ==
  /\ access[t] = Free
  /\ \A u \in Thread \ {t} : Compatible(a, access[u])
  /\ access' = [access EXCEPT ![t] = a]

Yield(t) ==
  /\ access[t] # Free
  /\ access' = [access EXCEPT ![t] = Free]

AccessNext ==
  \E t \in Thread : Yield(t) \/ \E a \in AccessType \ {Free} : Grant(t, a)

AccessSpec == AccessInit /\ [][AccessNext]_access

-----------------------------------------------------------------------------
AccessTypeOK == access \in [Thread -> AccessType]

\* No two threads ever hold accesses that conflict: a writer of a collection
\* is alone in it, and a dump or a restore is alone in the data directory.
Exclusion ==
  \A t, u \in Thread : t # u => Compatible(access[t], access[u])

\* Whoever writes collection c (a dump or a restore writes all of them).
WritersOf(c) ==
  {t \in Thread : \/ access[t].mode = "all"
                  \/ access[t].mode = "write" /\ c \in access[t].colls}
=============================================================================
