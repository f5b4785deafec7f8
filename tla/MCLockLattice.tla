--------------------------- MODULE MCLockLattice ---------------------------
\* Small instances of LockLattice for TLC.
EXTENDS LockLattice

CONSTANTS c1, c2

\* Two collection locks whose id() order is c1 before c2.
MCRank == [c \in {c1, c2} |-> IF c = c1 THEN 0 ELSE 1]
=============================================================================
