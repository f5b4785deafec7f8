----------------------------- MODULE MCDocIndex -----------------------------
\* A small instance of DocIndex for TLC.
EXTENDS DocIndex, TLC

CONSTANTS d1, d2, r1, r2, r3, f1, f2

\* A document of two chunks and one of one; the docids differ only in a
\* character that _urid_to_fname replaces, and two chunks share a file.
MCDocOf == [r \in {r1, r2, r3} |-> IF r = r3 THEN d2 ELSE d1]
MCFileOf == [r \in {r1, r2, r3} |-> IF r = r1 THEN f1 ELSE f2]

\* A document may lose a chunk when it is ingested again, or all of them.
MCBatch == {{}, {r1}, {r1, r2}, {r3}}

Symmetric == Permutations(Version)
=============================================================================
