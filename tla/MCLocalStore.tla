---------------------------- MODULE MCLocalStore ----------------------------
\* Small instances of LocalStore for TLC.
EXTENDS LocalStore, TLC

\* Two collections, one directory each, and one inode to spare: the inode of a
\* removed directory that a stale handle still points at is not used again.
MCInode == 1 .. 3

\* Every request; those that decide about names and archives; those that decide
\* where a query log lives.
AllOps == {"create", "ingest", "purge", "delete", "rename", "search", "list",
           "dump", "restore"}
Naming == {"create", "delete", "rename", "dump", "restore"}
Querying == {"delete", "rename", "search", "dump"}

Symmetric == Permutations(Thread) \cup Permutations(Coll) \cup Permutations(Query)
=============================================================================
