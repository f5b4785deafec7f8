----------------------------- MODULE LocalStore -----------------------------
(***************************************************************************)
(* The collection life cycle of pave/stores/local.py on top of Access: the *)
(* directories of one tenant, the global catalog (catalog.db: collection   *)
(* rows and query homes), the cached handles, and the operations that keep *)
(* the three in agreement while other operations run, the catalog is being *)
(* reopened, or the process dies.                                          *)
(*                                                                         *)
(* A directory is an inode, so that a handle opened on a directory that    *)
(* has since been removed or moved can be told from a live one.  Of its    *)
(* contents the model keeps whether meta.db exists and which queries its   *)
(* query_log holds.  A request is a job; pc is the next thing it does, and *)
(* while the access that step needs is not granted the thread waits.       *)
(***************************************************************************)
EXTENDS Access, Naturals, FiniteSets

CONSTANTS Query, Inode, None, Main,
          Ops,          \* the operations requests may ask for in this instance
          Faults,       \* subset of {"crash", "catalog"}
          Watch         \* the events that past remembers

ASSUME StoreAssumption ==
  /\ Inode \subseteq Nat
  /\ {None, Main} \cap (Thread \cup Coll \cup Inode) = {} /\ None # Main
  /\ Ops \subseteq {"create", "ingest", "purge", "delete", "rename", "search",
                    "list", "dump", "restore"}
  /\ Faults \subseteq {"crash", "catalog"}
  /\ Watch \subseteq {"crash", "overlap", "doubt"}
  \* catalog.db is an entry of the data directory next to the collections
  /\ IsFiniteSet(Coll) /\ "catalog" \notin Coll
  \* a new directory never has to take the inode of another one
  /\ \E some \in SUBSET Inode : IsFiniteSet(some) /\ Cardinality(some) > Cardinality(Coll)

VARIABLES
  pc, job,            \* the next step of each thread and the request it serves
  dir,                \* dir[c]: the inode behind t_<tenant>/c_<c>, or None
  hasDb, log,         \* inodes that contain meta.db; log[i]: its query_log
  wal,                \* wal[i]: the rows of log[i] that are only in meta.db-wal
  rows, home,         \* catalog.db: collections, query_home
  cache,              \* cache[c]: the inode _emb[c] and _dbs[c] were opened on
  catOpen,            \* _catalog is open and its _catalog_path is set
  guard, scan,        \* who holds _catalog_guard, and its bootstrap so far
  up,                 \* LocalStore.__init__ is done and requests are served
  archive,            \* the archive of the last dump, or None
  issued,             \* query ids handed out
  past                \* history: what has happened, as far as Watch says

disk == <<dir, hasDb, log, wal>>
catalog == <<rows, home>>
boot == <<catOpen, guard, scan, up>>
store == <<disk, catalog, cache, boot, archive, issued, past>>
vars == <<access, pc, job, store>>

-----------------------------------------------------------------------------
NoJob == [op |-> "none", c |-> None, d |-> None, q |-> None, try |-> 0, todo |-> {}]

\* range(3) in search and log_query
Tries == 3

\* What restore_archive removes and puts back, entry by entry.
Entry == Coll \cup {"catalog"}

\* The steps that go through _with_catalog_retry.
CatalogSteps == {"check_row", "register", "rename_row", "rename_homes",
                 "unregister", "purge_homes", "put_home", "list"}

FirstStep(op) ==
  CASE op \in {"create", "ingest", "purge"} -> "mkdir"
    [] op = "delete" -> "drop_cache"
    [] op = "rename" -> "check_dir"
    [] op = "search" -> "look"
    [] op = "list" -> "list"
    [] op \in {"dump", "restore"} -> "flush"

\* (mutant of Needs: dump takes the shared side of the state lock)
NeedsSharedDump(t) ==
  CASE job[t].op = "dump" -> Reads({})
    [] job[t].op = "restore" -> Whole
    [] pc[t] \in {"put_home", "list"} -> Reads({})
    [] pc[t] = "look" -> Reads({job[t].c})
    [] OTHER -> Writes({job[t].c, job[t].d})

\* The access under which a waiting thread runs its next steps.
Needs(t) ==
  CASE job[t].op \in {"dump", "restore"} -> Whole
    [] pc[t] \in {"put_home", "list"} -> Reads({})
    [] pc[t] = "look" -> Reads({job[t].c})
    [] OTHER -> Writes({job[t].c, job[t].d})

\* past is for the properties only: two requests overlapped; the process died;
\* the catalog may disagree with the disk, because one of its statements failed
\* or an archive was restored, and has not been reconciled since.
Happened(e) == past' = past \cup ({e} \cap Watch)

At(t, label) == pc[t] = label /\ access[t] # Free
Goto(t, label) == pc' = [pc EXCEPT ![t] = label]
Step(t, label) == Goto(t, label) /\ UNCHANGED <<access, job>>

\* The request is answered: its locks are released and the thread is free.
End(t) ==
  /\ Yield(t)
  /\ pc' = [pc EXCEPT ![t] = "idle"]
  /\ job' = [job EXCEPT ![t] = NoJob]

Init ==
  /\ AccessInit
  /\ pc = [t \in Thread |-> "idle"]
  /\ job = [t \in Thread |-> NoJob]
  /\ dir = [c \in Coll |-> None]
  /\ hasDb = {}
  /\ log = [i \in Inode |-> {}] /\ wal = [i \in Inode |-> {}]
  /\ rows = {}
  /\ home = [q \in Query |-> None]
  /\ cache = [c \in Coll |-> None]
  /\ catOpen = FALSE /\ guard = None /\ up = FALSE
  /\ scan = [todo |-> {}, found |-> {}]
  /\ archive = None
  /\ issued = {} /\ past = {}

-----------------------------------------------------------------------------
(* Requests and locks.                                                     *)

Begin(t) ==
  /\ up /\ pc[t] = "idle"
  /\ \E op \in Ops, c, d \in Coll :
       /\ (op = "rename") <=> (c # d)
       /\ op = "restore" => archive # None
       /\ job' = [job EXCEPT ![t] = [NoJob EXCEPT !.op = op, !.c = c, !.d = d]]
       /\ Goto(t, FirstStep(op))
  /\ IF \E u \in Thread : pc[u] # "idle" THEN Happened("overlap") ELSE UNCHANGED past
  /\ UNCHANGED <<access, disk, catalog, cache, boot, archive, issued>>

Enter(t) ==
  /\ pc[t] # "idle"
  /\ Grant(t, Needs(t))
  /\ UNCHANGED <<pc, job, store>>

-----------------------------------------------------------------------------
(* The catalog: opened on first use, and reconciled with the disk while    *)
(* _catalog_guard is held.                                                 *)

Scanning(g) ==
  /\ guard' = g
  /\ scan' = [todo |-> Coll, found |-> {}]
  /\ past' = past \ {"doubt"}

OpenCatalog(t) ==
  /\ pc[t] \in CatalogSteps /\ access[t] # Free
  /\ ~catOpen /\ guard = None
  /\ Scanning(t)
  /\ UNCHANGED <<access, pc, job, disk, catalog, cache, catOpen, up, archive, issued>>

\* LocalStore.__init__ at process start, before the first request.
Boot ==
  /\ ~up /\ guard = None
  /\ Scanning(Main)
  /\ UNCHANGED <<access, pc, job, disk, catalog, cache, catOpen, up, archive, issued>>

Stored(c) == dir[c] # None /\ dir[c] \in hasDb

ScanDir ==
  /\ guard # None
  /\ \E c \in scan.todo :
       scan' = [todo |-> scan.todo \ {c},
                found |-> IF Stored(c) THEN scan.found \cup {c} ELSE scan.found]
  /\ UNCHANGED <<access, pc, job, disk, catalog, cache, catOpen, guard, up,
                 archive, issued, past>>

\* (mutant of Reconcile: rows of vanished collections are not removed)
ReconcileSeedOnly ==
  /\ guard # None /\ scan.todo = {}
  /\ rows' = rows \cup scan.found
  /\ catOpen' = TRUE /\ up' = TRUE /\ guard' = None
  /\ scan' = [todo |-> {}, found |-> {}]
  /\ UNCHANGED <<access, pc, job, disk, home, cache, archive, issued, past>>

\* (mutant of Reconcile: discovered collections get no row)
ReconcilePruneOnly ==
  /\ guard # None /\ scan.todo = {}
  /\ rows' = rows \cap scan.found
  /\ catOpen' = TRUE /\ up' = TRUE /\ guard' = None
  /\ scan' = [todo |-> {}, found |-> {}]
  /\ UNCHANGED <<access, pc, job, disk, home, cache, archive, issued, past>>

\* Seed what was discovered, remove the rows of what was not.
Reconcile ==
  /\ guard # None /\ scan.todo = {}
  /\ rows' = (rows \cup (scan.found \ rows)) \ (rows \ scan.found)
  /\ catOpen' = TRUE /\ up' = TRUE /\ guard' = None
  /\ scan' = [todo |-> {}, found |-> {}]
  /\ UNCHANGED <<access, pc, job, disk, home, cache, archive, issued, past>>

\* A catalog step proper: it finds the catalog open.
InCatalog(t, label) ==
  /\ At(t, label)
  /\ catOpen
  /\ UNCHANGED <<disk, cache, boot, archive, issued, past>>

List(t) ==
  /\ InCatalog(t, "list")
  /\ End(t)
  /\ UNCHANGED catalog

-----------------------------------------------------------------------------
(* _load_or_init, as part of create, ingest, purge, rename (for the new    *)
(* name), search and log_query.                                            *)

Target(t) == IF job[t].op = "rename" THEN job[t].d ELSE job[t].c

Fresh == CHOOSE i \in Inode :
           /\ \A c \in Coll : i \notin {dir[c], cache[c]}
           /\ \A j \in Inode : j < i => \E c \in Coll : j \in {dir[c], cache[c]}

MkDir(t) ==
  /\ At(t, "mkdir")
  /\ LET c == Target(t) IN
     IF cache[c] # None
     THEN Step(t, "loaded") /\ UNCHANGED disk
     ELSE /\ Step(t, "open")
          /\ IF dir[c] # None
             THEN UNCHANGED disk
             ELSE /\ dir' = [dir EXCEPT ![c] = Fresh]
                  /\ hasDb' = hasDb \ {Fresh}
                  /\ log' = [log EXCEPT ![Fresh] = {}]
                  /\ wal' = [wal EXCEPT ![Fresh] = {}]
  /\ UNCHANGED <<catalog, cache, boot, archive, issued, past>>

Open(t) ==
  /\ At(t, "open")
  /\ LET c == Target(t) IN
       /\ hasDb' = hasDb \cup {dir[c]}
       /\ cache' = [cache EXCEPT ![c] = dir[c]]
  /\ Step(t, "loaded")
  /\ UNCHANGED <<dir, log, wal, catalog, boot, archive, issued, past>>

\* purge_doc is done; ingest registers unless it has no records to add or
\* fails on the way (validation, encoding); the others always register.
Loaded(t) ==
  /\ At(t, "loaded")
  /\ \/ job[t].op \in {"create", "ingest", "rename"} /\ Step(t, "register")
     \/ job[t].op \in {"ingest", "purge"} /\ End(t)
  /\ UNCHANGED store

\* INSERT OR IGNORE; a rename registers the old name before it renames the row.
Register(t) ==
  /\ InCatalog(t, "register")
  /\ rows' = rows \cup {job[t].c}
  /\ IF job[t].op = "rename" THEN Step(t, "rename_row") ELSE End(t)
  /\ UNCHANGED home

\* The handles of some collections are closed and leave the cache. The last
\* connection to a meta.db moves what its -wal holds into it.
CloseHandles(cs) ==
  /\ cache' = [c \in Coll |-> IF c \in cs THEN None ELSE cache[c]]
  /\ wal' = [i \in Inode |-> IF \E c \in cs : cache[c] = i THEN {} ELSE wal[i]]

-----------------------------------------------------------------------------
(* delete_collection                                                       *)

DropCache(t) ==
  /\ At(t, "drop_cache")
  /\ CloseHandles({job[t].c})
  /\ Step(t, "erase")
  /\ UNCHANGED <<dir, hasDb, log, catalog, boot, archive, issued, past>>

\* rmtree removes file by file: meta.db is gone before the directory is.
EraseFrom(c) ==
  IF Stored(c)
  THEN /\ hasDb' = hasDb \ {dir[c]}
       /\ log' = [log EXCEPT ![dir[c]] = {}]
       /\ wal' = [wal EXCEPT ![dir[c]] = {}]
       /\ UNCHANGED dir
  ELSE dir' = [dir EXCEPT ![c] = None] /\ UNCHANGED <<hasDb, log, wal>>

Erase(t) ==
  /\ At(t, "erase")
  /\ IF dir[job[t].c] # None
     THEN EraseFrom(job[t].c) /\ UNCHANGED pc
     ELSE Goto(t, "unregister") /\ UNCHANGED disk
  /\ UNCHANGED <<access, job, catalog, cache, boot, archive, issued, past>>

Unregister(t) ==
  /\ InCatalog(t, "unregister")
  /\ rows' = rows \ {job[t].c}
  /\ Step(t, "purge_homes")
  /\ UNCHANGED home

\* (mutant of PurgeHomes: the homes are left behind)
PurgeNoHomes(t) ==
  /\ InCatalog(t, "purge_homes")
  /\ End(t)
  /\ UNCHANGED <<rows, home>>

PurgeHomes(t) ==
  /\ InCatalog(t, "purge_homes")
  /\ home' = [q \in Query |-> IF home[q] = job[t].c THEN None ELSE home[q]]
  /\ End(t)
  /\ UNCHANGED rows

-----------------------------------------------------------------------------
(* rename_collection from c to d                                           *)

\* (mutant of CheckDir: the new path may already exist)
CheckOldDir(t) ==
  /\ At(t, "check_dir")
  /\ IF dir[job[t].c] # None THEN Step(t, "check_row") ELSE End(t)
  /\ UNCHANGED store

CheckDir(t) ==
  /\ At(t, "check_dir")
  /\ IF dir[job[t].c] # None /\ dir[job[t].d] = None
     THEN Step(t, "check_row")
     ELSE End(t)
  /\ UNCHANGED store

\* (mutant of CheckRow: the catalog is not asked for the new name)
CheckNoRow(t) ==
  /\ InCatalog(t, "check_row")
  /\ Step(t, "close_old")
  /\ UNCHANGED catalog

CheckRow(t) ==
  /\ InCatalog(t, "check_row")
  /\ IF job[t].d \in rows THEN End(t) ELSE Step(t, "close_old")
  /\ UNCHANGED catalog

\* (mutant of CloseOld: the handles of the old name stay in the cache)
CloseNothing(t) ==
  /\ At(t, "close_old")
  /\ Step(t, "move_dir")
  /\ UNCHANGED store

CloseOld(t) ==
  /\ At(t, "close_old")
  /\ CloseHandles({job[t].c})
  /\ Step(t, "move_dir")
  /\ UNCHANGED <<dir, hasDb, log, catalog, boot, archive, issued, past>>

MoveDir(t) ==
  /\ At(t, "move_dir")
  /\ dir' = [dir EXCEPT ![job[t].d] = dir[job[t].c], ![job[t].c] = None]
  /\ Step(t, "mkdir")
  /\ UNCHANGED <<hasDb, log, wal, catalog, cache, boot, archive, issued, past>>

\* UPDATE collections SET name = d: a UNIQUE conflict, or a missing row that
\* was not renamed before, ends the request with an error.
RenameRow(t) ==
  /\ InCatalog(t, "rename_row")
  /\ IF job[t].c \in rows /\ job[t].d \notin rows
     THEN /\ rows' = (rows \ {job[t].c}) \cup {job[t].d}
          /\ Step(t, "rename_homes")
     ELSE /\ IF job[t].c \notin rows /\ job[t].d \in rows
             THEN Step(t, "rename_homes")
             ELSE End(t)
          /\ UNCHANGED rows
  /\ UNCHANGED home

RenameHomes(t) ==
  /\ InCatalog(t, "rename_homes")
  /\ home' = [q \in Query |-> IF home[q] = job[t].c THEN job[t].d ELSE home[q]]
  /\ End(t)
  /\ UNCHANGED rows

-----------------------------------------------------------------------------
(* search, and the log_query that follows it in the same request.          *)

\* The collection is cached and the search runs on it; its query gets an id
\* and is logged.  (Bound: with no id left in Query the request ends.)
SearchHit(t) ==
  /\ At(t, "look") /\ job[t].op = "search"
  /\ cache[job[t].c] # None
  /\ IF issued = Query
     THEN End(t) /\ UNCHANGED issued
     ELSE \E q \in Query \ issued :
            /\ Yield(t)
            /\ issued' = issued \cup {q}
            /\ job' = [job EXCEPT ![t].op = "log", ![t].q = q, ![t].try = 0]
            /\ UNCHANGED pc
  /\ UNCHANGED <<disk, catalog, cache, boot, archive, past>>

\* _write_log through the cached handle, and on to put_query_home. The row is
\* committed to the -wal; a commit may also bring all of it into meta.db.
WriteLog(t) ==
  /\ LET i == cache[job[t].c] IN
       /\ log' = [log EXCEPT ![i] = @ \cup {job[t].q}]
       /\ \E rest \in {{}, wal[i] \cup {job[t].q}} : wal' = [wal EXCEPT ![i] = rest]
  /\ Yield(t)
  /\ Goto(t, "put_home")

LogHit(t) ==
  /\ At(t, "look") /\ job[t].op = "log"
  /\ cache[job[t].c] # None
  /\ WriteLog(t)
  /\ UNCHANGED <<job, dir, hasDb, catalog, cache, boot, archive, issued, past>>

\* (mutant of Miss: one attempt too many)
MissOnceMore(t) ==
  /\ At(t, "look")
  /\ cache[job[t].c] = None
  /\ IF job[t].try <= Tries
     THEN Yield(t) /\ Goto(t, "mkdir") /\ UNCHANGED job
     ELSE End(t)
  /\ UNCHANGED store

\* Not cached: load it under the write lock, unless search has tried enough.
Miss(t) ==
  /\ At(t, "look")
  /\ cache[job[t].c] = None
  /\ IF job[t].try < Tries
     THEN Yield(t) /\ Goto(t, "mkdir") /\ UNCHANGED job
     ELSE End(t)
  /\ UNCHANGED store

\* The write lock is given up and the cache looked up again, except that the
\* last attempt of log_query writes where it is.
LookAgain(t) ==
  /\ At(t, "loaded") /\ job[t].op \in {"search", "log"}
  /\ IF job[t].op = "log" /\ job[t].try = Tries - 1
     THEN WriteLog(t) /\ UNCHANGED job
     ELSE /\ Yield(t)
          /\ Goto(t, "look")
          /\ job' = [job EXCEPT ![t].try = @ + 1]
          /\ UNCHANGED <<log, wal>>
  /\ UNCHANGED <<dir, hasDb, catalog, cache, boot, archive, issued, past>>

\* No collection lock is held here, only the shared side of the state lock.
PutHome(t) ==
  /\ InCatalog(t, "put_home")
  /\ home' = [home EXCEPT ![job[t].q] = job[t].c]
  /\ End(t)
  /\ UNCHANGED rows

-----------------------------------------------------------------------------
(* dump_archive and restore_archive, alone in the data directory.          *)

\* (mutant of FlushCaches: the handles are closed later, on a daemon thread,
\* which is what async_close=True does)
FlushCachesAsync(t) ==
  /\ At(t, "flush")
  /\ cache' = [c \in Coll |-> None]
  /\ catOpen' = FALSE
  /\ Goto(t, IF job[t].op = "dump" THEN "zip" ELSE "wipe")
  /\ job' = [job EXCEPT ![t].todo = Entry]
  /\ UNCHANGED <<access, disk, catalog, guard, scan, up, archive, issued, past>>

FlushCaches(t) ==
  /\ At(t, "flush")
  /\ CloseHandles(Coll)
  /\ catOpen' = FALSE
  /\ Goto(t, IF job[t].op = "dump" THEN "zip" ELSE "wipe")
  /\ job' = [job EXCEPT ![t].todo = Entry]
  /\ UNCHANGED <<access, dir, hasDb, log, catalog, guard, scan, up, archive, issued, past>>

LogOf(c) == IF dir[c] = None THEN {} ELSE log[dir[c]]
WalOf(c) == IF dir[c] = None THEN {} ELSE wal[dir[c]]

\* _write_zip: every file but the -wal and -shm sidecars.  (Bound: where Ops has
\* no restore the archive, which nothing would read, is not kept.)
Zip(t) ==
  /\ At(t, "zip")
  /\ archive' = IF "restore" \notin Ops THEN None
                ELSE [dirs |-> {c \in Coll : dir[c] # None},
                      dbs |-> {c \in Coll : Stored(c)},
                      logs |-> [c \in Coll |-> LogOf(c) \ WalOf(c)],
                      rows |-> rows, home |-> home, sure |-> "doubt" \notin past]
  /\ End(t)
  /\ UNCHANGED <<disk, catalog, cache, boot, issued, past>>

\* for entry in data_dir_path.iterdir(): self._remove_path(entry)
Wipe(t) ==
  /\ At(t, "wipe")
  /\ \/ \E c \in job[t].todo \ {"catalog"} :
          /\ IF dir[c] # None
             THEN EraseFrom(c) /\ UNCHANGED job
             ELSE /\ job' = [job EXCEPT ![t].todo = @ \ {c}]
                  /\ UNCHANGED disk
          /\ UNCHANGED <<pc, catalog>>
     \/ /\ "catalog" \in job[t].todo
        /\ rows' = {} /\ home' = [q \in Query |-> None]
        /\ job' = [job EXCEPT ![t].todo = @ \ {"catalog"}]
        /\ UNCHANGED <<pc, disk>>
     \/ /\ job[t].todo = {}
        /\ job' = [job EXCEPT ![t].todo = Entry]
        /\ Goto(t, "place")
        /\ UNCHANGED <<disk, catalog>>
  /\ UNCHANGED <<access, cache, boot, archive, issued, past>>

PlaceDir(c) ==
  IF c \in archive.dirs
  THEN /\ dir' = [dir EXCEPT ![c] = Fresh]
       /\ hasDb' = IF c \in archive.dbs THEN hasDb \cup {Fresh} ELSE hasDb \ {Fresh}
       /\ log' = [log EXCEPT ![Fresh] = archive.logs[c]]
       /\ wal' = [wal EXCEPT ![Fresh] = {}]
  ELSE UNCHANGED disk

\* for entry in extract_dir.iterdir(): shutil.move(entry, target)
Place(t) ==
  /\ At(t, "place")
  /\ \/ \E c \in job[t].todo \ {"catalog"} :
          /\ PlaceDir(c)
          /\ job' = [job EXCEPT ![t].todo = @ \ {c}]
          /\ UNCHANGED <<access, pc, catalog, past>>
     \/ /\ "catalog" \in job[t].todo
        /\ rows' = archive.rows /\ home' = archive.home
        /\ job' = [job EXCEPT ![t].todo = @ \ {"catalog"}]
        /\ UNCHANGED <<access, pc, disk, past>>
     \/ /\ job[t].todo = {}
        /\ End(t)
        /\ Happened("doubt")
        /\ UNCHANGED <<disk, catalog>>
  /\ UNCHANGED <<cache, boot, archive, issued>>

-----------------------------------------------------------------------------
(* Faults.                                                                 *)

\* The process dies. What SQLite committed and what was moved or removed on
\* disk stays; everything in memory is gone.
Crash ==
  /\ "crash" \in Faults /\ up
  /\ access' = [t \in Thread |-> Free]
  /\ pc' = [t \in Thread |-> "idle"]
  /\ job' = [t \in Thread |-> NoJob]
  /\ cache' = [c \in Coll |-> None]
  /\ catOpen' = FALSE /\ guard' = None /\ up' = FALSE
  /\ scan' = [todo |-> {}, found |-> {}]
  /\ Happened("crash")
  /\ UNCHANGED <<disk, catalog, archive, issued>>

\* A catalog statement fails for good (disk full, I/O error): the exception
\* ends the request where it is. put_query_home failing is only logged.
CatalogFails(t) ==
  /\ "catalog" \in Faults
  /\ pc[t] \in CatalogSteps /\ access[t] # Free /\ guard # t
  /\ End(t)
  /\ Happened("doubt")
  /\ UNCHANGED <<disk, catalog, cache, boot, archive, issued>>

Serve(t) ==
  \/ Begin(t) \/ Enter(t) \/ OpenCatalog(t) \/ List(t)
  \/ MkDir(t) \/ Open(t) \/ Loaded(t) \/ Register(t)
  \/ DropCache(t) \/ Erase(t) \/ Unregister(t) \/ PurgeHomes(t)
  \/ CheckDir(t) \/ CheckRow(t) \/ CloseOld(t) \/ MoveDir(t)
  \/ RenameRow(t) \/ RenameHomes(t)
  \/ SearchHit(t) \/ LogHit(t) \/ Miss(t) \/ LookAgain(t) \/ PutHome(t)
  \/ FlushCaches(t) \/ Zip(t) \/ Wipe(t) \/ Place(t)
  \/ CatalogFails(t)

Next == (\E t \in Thread : Serve(t)) \/ Boot \/ ScanDir \/ Reconcile \/ Crash

Spec == Init /\ [][Next]_vars

-----------------------------------------------------------------------------
(* Properties.                                                             *)

ArchiveType ==
  [dirs : SUBSET Coll, dbs : SUBSET Coll, logs : [Coll -> SUBSET Query],
   rows : SUBSET Coll, home : [Query -> Coll \cup {None}], sure : BOOLEAN]

\* Types. The access of every thread is one the lattice can grant.
TypeOK ==
  /\ AccessTypeOK
  /\ pc \in [Thread -> {"idle", "list", "mkdir", "open", "loaded", "register",
       "drop_cache", "erase", "unregister", "purge_homes", "check_dir",
       "check_row", "close_old", "move_dir", "rename_row", "rename_homes",
       "look", "put_home", "flush", "zip", "wipe", "place"}]
  /\ job \in [Thread -> [op : Ops \cup {"none", "log"}, c : Coll \cup {None},
                         d : Coll \cup {None}, q : Query \cup {None},
                         try : 0 .. Tries, todo : SUBSET Entry]]
  /\ dir \in [Coll -> Inode \cup {None}]
  /\ hasDb \subseteq Inode
  /\ log \in [Inode -> SUBSET Query] /\ wal \in [Inode -> SUBSET Query]
  /\ rows \subseteq Coll
  /\ home \in [Query -> Coll \cup {None}]
  /\ cache \in [Coll -> Inode \cup {None}]
  /\ catOpen \in BOOLEAN /\ up \in BOOLEAN
  /\ guard \in Thread \cup {Main, None}
  /\ scan \in [todo : SUBSET Coll, found : SUBSET Coll]
  /\ archive = None \/ archive \in ArchiveType
  /\ issued \subseteq Query /\ past \subseteq Watch

\* A cached handle is never a handle on a directory that is gone, was moved or
\* was replaced, whichever deletes, renames, dumps and restores went before:
\* whoever reads or writes through _emb and _dbs reaches the files of the
\* collection it names. Only a writer of the collection may see otherwise.
CacheIsLive ==
  \A c \in Coll :
    WritersOf(c) = {} /\ cache[c] # None => Stored(c) /\ cache[c] = dir[c]

\* A collection the catalog lists has its directory and its meta.db, unless it
\* is being changed at this moment. The bootstrap that reopens the catalog
\* runs among creates and deletes and must not list one that has just gone.
RegisteredIsOnDisk ==
  \A c \in rows : catOpen /\ WritersOf(c) = {} => Stored(c)

\* The catalog lists every collection on disk, unless one of its statements has
\* failed since it was opened: reopening it heals what failures, crashes and
\* restores left behind, although other requests go on meanwhile.
OnDiskIsRegistered ==
  "doubt" \notin past =>
    \A c \in Coll : catOpen /\ WritersOf(c) = {} /\ Stored(c) => c \in rows

\* A rename that passed its pre-checks does not meet a UNIQUE conflict or a
\* missing row after it has moved the directory, also when earlier requests
\* were cut off between the disk and the catalog by an exception or a crash.
RenameNeverCollides ==
  \A t \in Thread :
    pc[t] = "rename_row" => job[t].c \in rows /\ job[t].d \notin rows

\* A logged query is lost only to a delete or a restore of the directory that
\* holds it; renames, reloads, reopened catalogs and crashes keep it.
LogRowsSurvive ==
  [][\A c \in Coll, q \in Query :
       q \in LogOf(c) /\ (\A d \in Coll : q \notin LogOf(d)') =>
         \E t \in WritersOf(c) : job[t].op \in {"delete", "restore"}]_vars

\* With no request under way, a query id that resolves to a collection is in
\* the query log of that collection: the admin shortcut finds what it points to.
HomesResolve ==
  up /\ (\A t \in Thread : pc[t] = "idle") =>
    \A q \in Query : home[q] # None => q \in LogOf(home[q])

\* The same after any sequence of requests that did not overlap, with no crash.
HomesResolveInSequence == past = {} => HomesResolve

\* An archive is a data directory in which the catalog agrees with the disk,
\* although dump runs among creates, deletes and renames.
ArchiveConsistent ==
  archive # None /\ archive.sure => archive.rows = archive.dbs

\* When dump reads the files, every row a collection has committed is in the
\* meta.db that goes into the archive, none only in the -wal that stays out
\* (a crash can leave a -wal behind whose collection nobody has opened since).
DumpIsComplete ==
  \A t \in Thread :
    pc[t] = "zip" /\ "crash" \notin past => \A c \in Coll : WalOf(c) = {}
=============================================================================
