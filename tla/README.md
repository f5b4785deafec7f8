# A TLA+ model of PaveDB

PaveDB (`src/pave`) is a multi-tenant vector search engine in one Python process:
collections of documents, each split into chunks with an embedding, a metadata
row and a text file, served over HTTP and from a command line. This directory
holds TLA+ modules of its concurrent and stateful core, the TLC runs that check
them on small instances, and proofs checked by TLAPS.

## 1. The system

| Component | State | Operations | Talks to |
|---|---|---|---|
| Lock lattice (`stores/local.py:42-230`) | per lock: readers with their depth, writer, number of pending writers, a condition variable | read and write sections, nested | taken by every store operation |
| Collection store (`stores/local.py`) | cached handles `_emb`, `_dbs`; the catalog handle and its guard; directories | create, delete, rename, ingest, purge, search, log, list, dump, restore | catalog, collection databases, FAISS, embedder |
| Catalog (`CatalogDB`, `metadb.py:958`) | `collections`, `query_home` tables | bootstrap, register, unregister, rename, put/resolve/purge home | SQLite |
| Collection database (`CollectionDB`, `metadb.py:150`) | documents, chunks, `query_log`; open connections and active readers/writers | upsert, delete, filter, log query, close | SQLite |
| FAISS backend (`backends/faiss.py`) | index, two id maps, next id; two files | add, delete, search, flush | disk |
| Admission gates (`main.py`, `auth.py`, `routes/documents.py`) | `tenant_active`, `active_searches`, `active_ingests`, two thread pools | admit, reject, time out, release | store, through the pools |
| SBERT worker (`embedders/sbert_worker.py`) | child process, pipe, lock | encode, restart, close | child process |
| Service (`service.py`) and routes (`routes/*.py`, `auth.py`) | none of their own | one function and one route per request; keys and tenants | store, metrics |
| Metrics (`metrics.py`) | counters, latency windows, dirty flag | inc, save, load, flush, reset | disk |
| Filters (`filters.py`, `metadb.py:810`) | none | sanitize, SQL pushdown, Python match | collection database |
| Preprocessing (`preprocess.py`) | that of a generator | windows of a text, rows of a CSV file | service |
| Configuration, logging, CLI, UI, other embedders | none that outlives a call | | |

What is hard here:

* **Two levels of locks that sleep.** Every operation takes the state lock
  (shared, or exclusive for dump and restore) and then zero, one or two
  collection locks. Reads nest on the same thread; writers have priority. Lost
  wake-ups, deadlocks between opposing renames, and a nested read that meets a
  queued writer are what the code was rewritten for in v0.9.
* **Three places that must agree**: the directories, the catalog and the cached
  handles. Each operation changes them one after the other, a reopened catalog
  rewrites its table from a directory scan while other threads work, and a crash
  may come between any two steps.
* **Locks that are given up and retaken.** `search` and `log_query` look in the
  cache, let go, load, and look again; `put_query_home` runs after the lock.
* **Work that outlives its request.** A timed-out search keeps its pool thread;
  a timed-out encode may keep its worker and its answer.
* **A handle closed under its users.** The store drops a database handle from its
  cache and closes it while other threads still have it; each handle has a gate of
  its own with counters, a closing flag and two mutexes.
* **One question answered twice.** A filter is decided in SQL over texts and again in
  Python over values, and the result is what both keep.
* **Requests that half happen.** A client sees a status; what a failed or refused
  request leaves behind decides what later requests, query ids and replays find.
* **Multi-file, multi-store documents**: chunk rows, sidecar files, vectors and the
  two FAISS files change one by one.

`PROJECT.json` lists every component with its status and every hazard at its line.

## 2. Modules

| Module | Models | Built on |
|---|---|---|
| `Access` | what the locks promise: at most compatible accesses at once | – |
| `LockLattice` | both lock classes and the lock protocol of every operation | implements `Access` |
| `LockLatticeProofs` | invariants and refinement of `LockLattice`, proved | `LockLattice` |
| `LocalStore` | directories, catalog, caches, requests, crashes | uses `Access` in place of locks |
| `LocalStoreProofs` | its types, caches, catalog, logs, dumps and homes, proved | `LocalStore` |
| `DocIndex` | one collection's documents: rows, sidecars, FAISS index and files | takes the exclusion `Access` grants |
| `DocIndexProofs` | types, purges, promises and hits, proved | `DocIndex` |
| `RequestGates` | tenant, search and ingest gates with the two pools | – |
| `RequestGatesProofs` | its counters and queues, proved | `RequestGates` |
| `SbertWorker` | the embedding worker and its callers | – |
| `SbertWorkerProofs` | that prompt answers match, proved | `SbertWorker` |
| `DbHandle` | the reader/writer/close gate of one SQLite handle | – |
| `DbHandleProofs` | its invariants, proved | `DbHandle` |
| `Filters` | metadata keys and values, tables, pushdown, canonical filter | – |
| `Metrics` | counters and their file | – |
| `Preprocess` | the generators that cut a file into records | – |
| `ServicesProofs` | metrics file and restart, filtered hits, phrases and cells, proved | `Metrics`, `Filters`, `Preprocess` |
| `Api` | what clients see: routes, keys, service functions, query ids, replay | – |
| `ApiProofs` | query ids, tenants, rejected requests, replays, proved | `Api` |
| `MC*` | constants for TLC; `MCServices` puts `DbHandle`, `Filters`, `Metrics` and `Preprocess` side by side | one per module, but for these |

**The locks are modelled once.** `LockLattice` has the condition variables, the
queues and the wake-ups, and implements `Access`, which has none of them.
`LocalStore` is written over `Access`: a thread is granted the access its next
step needs when it is compatible with all others, in one step. This keeps the
store model free of lock states, and the refinement is what makes it sound.

Operators commented *(mutant of X: ...)* are X with a plausible bug. `PROJECT.json`
pairs every property of a passing run with one of them: with the mutant in the place
of X, TLC finds that property violated.

### LockLattice

`readers[l][t]`, `writer[l]`, `pending[l]`, `asleep[l]` are `_readers`, `_writer`,
`_pending_writers` (as the set of threads it counts) and the threads inside
`_cond.wait()`. One action is one critical section under the condition's mutex:
`TakeRead`/`TakeWrite` test the wait condition and either enter or go to sleep;
`LeaveRead`/`LeaveWrite` release and wake. The four kinds of operation (catalog,
read, write, archive) cover all callers of `_collection_read_lock`,
`_collection_write_locks`, `_with_catalog_retry` and `write_lock`. A read may nest
through `_read_collection_db`, a write through `_with_catalog_retry`, any number of
times. `Rank` is `id()` of a lock object.

### LocalStore

`dir[c]` is the directory (inode) under the name `c`; `hasDb`, `log`, `wal` are
its `meta.db`, the queries in its `query_log`, and those of them that are still
only in `meta.db-wal`. `rows` and `home` are the two catalog tables; `cache[c]` the
inode that `_emb[c]`/`_dbs[c]` were opened on; `catOpen`, `guard`, `scan` the
catalog handle, `_catalog_guard` and a bootstrap in progress. A request is `job[t]`
and `pc[t]` is its next step. Each step is what can be seen from outside the
locks or survives a crash: a directory made, moved or removed, a SQLite
statement committed, a handle opened or dropped. The two loops of `search` and
`log_query` keep their three attempts and their last one.

Where the process is abstracted: inode numbers (a directory that a stale
handle still points at is not reused); the contents of a collection other than
`meta.db` and the query log (see `DocIndex`); tenants (one); `_system`.
`ingest` and `purge` may fail at any point after loading, so both outcomes of
`Loaded` are open. `restore` moves one collection directory in one step.

`past` is a history variable: what has happened that a property depends on,
among `crash` (the process was killed), `overlap` (two requests were active at
once) and `doubt` (a catalog statement failed or an archive was restored, and the catalog
has not been reconciled with the disk since). `Watch` names the events it records, so that a run
pays only for those its properties read.

### DocIndex

`rows` are the chunk rows of `meta.db`, `text` the sidecars, `mem` the cached
`FaissBackend` (vectors under integer ids, `_rid_to_id`, `_id_to_rid`, `_next_id`),
`idxFile` and `mapFile` its two files, `Broken` when their writing was cut off. `job`
is the one request that holds the collection's write lock, `pc` its next step:
delete the rows, remove the sidecars, drop the vectors and save, save the new
texts, commit the new rows, encode and add the vectors, save. `Shown(d)` is what a
reader gets of a document: per chunk its version if row, vector and text agree. A text
and a vector are the pair of rid and version they come from. `FileOf` is
`_urid_to_fname`, which gives different rids the same name; properties about texts
speak of chunks with a file of their own. `settled` is what the last completed
request on a document promised, `gone` the chunks whose removal was saved, `past` what
has gone wrong. `EncodeFails` and `WriteFails` stand for what encoder, disk and SQLite raise; the
request has then failed, with whatever status (`Api` tells the statuses apart). Left out: metadata other than its refusal, filters, scores,
and the limit of a search.

### RequestGates

`tenantActive`, `active` are the counters of `app.state`. What a handler does
between two awaits is one action. `queue[k]` and `running[k]` are the executor's
queue and threads. `TimeOut` is the timer of `asyncio.wait_for` around the shielded
future: the handler leaves, the job stays. Replay goes through the same gates; the
lookup of its home, and a second handler-level gate around it, do not change the
counters in another way. Routes without a pool are kind `other`.

### SbertWorker

`requests` and `answers` are the two directions of the pipe, `worker` the child's
state, `at` the line of `encode` each caller is at, `lock` and `attempt` those of
the holder. Messages carry the call only so that a property can speak of it: the
code has no such field, and no action reads it. `slow`, chosen once in
`Init`, says whether an answer may come after `_REQUEST_TIMEOUT_S`.

### DbHandle

`CollectionDB` and `CatalogDB` have the same gate, so one module stands for both; `map`
names whichever class a definition was read from. `conn` is the number of the open()
that made `_rconn` and `_wconn`, 0 for `None`; `alive` the connections sqlite3 has not
closed; `using[t]` the connection a thread took when it entered, which it still uses
after it has let go of `_state_cv`. The steps outside `_state_cv` (`_read_lock`,
`_write_lock`, sqlite3's close) are actions of their own. `guard`, `ready` and `retired`
are what the store does around a handle: it is opened by one thread, handed out when
open and bootstrap are over, dropped from its cache and then closed, possibly by
more than one thread and while others still have it. In the store the lock lattice
keeps most of those callers away; the gate is looked at without that help, as the
second line of defence it is. `close()` waits with a timeout, so no notify can be missed.

### Filters

A value is a text, number, null or list; a condition an exact text, a negation, the
wildcard `*`, a comparison, or a value that is no string. `Field` and `Safe` are
`sanit_field` and `sanit_sql` as functions the instance gives, `Text` is `str(value)` as
the tables hold it. `Skipped`, `Passes` and `FilterByMeta` follow the SQL stage,
`Match` and `MatchesFilters` the Python stage; `PostFilter` is one turn of the loop that
stops at k. Both stages see the same rows: `search` holds the collection's read lock.

### Metrics

`count` and `dirty` under the lock, `file` what `metrics.json` holds, `save[t]` and
`snap[t]` a save between its snapshot and its rename. All that is saved is a counter:
errors and latencies travel the same way. `counted`, `failed` and `crossed` are history
variables. Writing the temporary file and renaming it are one step: until the rename
nothing but the temporary file changes.

### Preprocess

A text is its length, a window the set of positions it holds; a cell is its row and
column. The variables of the generator are `position` and what it has yielded. The header
guess of `csv.Sniffer` is an input, as is the dialect that gives the rows.

### Api

One request at a time: `disk`, `docs`, `rows`, `queries`, `homes` are what the store keeps, as
far as a later answer depends on it, and `reply` the answer the client has not
taken yet. Each action is a route with the service function and the store operation
under it; its disjuncts are its outcomes by status, with the partial effects of a
failure. A code is kept where an answer with it may have had an effect: `ingest_document`
answers any `ValueError` with 400 `invalid_csv_options` (`service.py:472`), whether the CSV
options are wrong, a text cannot be encoded (`local.py:952`) or `upsert_chunks`, `encode` or
`add` raise one, so with the old version purged or not; `rename_collection` answers any but two
with 400 `rename_invalid` (`service.py:184`), also one of the catalog after the directory has
moved (`metadb.py:1278`). Overlap, crashes and the inside of the store are left to the other modules.
`hits` of a query is what it found, or `Outdated` once a collection it
looked into has changed; it keeps the states few and is read by no action. `cut` are
the ids a failed rename has cut off from their home.

## 3. Runs

| Run | Instance | Question | Result |
|---|---|---|---|
| `lattice` | 3 threads, 2 collections, all kinds of operation, nested entries | types, wake-ups, deadlock, refinement of `Access`, writers get in | holds, 87,400 states |
| `store_caches` | 2 threads, 2 collections, all operations, crash | cached handles are live; listed is stored | holds, 1,101,983 |
| `store_names` | 2 threads, 2 collections, create/delete/rename/dump/restore, crash and catalog failure | stored is listed; archives agree with themselves; rename meets no conflict | holds, 704,738 |
| `store_queries` | 2 threads, 2 collections, 1 query, search/delete/rename/dump, crash | log rows survive; dumps are complete; homes resolve | holds, 750,346 |
| `store_stale_home` | 2 threads, no faults | homes resolve, whatever overlaps | **violated** |
| `documents` | 2 documents, 3 chunks, 2 versions, up to 2 of crash, failing write, failing encode, refused metadata | completed ingests stay searchable; results are faithful; purged chunks stay gone | holds, 2,138,912 |
| `documents_replace` | failing encode | an ingest replaces a document or leaves it | **violated** |
| `gates` | one of two parts at a time: 3 requests, 2 tenants (cap 2, none), pools of 2 and 1, timeouts; 3 threads on a handle | slots, admitted work starts, every request is answered; connections are neither used after close nor left behind, close ends | holds, 34,085 |
| `sbert` | 3 callers, deaths, with and without slow answers | prompt answers match, the lock is returned | holds, 7,504 |
| `sbert_stale` | slow answers | answers match | **violated** |
| `services` | one of four parts at a time, see below | API, filters, metrics, preprocessing | holds, 1,176,114 |
| `filters_pushdown` | 2 chunks of 2 documents, all kinds of value and condition | the pushdown changes no result | **violated** |

`gates` and `services` check modules that share no state in one run: the variable `part` of
`MCGates` and of `MCServices` is chosen in the initial state, and only that part takes steps, so
the state graph is the disjoint union of the parts'. In `gates`, `requests` is as the table says;
`handle` has 3 threads, so that a reader, a writer and a closer, or two closers and a user,
meet, and 2 calls of open(), one that fails or is closed and one after it.

In `services`, `filters` has two chunks with metadata of their own and of their documents, every kind of
value and condition, a key written in two ways, k up to 2. `metrics`: one counter that is
restored and one that is not, two resets at once, counts up to 2. `preprocess`: every text up
to 6 characters with windows and overlaps up to 4, so also overlaps larger than the window,
every CSV file up to 3 rows of up to 2 cells, with and without header. `api` has two
collections of a tenant and the common one of another; the tenant, the admin and two without
access; two query ids; two documents, so that a refused ingest can lose one and keep the other;
k = 2, which one document found in both collections fills, and which cuts off the second.
`Budget` bounds query ids in use plus failed writes by 2: two queries, or a query and a failure
around it.

**Bounds.** Three threads are one inside, one queued and one that passes or
is woken; the third matters for writer priority and for a dump queued above
a writer queued above a nested read. In `LocalStore` sleeping and waking are gone,
and two threads are one that does an operation and one that does another between
its steps; two collections are enough for a rename and its opposite, and for a
create or delete of either name beside it. Inodes are one per collection plus the
one a stale handle may hold. The number of query ids bounds the searches that
log. In `documents` `MaxId` bounds the ids FAISS hands out (3: two documents added,
and one more after a crash has set `next_id` back), `MaxFaults` how often something
goes wrong (2: a fault, and one that meets its leftovers), `Batch` the sets of chunks an
ingest may bring. An archive's contents are kept only in runs that can restore it. The passing
store runs, all safety, are symmetric in threads, collections and queries; the others
are not: lattice collections have ranks, and the others check liveness or name their values. Deadlock checking is on in every run.

**Fairness.** In `lattice` each thread with an operation is scheduled (weak
fairness), and an operation that can finish or nest again finishes in the end
(strong fairness of `Finish`): every reader in the code nests a fixed number of
times. In `gates` the event loop, the timers and the pools go on, ingests
end, and searches need not. In `sbert` the holder of the lock goes on,
which the two timeouts guarantee, and the child works while it lives.
In the `handle` part of `gates` a thread that is inside a call goes on; a read
that queues for `_read_lock` gets it because the reader before it leaves, and nobody
is assumed to win `_write_lock` but the thread that opens the handle, which has
no rival. New calls need not come and may keep coming.
No fairness is assumed of new requests, of the lock's choice among waiters, or
of a search on its thread.

### Where the conditions in the properties come from

Four properties fail as the documents or comments state them, and have a run that
shows it:

* `store_stale_home` (`local.py:698`): `log_query` inserts the row under the
  collection's lock, releases it, and then upserts `query_home`. A delete that runs
  in between purges homes first; the upsert then records a home in a
  collection that is gone, against PLAN-OBSERVABILITY.md:533 and rule 1 of
  CONTRIBUTING.md.
* `documents_replace` (`local.py:1068`): encoding comes after the old version was
  purged and the new rows were committed. When it fails, the document is neither the
  old one nor the new: `tests/test_concurrent_upsert.py:51` calls it an atomic
  replacement. Refused metadata (`local.py:1001`, `1040`) has the same effect.
* `sbert_stale` (`sbert_worker.py:253`): the second timeout raises and keeps the
  worker; its late answer is taken for the answer to the next call.
* `filters_pushdown` (`metadb.py:842`): the conditions of a key are alternatives, yet
  `filter_by_meta` skips those that are no strings and narrows by the rest. It
  also differs from `matches_filters` for list values (the tables hold
  `str(list)`), for `!v` when a chunk overrides its document's `v`, and for `docid`
  when the metadata sets it. Against the comment at `metadb.py:850` and PLAN-STORE.md:462.

Others hold under a condition that the property names:

* `HomesResolveInSequence` is about runs without overlap and without crash: the
  bootstrap that heals `collections` after a crash does not look at `query_home`.
* `DumpIsComplete` is about runs without a crash: afterwards a dump omits the rows
  that are only in the `-wal` of collections not opened since (`local.py:1305`).
* `OnDiskIsRegistered` is checked in a run without search and ingest: a search of
  an absent collection creates its directory and `meta.db` but no catalog row
  (`local.py:1201`); it is not listed until the catalog is reopened.
* `SettledStaySearchable` holds until a cut-off index or map file is loaded: the
  code then starts the collection with an empty index (`local.py:366`).
* `HitsAreFaithful` is about runs without crash and failing write. After a crash
  between a purge's transaction and its `flush` a vector has no row; after one
  between index and map file an id is handed out twice, and a search may find one
  chunk by the vector of another.
* `StartsUnlessAbandoned` counts abandoned searches: `active_searches` is
  decremented when a search times out, its thread is not free (`main.py:280`), so the
  next admitted search waits in the queue and may time out without having run.
* `HitsAreCanonical` asks for completeness of the chunks that are `Plain`: where the
  tables and the merged metadata tell the same. That every hit matches, and the
  order of the hits, hold without condition.
* `CleanIsSaved` and `RestartKeepsCounts` except failed saves (`_dirty` is cleared
  first, so the counts are not saved until something else is counted) and two resets
  whose saves cross (the older snapshot may land last).
* `NoCellIsLost` is about distinct column names, none of which is `row` or
  `has_header`: of two columns with one name `asdict` keeps the last, and
  those two are overwritten. It speaks of cells under a column: a row longer than the
  header is cut.
* `QueryIdResolves` excepts ids cut off by a rename that failed before it moved
  their homes: the scoped routes then answer 404 though the row is there. It does
  not speak of the admin routes, which need the home: after `log_query` has swallowed a
  failed `put_query_home` they do not find the id. And it excepts `Unlogged`, an id that
  finds nothing: `execute_replay` answers with one when its log write failed
  (`service.py:798`), where `search` answers without an id.
* `RejectedIsContained`: a client's error does not always mean that nothing happened. An
  ingest refused as `invalid_metadata_keys` or `invalid_csv_options` may have purged the
  old version of its document (`local.py:987`), as in `documents_replace`; a rename
  refused as `rename_invalid` may have moved the directory. The property says that this is
  all: no other document, no catalog row, home or log entry, and of a moved collection
  everything is under the new name. The documents and comments promise nothing here.
* `TenantsAreApart` lets a search create the common collection's directory.

## 4. Proofs

`LockLatticeProofs` proves for every finite or infinite set of threads and
collections and every injective `Rank` into `0 .. MaxRank` (assumption
`LatticeAssumption`, evaluated by TLC in every run of the lattice):

* `TypeCorrect`: `Spec => []TypeOK`
* `WakeupsAreComplete`: `Spec => []NoLostWakeup`
* `DeadlockFreedom`: `Spec => []NoGridlock`
* `Refinement`: `Spec => GrantsAccess`, that is, `LockLattice` implements `Access`

None of these is inductive as it stands. The invariant `Inv` adds: what a
thread holds is determined by its `pc` (so depths, owners and pending sets can be
computed from `pc`), a writer excludes readers, sleepers have a reason to sleep,
and jobs hold their locks in rank order. The proof that a step keeps it has one
lemma per group of actions. Deadlock freedom follows from the order: a thread
asleep on a lock waits for a thread further along the order *state lock < collections
by rank*, ranks are bounded by `MaxRank`, so the last of them is awake; a
nested entry is never blocked because the thread already reads.

`LocalStoreProofs` proves for any number of threads, collections, queries and inodes
(`StoreAssumption`, evaluated by TLC in every run of the store):

| Theorem | Property | Where |
|---|---|---|
| `StoreTypes` | `TypeOK` | everywhere |
| `CachedHandlesAreLive` | `CacheIsLive` | everywhere |
| `RenamesDoNotCollide` | `RenameNeverCollides` | everywhere |
| `LoggedQueriesSurvive` | `LogRowsSurvive` (of steps) | everywhere |
| `DumpsMissNothing` | `DumpIsComplete` | a crash, if it can happen, is remembered |
| `ListedIsOnDisk` | `RegisteredIsOnDisk` | no catalog statement fails |
| `DiskIsListed`, `ArchivesAgree` | `OnDiskIsRegistered`, `ArchiveConsistent` | no ingest, purge or search; doubts are remembered |
| `HomesStayInSequence` | `HomesResolveInSequence` | no catalog statement fails; overlaps, and crashes if they can happen, are remembered |

The third column are hypotheses of the theorems about `Ops`, `Faults` and `Watch`. "Remembered"
is no restriction of the program: the property speaks of `past`, and `past` has an event only
if `Watch` names it. The others are where the property is false: a failing statement
leaves a row or a home behind, and a search of an absent collection a directory
without a row (section 3). They are also what the runs leave out.

`StoreAssumption` asks that the collections are finitely many, that none is called as the
archive's entry for the catalog, and that there are more inodes than collections, so that
a new directory never gets the inode of one that exists.

`Base` is the inductive invariant under all of them, in three parts. `Control`: locks, step
and job of a thread fit together, and no two threads hold what `Access` would not grant
together. `Disk`: two names never lead to one directory, and a cached handle is open on the
directory under its name. `Stage(t)`: what a thread with its locks may rely on at its step:
that no handle is left when a directory is about to move or go, that the new name of a
rename is free. The three are inductive only together: what `Stage` says of a collection
survives the steps of others because those change only collections they have the write
lock of, and that they have it is `Control`.
Four invariants with a purpose of their own stand on it: `Flushed` (a `-wal` of a
directory that is in no cache is a crash's), `Agree` and `AllListed` (rows against
directories, either way, with what a bootstrap under way has yet to write), and `InOrder`
(where the row and the home of each query are at each step of the one request at work).

`DocIndexProofs` proves for any documents, chunks, sidecar names, versions, batches and
numbers of ids and faults (`DocAssumption`, evaluated by TLC in both runs of `DocIndex`;
its last conditions say that a file that is missing or unreadable is none of the
contents a file can have):

* `DocTypes`: `Spec => []TypeOK`
* `PurgedStaysGone`: `Spec => []PurgedIsGone`
* `PromisesHold`: `Spec => []SettledStaySearchable`
* `HitsAgree`: `Spec => []HitsAreFaithful`

`Base` says how far a request is, which rows its document has there, and that the two maps
are inverse to each other in the cache and in the file (`MapsAgree`): the lemmas
`WithoutType` and `WithTypeOf` on `delete` and `add` carry this through. `GoneStay` adds that no
map knows a purged chunk. A promise cannot be kept by `Shown` alone: each chunk has to be
under the same id in the cached index, the cached maps and both files (`Kept`), since either
may be what is read next, and `close` may rewrite one and fail at the other. It is
made from `Progress`, the texts and vectors a request has put in so far. `Faithful` says of
every vector in the index whose it may be while its document is being replaced.

`RequestGatesProofs` proves for any finite set of requests, any tenants and any limits
(`GatesAssumption`, evaluated by TLC in `gates`):

* `GatesTypes`: `Spec => []TypeOK`
* `GatesCount`: `Spec => []SlotsMatch`
* `GatesAdmitWhatRuns`: `Spec => []StartsUnlessAbandoned`

`Inv` adds whose job is where (`JobsMatch`): a job is in one place, once, in the pool its
request asked for, and a handler that is not waiting for it any more has timed out, which
ingests never do. Neither threads nor slots exceed their number (`WithinCaps`). A job then
waits behind full threads only if there are more jobs than slots, and the ones too many are
those of handlers that have left.

`SbertWorkerProofs` proves for any callers (`WorkerAssumption`, evaluated by TLC in `sbert`):

* `WorkerTypes`: `Spec => []TypeOK`
* `WorkerAnswers`: `Spec => []PromptAnswersMatch`

The property is about results; the invariant is about the pipe: the lock is held by the one
caller that is past it, and where no answer is late every message in either direction,
and the text the child works on, belong to that caller (`Pipes`). It leaves only with its
answer taken or the worker shut down, so the next one finds empty pipes.

`DbHandleProofs` proves for any finite set of threads and any `MaxOpens`
(`HandleAssumption`, evaluated by TLC in `gates`):

* `HandleTypes`: `HandleSpec => []HandleTypeOK`
* `HandleSafety`: `HandleSpec => []NoUseAfterClose`
* `HandleCloses`: `HandleSpec => []NothingLeaks`

`NoUseAfterClose` alone does not survive a step of `close()`. `Inv` adds that the
counters count: `activeReaders` is the number of threads between entry and exit of
`_reader`, `activeWriters` is 1 exactly if one is inside `_writer`. Hence `close()`, at
zero, finds nobody with the connections it takes. It also needs that nobody opens
while another closes or opens (`Guarded`): a closer has the guard or has retired the
handle, and a retired handle is not opened. There is one lemma per action. `NothingLeaks` rests
on `Accounted`: a connection that is alive is the current one or in the hands of a thread
that is about to drop it.

`ServicesProofs` proves about three modules that share no state, each from its own
assumption only. For any sets of counters and of handler threads (`MetricsAssumption`,
evaluated by TLC in `services`, like the next two):

* `FileFollows`: `MetricsSpec => []CleanIsSaved`
* `RestartIsFaithful`: `MetricsSpec => RestartKeepsCounts`

`CleanIsSaved` speaks of moments without a save. `CountsInv` says who writes the counters in
between (`Covered`): while `_dirty` is clear, a save is still to take its snapshot, or
the one that writes has a snapshot that agrees with the counters, or the file agrees.
`Alone` ties `crossed` to two saves that write at once, and `Stopping` bounds the file
from below by what the shutdown found, which is what the next start may rely on.

For texts, windows, overlaps and CSV files of any size (`PreprocessAssumption`):

* `PhrasesHold`: `PreprocessSpec => []PhrasesStayWhole`
* `CellsAreKept`: `PreprocessSpec => []NoCellIsLost`

`Windows` says that the generator stands at a multiple of the step, and that every
position it is past lies in the stride of some window, between its start and that of the
next one; so no division is needed to name the window that holds a phrase.
`RowsAreRecords` says that the records are those of the rows after the header, in order.

For any metadata, filter, candidates and `k` (`FilterAssumption`: a text or a number is
one item, a null is none, the keys of metadata and filters are raw keys):

* `FilteredHits`: `FilterSpec => []HitsAreCanonical`
* `TagsAreFound`: `FilterSpec => []TaggedIsFound`

`SearchInv` follows the loop: what is kept matches and comes in the order of the
candidates, and of those looked at none is missed that survived the pushdown and matches.
The rest is about the two stages: of a plain chunk, the text in the tables is the one item
of the merged value, so what the canonical filter accepts passes the SQL conditions
(`PlainSurvives`); and a key that was accepted is stored with its own value
(`StoredAsGiven`), which its exact filter finds (`ExactFinds`).

`ApiProofs` proves for any collections, tenants, documents, query ids and any `k`
(`ApiAssumption`, evaluated by TLC in `services`):

* `IdsResolve`: `ApiSpec => []QueryIdResolves`
* `TenantsStayApart`: `ApiSpec => TenantsAreApart`
* `RejectionsAreContained`: `ApiSpec => RejectedIsContained`
* `ReplaysFindTheSame`: `ApiSpec => []ReplayIsFaithful`

`Inv` is that a home, where there is one and no failed rename has cut it off, is the
collection the entry is in (`HomeIsRight`), and that the id in an answer not taken yet
has its entry (`AnswerIsRight`). Deletes and renames keep it because rows and
homes are moved by the same rule, searches because ids are fresh. Tenants stay apart
because each route that shows or replays an entry has found it in the collection of its
path, which `authorize_tenant` has compared with the key. Each lemma proves of one kind
of request all three: `Inv'`, what it spares (`Apart`), and what a 4xx may have changed
(`Harmless`). `ReplayIsFaithful` needs an invariant of the log (`Faith`): every entry has
the hits its search would find now, or the collections have left them behind, and it is in
a collection on disk. Without the latter a rename could meet entries that are already
under its new name. `Best`, the merge of the hits, is not opened: what matters is that it
depends only on what the two places hold.

Only model-checked: all liveness (`WriterProgress`, `EveryRequestIsAnswered`,
`LockIsReturned`, `CloseEnds`), which TLAPS does not reach. Every other property of a
passing run is a theorem. The properties of the `violation` runs are what the
documentation says and the code does not do; they are not theorems. What `FlattenSeq` and
`SubSeq` make of the ranked hits (`Best`) is evaluated by TLC only: it would need
induction over the list.

## 5. Not modelled, and why

* Reader starvation: writers may barge past readers for ever, and the code does
  not claim otherwise. `KeyboardInterrupt` inside `wait()`. Re-entry of the state
  lock's write side, which no caller uses.
* The retry in `_with_catalog_retry`: the handle is replaced only under the
  exclusive side of the state lock, so its transient errors do not arise; a lasting
  failure is `CatalogFails`.
* A failing `rmtree`; the `_system` tenant. Several tenants and the common collection
  are in `Api` only.
* Caps of 0 (asyncio's default pool); clients that disconnect; shutdown.
* `GET /v1/admin/queries` and replay resolve a home on the event loop itself
  (`admin.py:280`): a blocked state lock blocks the loop there.
* In `Filters`: metadata nested in metadata, wildcards other than `*`, comparisons of
  dates, and the depth limit of `match`.
* In `Preprocess`: pages of a PDF (numbered as the reader gives them); the order of the
  columns in a record; that an unsupported file type is reported as
  `invalid_csv_options` (both are `ValueError`s).
* In `Metrics`: a counter that is not declared at import (`matches_total`) is saved but not
  restored. The model has it; no property promises more.
* In `Api`: the archive routes (dump and restore are in `LocalStore`), the health routes
  (they create `_system/health`), validation of bodies. `k` below 1 is not refused by
  the routes: the store asks for at least 1, the merge with the common
  collection for `k`. A search of the common collection itself finds each document
  twice; `Hits` has it, no property forbids it.
* Configuration, logging, HTML, CLI, other embedders: no state, or I/O only.
  Start-up policy (`enforce_policy`): one decision on the configuration. Qdrant: a stub.

## 6. Plan

What is left, in this order:

1. An abstract registry that `LocalStore` implements for requests that do not touch
   absent collections.
2. `Api` over `LocalStore`'s overlap: two requests of a tenant at once, as clients see it.
