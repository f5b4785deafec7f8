-------------------------------- MODULE Api --------------------------------
(***************************************************************************)
(* What a client of the HTTP API sees: the routes of pave/routes, the      *)
(* checks of pave/auth.py before them, the service functions behind them,  *)
(* and their effect on what the store keeps.  One request runs at a time   *)
(* (their overlap is the subject of LocalStore and RequestGates); every    *)
(* service function may fail, a write also half way.                       *)
(*                                                                         *)
(* A document is its id; a search finds all documents of a collection,     *)
(* best first, since k is far below what the index is asked for.           *)
(***************************************************************************)
EXTENDS Naturals, Sequences, FiniteSets, SequencesExt

CONSTANTS
  Coll,            \* the collections requests name, pairs <<tenant, name>>
  Common,          \* the common collection
  CommonEnabled,   \* common_enabled
  Who,             \* who asks: tenants, the admin, and those without a known key
  DocId, Ranked,   \* document ids; the same as a sequence, best score first
  QueryId,         \* query ids
  K,               \* the k of the searches
  Outdated,        \* hits that the collections have left behind
  NoQuery, Unlogged,  \* no id; an id that was never logged
  NoReply,         \* the client waits for nothing
  Budget           \* bound: ids in use and writes that have failed, together

ASSUME ApiAssumption ==
  /\ \A c \in Coll : c = <<c[1], c[2]>>
  /\ Common \in Coll
  /\ CommonEnabled \in BOOLEAN
  /\ Who \subseteq {c[1] : c \in Coll} \cup {"admin", "anonymous", "stranger"}
  /\ Ranked \in Seq(DocId)
  /\ K \in Nat \ {0}
  /\ {c[1] : c \in Coll} \cap {"admin", "anonymous", "stranger"} = {}
  /\ QueryId \subseteq Nat
  /\ NoQuery # Unlogged /\ {NoQuery, Unlogged} \cap QueryId = {}
  /\ Budget \in Nat

VARIABLES
  disk,       \* the collections with a directory
  docs,       \* the documents in each
  rows,       \* the collections in the catalog
  queries,    \* the query_log rows: a function on the ids that have one
  homes,      \* query_home, a function on ids
  cut,        \* logged ids whose home a rename left behind when it failed half way
  reply,      \* the answer the client has not taken yet
  faults

storeVars == <<disk, docs, rows, queries, homes>>
apiVars == <<disk, docs, rows, queries, homes, cut, reply, faults>>

ApiInit ==
  /\ disk = {} /\ rows = {}
  /\ docs = [c \in Coll |-> {}]
  /\ queries = <<>> /\ homes = <<>>
  /\ cut = {} /\ reply = NoReply /\ faults = 0

-----------------------------------------------------------------------------
(* Who may ask for what.                                                   *)

Tenants == {c[1] : c \in Coll}

\* auth_ctx knows the key; authorize_tenant compares the tenant of the path.
HasKey(who) == who \in Tenants \cup {"admin"}
MayAsk(who, c) == who = "admin" \/ who = c[1]

Error(who, status, code) ==
  reply' = [who |-> who, status |-> status, code |-> code,
            hits |-> <<>>, query |-> NoQuery, of |-> NoQuery]

\* An answer of which only the status matters.
Says(who, status) == Error(who, status, "")

\* The answer of a search, or of a replay of the query "of".
Finds(who, hits, query, of) ==
  reply' = [who |-> who, status |-> 200, code |-> "",
            hits |-> hits, query |-> query, of |-> of]

\* Refused before the handler's own work: no key, a wrong one, a tenant on a
\* route of another tenant or of the instance, or at its cap; an admin's replay
\* counts for the tenant of the query.
Refuse(who, c) ==
  /\ reply = NoReply
  /\ \/ who = "anonymous" /\ Says(who, 401)
     \/ who \notin {"anonymous", "admin"} /\ Says(who, 403)
     \/ who \in Tenants /\ MayAsk(who, c) /\ Says(who, 429)
     \/ who = "admin" /\ (\E q \in DOMAIN homes : homes[q] = c) /\ Says(who, 429)
  /\ UNCHANGED <<disk, docs, rows, queries, homes, cut, faults>>

\* A route of one collection, one of the instance, and the common search.
Handles(who, c) == reply = NoReply /\ MayAsk(who, c)
HandlesAdmin(who) == reply = NoReply /\ who = "admin"
HandlesAny(who) == reply = NoReply /\ HasKey(who)

InUse == DOMAIN queries \cup DOMAIN homes
Spent == Cardinality(InUse) + faults

\* A write that fails.
Fault == Spent < Budget /\ faults' = faults + 1
Fails(who) == Fault /\ Says(who, 500)

\* A handler that fails before it has changed anything.
Breaks(who, status, code) ==
  /\ Error(who, status, code)
  /\ UNCHANGED <<disk, docs, rows, queries, homes, cut, faults>>

\* The client takes the answer.
Take ==
  /\ reply # NoReply
  /\ reply' = NoReply
  /\ UNCHANGED <<disk, docs, rows, queries, homes, cut, faults>>

-----------------------------------------------------------------------------
(* Collections.                                                            *)

\* The rows of a collection, and the ids that point at it.
LoggedIn(c) == {q \in DOMAIN queries : queries[q].at = c}
HomedIn(c) == {q \in DOMAIN homes : homes[q] = c}

\* The contents of a collection change: what queries have found in it is no longer
\* what they would find (the log keeps it, but nothing depends on it any more).
Aged(qs, c) ==
  [q \in DOMAIN qs |->
     IF qs[q].at = c \/ (qs[q].incl /\ c = Common) THEN [qs[q] EXCEPT !.hits = Outdated] ELSE qs[q]]

\* The embedder of a collection can only be the global one.  A failure may come
\* before or after the directory.
CreateCollection(who, c) ==
  /\ Handles(who, c)
  /\ \/ /\ Says(who, 400)
        /\ UNCHANGED <<disk, rows, faults>>
     \/ /\ disk' = disk \cup {c}
        /\ rows' = rows \cup {c}
        /\ Says(who, 201)
        /\ UNCHANGED faults
     \/ /\ disk' \in {disk, disk \cup {c}}
        /\ UNCHANGED rows
        /\ Fails(who)
  /\ UNCHANGED <<docs, queries, homes, cut>>

\* The directory goes first, with its query log, then the row, then the homes.
Erase(who, c) ==
  /\ disk' = disk \ {c}
  /\ docs' = [docs EXCEPT ![c] = {}]
  /\ queries' = Aged(Restrict(queries, DOMAIN queries \ LoggedIn(c)), c)
  /\ cut' = cut \ LoggedIn(c)
  /\ \/ /\ rows' = rows \ {c}
        /\ homes' = Restrict(homes, DOMAIN homes \ HomedIn(c))
        /\ Says(who, 200)
        /\ UNCHANGED faults
     \/ /\ rows' \in {rows, rows \ {c}}
        /\ UNCHANGED homes
        /\ Fails(who)

DeleteCollection(who, c) ==
  Handles(who, c) /\ (Erase(who, c) \/ Breaks(who, 500, ""))

\* What rename does before the catalog: the directory moves with its log.
Move(c, d) ==
  /\ disk' = (disk \ {c}) \cup {d}
  /\ docs' = [docs EXCEPT ![d] = docs[c], ![c] = {}]
  /\ queries' = [q \in DOMAIN queries |-> [queries[q] EXCEPT
                   !.at = IF @ = c THEN d ELSE @,
                   !.hits = IF queries[q].incl /\ Common \in {c, d} THEN Outdated ELSE @]]

\* The new name is taken.
Clash(d) == d \in disk \cup rows

\* The catalog after the directory has moved.  When it fails half way, the ids whose
\* homes stay behind are cut off; a ValueError on the way (the row of the old name
\* is missing, the embedder cannot be loaded) is answered as a client's error.
Relabel(who, c, d) ==
  \/ /\ rows' = (rows \ {c}) \cup {d}
     /\ homes' = [q \in DOMAIN homes |-> IF homes[q] = c THEN d ELSE homes[q]]
     /\ Says(who, 200)
     /\ UNCHANGED <<cut, faults>>
  \/ /\ rows' \in {rows, rows \cup {c}, (rows \ {c}) \cup {d}}
     /\ cut' = cut \cup (LoggedIn(c) \cap DOMAIN homes)
     /\ Fails(who) \/ (Fault /\ Error(who, 400, "rename_invalid"))
     /\ UNCHANGED homes

RenameCollection(who, c, d) ==
  /\ Handles(who, c) /\ d[1] = c[1]
  /\ \/ Breaks(who, 400, "rename_invalid")
     \/ c # d /\ Breaks(who, 500, "")
     \/ c # d /\ c \notin disk /\ Breaks(who, 404, "")
     \/ c # d /\ c \in disk /\ Clash(d) /\ Breaks(who, 409, "")
     \/ /\ c # d /\ c \in disk /\ ~Clash(d)
        /\ Move(c, d)
        /\ Relabel(who, c, d)

-----------------------------------------------------------------------------
(* Documents.                                                              *)

\* (mutant of Unread: the old version is purged before the file is read)
UnreadPurged(who, c, d) ==
  /\ Says(who, 400)
  /\ docs' = [docs EXCEPT ![c] = @ \ {d}]
  /\ queries' = Aged(queries, c)
  /\ UNCHANGED <<disk, rows>>

\* Metadata that is no JSON, a file without text or that cannot be read, CSV options
\* that do not fit, a file that is too large, or the ingest cap.
Unread(who, c, d) ==
  /\ \/ \E status \in {400, 413, 500, 503} : Says(who, status)
     \/ Error(who, 400, "invalid_csv_options")
  /\ UNCHANGED <<disk, docs, rows, queries>>

\* The old version is purged before the metadata keys are looked at; they may
\* still be refused.  A failure may come before the purge or after it, and with
\* the last writes when the new version is there; every ValueError among them is
\* answered as if the CSV options did not fit.
IngestDocument(who, c, d) ==
  /\ Handles(who, c)
  /\ \/ Unread(who, c, d) /\ UNCHANGED faults
     \/ /\ disk' = disk \cup {c}
        /\ queries' = Aged(queries, c)
        /\ \/ /\ docs' = [docs EXCEPT ![c] = @ \cup {d}]
              /\ rows' = rows \cup {c}
              /\ Says(who, 201)
              /\ UNCHANGED faults
           \/ /\ docs' = [docs EXCEPT ![c] = @ \ {d}]
              /\ Error(who, 400, "invalid_metadata_keys")
              /\ UNCHANGED <<rows, faults>>
           \/ /\ docs' \in {docs, [docs EXCEPT ![c] = @ \ {d}]}
              /\ Error(who, 400, "invalid_csv_options")
              /\ UNCHANGED <<rows, faults>>
           \/ /\ docs' \in {[docs EXCEPT ![c] = @ \ {d}], [docs EXCEPT ![c] = @ \cup {d}]}
              /\ Fails(who)
              /\ UNCHANGED rows
  /\ UNCHANGED <<homes, cut>>

Purge(who, c, d) ==
  /\ disk' = disk \cup {c}
  /\ queries' = Aged(queries, c)
  /\ \/ /\ docs' = [docs EXCEPT ![c] = @ \ {d}]
        /\ Says(who, 200)
        /\ UNCHANGED faults
     \/ /\ docs' \in {docs, [docs EXCEPT ![c] = @ \ {d}]}
        /\ Fails(who)
  /\ UNCHANGED <<rows, homes, cut>>

DeleteDocument(who, c, d) ==
  Handles(who, c) /\ (Purge(who, c, d) \/ Breaks(who, 500, ""))

-----------------------------------------------------------------------------
(* Reading: nothing changes, and what is not there is empty or not found.  *)

\* list_collections, and list_tenants for the instance.
ListCatalog(who, c) ==
  /\ Handles(who, c)
  /\ \E status \in {200, 500} : Says(who, status)
  /\ UNCHANGED <<disk, docs, rows, queries, homes, cut, faults>>

\* get_collection_detail: from the catalog.
GetDetail(who, c) ==
  /\ Handles(who, c)
  /\ \E status \in {IF c \in rows THEN 200 ELSE 404, 500} : Says(who, status)
  /\ UNCHANGED <<disk, docs, rows, queries, homes, cut, faults>>

\* list_documents, list_chunks, list_query_logs.
ListCollection(who, c) ==
  /\ Handles(who, c)
  /\ \E status \in {200, 500} : Says(who, status)
  /\ UNCHANGED <<disk, docs, rows, queries, homes, cut, faults>>

\* get_document, get_chunk; get_chunk_content, whose text may be missing.
GetDocument(who, c, d) ==
  /\ Handles(who, c)
  /\ \E status \in (IF d \in docs[c] THEN {200} ELSE {}) \cup {404, 500} : Says(who, status)
  /\ UNCHANGED <<disk, docs, rows, queries, homes, cut, faults>>

-----------------------------------------------------------------------------
(* Searches and the query log.                                             *)

\* The K best of the documents here and there, in two collections or in one that
\* is asked for twice: a document in both places is found twice.
Best(here, there) ==
  LET Copies(d) == (IF d \in here THEN <<d>> ELSE <<>>) \o (IF d \in there THEN <<d>> ELSE <<>>)
      all == FlattenSeq([i \in DOMAIN Ranked |-> Copies(Ranked[i])])
  IN  SubSeq(all, 1, Min({K, Len(all)}))

\* What a search finds in a collection and, if asked, in the common one.
Hits(c, incl) == Best(docs[c], IF incl THEN docs[Common] ELSE {})

Loads(c, incl) == disk' = disk \cup {c} \cup (IF incl THEN {Common} ELSE {})

\* Ids are random: the first that is not in use stands for any.
NewId(q) ==
  /\ q \in QueryId \ InUse /\ Spent < Budget
  /\ \A r \in QueryId \ InUse : q <= r

\* The row of an id, written or replaced.
Put(rs, q, row) == [r \in DOMAIN rs \cup {q} |-> IF r = q THEN row ELSE rs[r]]

\* log_query: the row, then the home, whose failure is swallowed.  When the row
\* cannot be written there is no query (NoQuery).
Log(c, incl, hits, q) ==
  \/ q = NoQuery /\ UNCHANGED <<queries, homes, faults>>
  \/ /\ q # NoQuery /\ NewId(q)
     /\ queries' = Put(queries, q, [at |-> c, incl |-> incl, hits |-> hits])
     /\ \/ homes' = Put(homes, q, c) /\ UNCHANGED faults
        \/ Spent + 1 < Budget /\ faults' = faults + 1 /\ UNCHANGED homes

\* The id in the answer: execute_replay gives one also when it could not log.
Answered(q, of) == IF q = NoQuery /\ of # NoQuery THEN Unlogged ELSE q

\* search and its log within _do_search.  After a timeout the thread runs on: the
\* query is logged, but no one is told its id.
SearchIn(who, c, incl, of) ==
  \/ \E q \in QueryId \cup {NoQuery} :
       /\ Loads(c, incl)
       /\ Log(c, incl, Hits(c, incl), q)
       /\ \/ Finds(who, Hits(c, incl), Answered(q, of), of)
          \/ Says(who, 503)
       /\ UNCHANGED <<docs, rows, cut>>
  \/ /\ Loads(c, incl) \/ UNCHANGED disk
     /\ Says(who, 500)
     /\ UNCHANGED <<docs, rows, queries, homes, cut, faults>>

\* The search gate is full.
Overloaded(who) ==
  /\ Says(who, 503)
  /\ UNCHANGED <<disk, docs, rows, queries, homes, cut, faults>>

SearchCollection(who, c) ==
  /\ Handles(who, c)
  /\ Overloaded(who) \/ SearchIn(who, c, CommonEnabled, NoQuery)

\* Without a common collection the answer is empty.
SearchCommon(who) ==
  /\ HandlesAny(who)
  /\ IF CommonEnabled
     THEN \/ Overloaded(who)
          \/ SearchIn(who, Common, FALSE, NoQuery)
     ELSE /\ Finds(who, <<>>, NoQuery, NoQuery)
          /\ UNCHANGED <<disk, docs, rows, queries, homes, cut, faults>>

\* (mutant of HomeMismatch: an id without a home is taken for a foreign one)
HomeMismatchStrict(c, q) == q \notin DOMAIN homes \/ homes[q] # c

\* _scoped_query_home_mismatch: an id that is known to live elsewhere.
HomeMismatch(c, q) == q \in DOMAIN homes /\ homes[q] # c

\* (mutant of Found: the id alone decides)
FoundAnywhere(c, q) == q \in DOMAIN queries

Found(c, q) == ~HomeMismatch(c, q) /\ q \in LoggedIn(c)

\* get_query_log_entry_scoped, behind both routes.
GetEntry(who, c, q) ==
  /\ \/ Found(c, q) /\ Finds(who, <<>>, q, NoQuery)
     \/ ~Found(c, q) /\ Says(who, 404)
     \/ Says(who, 500)
  /\ UNCHANGED <<disk, docs, rows, queries, homes, cut, faults>>

\* (mutant of Rerun: the common collection is left out)
RerunAlone(who, c, q) == SearchIn(who, c, FALSE, q)

\* execute_replay: the search as the entry has it, in the collection it is in now.
Rerun(who, c, q) == SearchIn(who, c, queries[q].incl, q)

\* replay_query_scoped within _do_search.
Replay(who, c, q) ==
  \/ Overloaded(who)
  \/ Found(c, q) /\ Rerun(who, c, q)
  \/ /\ ~Found(c, q)
     /\ \E status \in {404, 500, 503} : Says(who, status)
     /\ UNCHANGED <<disk, docs, rows, queries, homes, cut, faults>>

GetQuery(who, c, q) == Handles(who, c) /\ GetEntry(who, c, q)
ReplayQuery(who, c, q) == Handles(who, c) /\ Replay(who, c, q)

\* The routes of the instance resolve the home first.
NoHome(who, q) ==
  /\ q \notin DOMAIN homes
  /\ \E status \in {404, 500} : Says(who, status)
  /\ UNCHANGED <<disk, docs, rows, queries, homes, cut, faults>>

AdminGetQuery(who, q) ==
  /\ HandlesAdmin(who)
  /\ \/ NoHome(who, q)
     \/ q \in DOMAIN homes /\ GetEntry(who, homes[q], q)

AdminReplay(who, q) ==
  /\ HandlesAdmin(who)
  /\ \/ NoHome(who, q)
     \/ q \in DOMAIN homes /\ Replay(who, homes[q], q)

-----------------------------------------------------------------------------

Request(who) ==
  \/ \E c \in Coll :
       \/ Refuse(who, c)
       \/ CreateCollection(who, c) \/ DeleteCollection(who, c)
       \/ \E d \in Coll : RenameCollection(who, c, d)
       \/ \E d \in DocId : IngestDocument(who, c, d) \/ DeleteDocument(who, c, d)
       \/ ListCatalog(who, c) \/ GetDetail(who, c) \/ ListCollection(who, c)
       \/ \E d \in DocId : GetDocument(who, c, d)
       \/ SearchCollection(who, c)
       \/ \E q \in QueryId : GetQuery(who, c, q) \/ ReplayQuery(who, c, q)
  \/ SearchCommon(who)
  \/ \E q \in QueryId : AdminGetQuery(who, q) \/ AdminReplay(who, q)

ApiNext == Take \/ \E who \in Who : Request(who)

ApiSpec == ApiInit /\ [][ApiNext]_apiVars

-----------------------------------------------------------------------------
(* What the API promises.                                                  *)

\* What an ingest that was refused may have cost: one document of one collection
\* of who asked, and what queries have found there.
CostsOneDocument ==
  \E c \in Coll, d \in DocId :
    /\ MayAsk(reply'.who, c)
    /\ disk' \in {disk, disk \cup {c}}
    /\ docs' \in {docs, [docs EXCEPT ![c] = @ \ {d}]}
    /\ queries' = Aged(queries, c)
    /\ UNCHANGED <<rows, homes>>

\* What a rename that was refused may have done: the whole collection is there, but
\* under a name that was free, where the homes of its queries do not point.
LeavesNewName ==
  \E c, d \in Coll :
    /\ MayAsk(reply'.who, c) /\ MayAsk(reply'.who, d)
    /\ c \in disk /\ ~Clash(d) /\ disk' = (disk \ {c}) \cup {d}
    /\ docs' = [docs EXCEPT ![d] = docs[c], ![c] = {}]
    /\ DOMAIN queries' = DOMAIN queries
    /\ \A q \in DOMAIN queries : queries'[q].at = IF q \in LoggedIn(c) THEN d ELSE queries[q].at
    /\ rows \ {c} \subseteq rows' /\ rows' \subseteq rows \cup {c, d}
    /\ UNCHANGED homes

\* A request that is answered with a client's error has no effect but in two
\* places: an ingest may have purged the old version of its document, and of
\* nothing else, before its metadata keys are refused or any ValueError is taken
\* for CSV options that do not fit; and a ValueError may end a rename after the
\* directory has moved, with all of its contents.
RejectedIsContained ==
  [][reply = NoReply /\ reply' # NoReply /\ reply'.status \in 400 .. 499 =>
       \/ UNCHANGED storeVars
       \/ reply'.code \in {"invalid_metadata_keys", "invalid_csv_options"} /\ CostsOneDocument
       \/ reply'.code = "rename_invalid" /\ LeavesNewName]_apiVars

\* The id a search or a replay has answered with finds its entry in the
\* collection the search was made in, under the name that collection has now, as
\* long as the entry is there and no rename has failed half way: also when its
\* home could not be written, and but for a replay that could not be logged.
QueryIdResolves ==
  /\ \A q \in DOMAIN queries \ cut : Found(queries[q].at, q)
  /\ reply # NoReply /\ reply.query \notin {NoQuery, Unlogged} =>
       reply.query \in DOMAIN queries /\ Found(queries[reply.query].at, reply.query)

\* While the collections a query looked into have the contents they had, its
\* replay finds what it found.
ReplayIsFaithful ==
  reply # NoReply /\ reply.status = 200 /\ reply.of # NoQuery =>
    queries[reply.of].hits \in {reply.hits, Outdated}

\* What a tenant asks for leaves the collections of the others as they are, but
\* for the common one, which a search may create on disk; and a query it is
\* shown or replays was made in a collection of its own, or is its own search of
\* the common one.
TenantsAreApart ==
  [][\A t \in Tenants : reply = NoReply /\ reply' # NoReply /\ reply'.who = t =>
       /\ \A c \in {c \in Coll : c[1] # t} :
            /\ docs'[c] = docs[c]
            /\ c \in rows' <=> c \in rows
            /\ c # Common => (c \in disk' <=> c \in disk)
            /\ LoggedIn(c) \subseteq {q \in DOMAIN queries' : queries'[q].at = c}
       /\ \A q \in {reply'.query, reply'.of} \ {NoQuery, Unlogged} :
            queries'[q].at[1] = t \/ (q \notin DOMAIN queries /\ queries'[q].at = Common)]_apiVars
=============================================================================
