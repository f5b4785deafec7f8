------------------------------ MODULE DocIndex ------------------------------
(***************************************************************************)
(* The documents of one collection: index_records and _purge_doc_locked of *)
(* pave/stores/local.py over the chunk rows of meta.db, the sidecar text   *)
(* files, and backends/faiss.py with its two files.  A document is changed *)
(* in several stores one after the other, and any step may be the last.    *)
(*                                                                         *)
(* Writers of a collection exclude each other and its readers (Access), so *)
(* there is one request at a time, and what a search sees is the state     *)
(* between requests.  The text of a chunk and the vector computed from it  *)
(* are both [rid, v]: version v of what was ingested under rid.            *)
(***************************************************************************)
EXTENDS Naturals, FiniteSets, Functions

CONSTANTS
  Doc, Rid, File, Version, None, Broken,
  DocOf,        \* the document a chunk belongs to
  FileOf,       \* _urid_to_fname: several chunks may be given the same file
  Batch,        \* bound: the sets of chunks an ingest may bring
  MaxId,        \* bound: FAISS ids handed out
  MaxFaults,    \* bound: how often something goes wrong
  Faults        \* subset of {"crash", "write", "encode", "invalid"}

Id == 0 .. (MaxId - 1)
Chunk == [rid : Rid, v : Version]
Vector == [id : Id, of : Chunk]

\* id_map.json, and the index together with these maps.
Partial(S, T) == UNION {[R -> T] : R \in SUBSET S}
Maps == [idOf : Partial(Rid, Id), ridOf : Partial(Id, Rid), next : 0 .. MaxId]
FaissBackend == [index : SUBSET Vector, idOf : Partial(Rid, Id), ridOf : Partial(Id, Rid),
                 next : 0 .. MaxId]

ASSUME DocAssumption ==
  /\ DocOf \in [Rid -> Doc] /\ FileOf \in [Rid -> File]
  /\ Batch \subseteq SUBSET Rid /\ \A rids \in Batch : IsFiniteSet(rids)
  /\ MaxId \in Nat /\ MaxFaults \in Nat
  /\ Faults \subseteq {"crash", "write", "encode", "invalid"}
  /\ {None, Broken} \cap Version = {} /\ None # Broken
  \* a file that is not there, or cannot be read, is no file that can be
  /\ None \notin FaissBackend /\ {None, Broken} \cap Maps = {}
  /\ \A vectors \in SUBSET Vector : vectors \notin {None, Broken}

VARIABLES
  rows,         \* meta.db: the version of each chunk row, or None
  text,         \* chunks/: what each sidecar file holds, or None
  mem,          \* the cached FaissBackend, or None when nothing is cached
  idxFile,      \* faiss.index: None, Broken, or the vectors in it
  mapFile,      \* id_map.json: None, Broken, or the two maps and next_id
  pc, job,      \* the next step of the request being served, and the request
  settled,      \* history: what the last request on a document promised
  gone,         \* history: chunks a purge removed, saved and not added since
  past,         \* history: what has gone wrong: "crash", "write", "torn"
  faults        \* how often something has gone wrong

files == <<idxFile, mapFile>>
history == <<settled, gone, past, faults>>
vars == <<rows, text, mem, files, pc, job, history>>

RidsOf(d) == {r \in Rid : DocOf[r] = d}

NoJob == [op |-> "none", doc |-> None, rids |-> {}, v |-> None, todo |-> {},
          ids |-> {}, added |-> FALSE]

-----------------------------------------------------------------------------
(* FaissBackend: vectors under integer ids, and the maps between ids and   *)
(* record ids.                                                             *)

NewBackend == [index |-> {}, idOf |-> << >>, ridOf |-> << >>, next |-> 0]

\* (mutant of Initialized: next_id is not read back)
InitializedFromZero ==
  IF {None, Broken} \cap {idxFile, mapFile} # {}
  THEN NewBackend
  ELSE [index |-> idxFile, idOf |-> mapFile.idOf, ridOf |-> mapFile.ridOf,
        next |-> 0]

\* initialize, and _load_or_init: unless both files are there, and can be
\* read, the collection starts with an empty index.
Initialized ==
  IF {None, Broken} \cap {idxFile, mapFile} # {}
  THEN NewBackend
  ELSE [index |-> idxFile, idOf |-> mapFile.idOf, ridOf |-> mapFile.ridOf,
        next |-> mapFile.next]

\* (mutant of Without: nothing is removed)
WithoutNone(b, rids) == b

\* delete: ids are looked up by rid; all vectors under these ids are removed.
Without(b, rids) ==
  LET ids == {b.idOf[r] : r \in rids \cap DOMAIN b.idOf}
  IN  [b EXCEPT !.index = {x \in @ : x.id \notin ids},
                !.idOf = Restrict(@, DOMAIN @ \ rids),
                !.ridOf = Restrict(@, DOMAIN @ \ ids)]

\* (mutant of NewIds: one too far)
NewIdsShifted(b, n) == (b.next + 1) .. (b.next + n)

NewIds(b, n) == b.next .. (b.next + n - 1)

\* add: a rid that has a vector is deleted first; the new vectors get the next
\* ids, in an order that does not matter.
With(b, rids, v) ==
  LET rest == Without(b, rids)
      new == NewIds(rest, Cardinality(rids))
      at == CHOOSE f \in Bijection(rids, new) : TRUE
  IN  [index |-> rest.index \cup {[id |-> at[r], of |-> [rid |-> r, v |-> v]] : r \in rids},
       idOf |-> [r \in rids \cup DOMAIN rest.idOf |->
                   IF r \in rids THEN at[r] ELSE rest.idOf[r]],
       ridOf |-> [i \in new \cup DOMAIN rest.ridOf |->
                    IF i \in new THEN CHOOSE r \in rids : at[r] = i ELSE rest.ridOf[i]],
       next |-> rest.next + Cardinality(rids)]

\* search, with a limit no smaller than the index: a vector whose id the maps
\* do not know is passed over.
Hits(b) == {[label |-> b.ridOf[x.id], of |-> x.of] : x \in {y \in b.index : y.id \in DOMAIN b.ridOf}}

\* The backend a search would use: the cached one or, if none is, a new one.
Backend == IF mem = None THEN Initialized ELSE mem

MapsOf(b) == [idOf |-> b.idOf, ridOf |-> b.ridOf, next |-> b.next]

-----------------------------------------------------------------------------
(* What a reader is shown of a document: for each of its chunks None, the  *)
(* version in which row, vector and text agree, or Broken.                 *)

\* The chunk shares its sidecar file with no other chunk.
OwnFile(r) == \A q \in Rid \ {r} : FileOf[q] # FileOf[r]

Shown(d) ==
  [r \in RidsOf(d) |->
     LET chunk == [rid |-> r, v |-> rows[r]]
     IN  CASE rows[r] = None -> None
           [] /\ rows[r] # None
              /\ [label |-> r, of |-> chunk] \in Hits(Backend)
              /\ OwnFile(r) => text[FileOf[r]] = chunk
              -> rows[r]
           [] OTHER -> Broken]

\* What the request is asked to make of its document.
Wanted == [r \in RidsOf(job.doc) |-> IF r \in job.rids THEN job.v ELSE None]

Init ==
  /\ rows = [r \in Rid |-> None]
  /\ text = [f \in File |-> None]
  /\ mem = None /\ idxFile = None /\ mapFile = None
  /\ pc = "idle" /\ job = NoJob
  /\ settled = [d \in Doc |-> None]
  /\ gone = {} /\ past = {} /\ faults = 0

-----------------------------------------------------------------------------
(* index_records and purge_doc, step by step.                              *)

Goto(step) == pc' = step

Fault(kind) ==
  /\ kind \in Faults /\ faults < MaxFaults
  /\ faults' = faults + 1

\* The cache is filled by a request or by a search.
Load ==
  /\ pc = "idle" /\ mem = None
  /\ mem' = Initialized
  /\ UNCHANGED <<rows, text, files, pc, job, history>>

Start(op, d, v, rids) ==
  /\ pc = "idle" /\ mem # None
  /\ mem.next + Cardinality(rids) <= MaxId
  /\ job' = [NoJob EXCEPT !.op = op, !.doc = d, !.rids = rids, !.v = v]
  /\ gone' = gone \ rids
  /\ Goto("purge")
  /\ UNCHANGED <<rows, text, mem, files, settled, past, faults>>

PurgeDoc(d) == Start("purge", d, None, {})
IndexRecords(d) ==
  \E v \in Version, rids \in Batch \cap SUBSET RidsOf(d) : Start("ingest", d, v, rids)

AfterPurge == IF job.op = "ingest" THEN "save" ELSE "done"

\* delete_doc: one transaction, which says what there was to delete.
PurgeRows ==
  /\ pc = "purge"
  /\ LET ids == {r \in RidsOf(job.doc) : rows[r] # None}
     IN  /\ rows' = [r \in Rid |-> IF r \in ids THEN None ELSE rows[r]]
         /\ IF ids = {}
            THEN job' = [job EXCEPT !.todo = job.rids] /\ Goto(AfterPurge)
            ELSE job' = [job EXCEPT !.ids = ids, !.todo = ids] /\ Goto("unlink")
  /\ UNCHANGED <<text, mem, files, history>>

\* The sidecars are removed; a failure to remove one is passed over.
Unlink ==
  /\ pc = "unlink"
  /\ \E r \in job.todo :
       /\ job' = [job EXCEPT !.todo = @ \ {r}]
       /\ \/ text' = [text EXCEPT ![FileOf[r]] = None] /\ UNCHANGED <<past, faults>>
          \/ Fault("write") /\ UNCHANGED text /\ past' = past \cup {"write"}
  /\ UNCHANGED <<rows, mem, files, pc, settled, gone>>

\* (mutant of DropVectors: the purge is not saved)
DropVectorsOnly ==
  /\ pc = "unlink" /\ job.todo = {}
  /\ mem' = Without(mem, job.ids)
  /\ Goto(AfterPurge)
  /\ job' = [job EXCEPT !.todo = job.rids]
  /\ gone' = gone \cup (job.ids \ job.rids)
  /\ UNCHANGED <<rows, text, files, settled, past, faults>>

DropVectors ==
  /\ pc = "unlink" /\ job.todo = {}
  /\ mem' = Without(mem, job.ids)
  /\ Goto("write_index")
  /\ UNCHANGED <<rows, text, files, job, history>>

\* flush, after a purge and after an ingest: the index and then the maps.
WriteIndex ==
  /\ pc = "write_index"
  /\ idxFile' = mem.index
  /\ Goto("write_map")
  /\ UNCHANGED <<rows, text, mem, mapFile, job, history>>

WriteMap ==
  /\ pc = "write_map"
  /\ mapFile' = MapsOf(mem)
  /\ IF job.added
     THEN Goto("done") /\ UNCHANGED <<job, gone>>
     ELSE /\ Goto(AfterPurge)
          /\ job' = [job EXCEPT !.todo = job.rids, !.ids = {}]
          /\ gone' = gone \cup (job.ids \ job.rids)
  /\ UNCHANGED <<rows, text, mem, idxFile, settled, past, faults>>

\* for r in records: _save_chunk_text
SaveText ==
  /\ pc = "save"
  /\ \E r \in job.todo :
       /\ text' = [text EXCEPT ![FileOf[r]] = [rid |-> r, v |-> job.v]]
       /\ job' = [job EXCEPT !.todo = @ \ {r}]
  /\ UNCHANGED <<rows, mem, files, pc, history>>

\* MetadataValidationError, for the document (before its first record) or for
\* a record (before its text is saved).
Refuse ==
  /\ Fault("invalid")
  /\ pc = "save" /\ (job.todo # {} \/ job.rids = {})
  /\ Goto("failed")
  /\ UNCHANGED <<rows, text, mem, files, job, settled, gone, past>>

\* upsert_chunks, unless no record was left to add.
Upsert ==
  /\ pc = "save" /\ job.todo = {}
  /\ rows' = [r \in Rid |-> IF r \in job.rids THEN job.v ELSE rows[r]]
  /\ Goto(IF job.rids = {} THEN "done" ELSE "encode")
  /\ UNCHANGED <<text, mem, files, job, history>>

AddVectors ==
  /\ pc = "encode"
  /\ mem' = With(mem, job.rids, job.v)
  /\ job' = [job EXCEPT !.added = TRUE]
  /\ Goto("write_index")
  /\ UNCHANGED <<rows, text, files, history>>

EncodeFails ==
  /\ Fault("encode")
  /\ pc = "encode"
  /\ Goto("failed")
  /\ UNCHANGED <<rows, text, mem, files, job, settled, gone, past>>

\* The lock is released and the request answered.
Finish ==
  /\ pc \in {"done", "failed"}
  /\ settled' = [settled EXCEPT ![job.doc] = IF pc = "done" THEN Wanted ELSE None]
  /\ pc' = "idle" /\ job' = NoJob
  /\ UNCHANGED <<rows, text, mem, files, gone, past, faults>>

-----------------------------------------------------------------------------
(* Leaving, and faults.                                                    *)

\* What a file may hold once its write has failed or was cut off.
CutOff(old) == {old, Broken}

\* The process has lost the backend while one of its files cannot be read.
Torn == IF Broken \in {idxFile', mapFile'} THEN {"torn"} ELSE {}

\* close, before a rename, a dump or a restore: flush, and forget the handle.
\* _flush_caches ignores a failing flush.
Close ==
  /\ pc = "idle" /\ mem # None
  /\ mem' = None
  /\ \/ /\ idxFile' = mem.index /\ mapFile' = MapsOf(mem)
        /\ UNCHANGED <<past, faults>>
     \/ /\ Fault("write")
        /\ \/ idxFile' \in CutOff(idxFile) /\ mapFile' = mapFile
           \/ idxFile' = mem.index /\ mapFile' \in CutOff(mapFile)
        /\ past' = past \cup {"write"} \cup Torn
  /\ UNCHANGED <<rows, text, pc, job, settled, gone>>

\* The disk is full, or an I/O error: the exception ends the request. SQLite
\* rolls back; a sidecar or an index file may be left cut off.
WriteFails ==
  /\ Fault("write")
  /\ \/ pc = "purge" /\ UNCHANGED <<text, files>>
     \/ pc = "save" /\ job.todo = {} /\ job.rids # {} /\ UNCHANGED <<text, files>>
     \/ /\ pc = "save"
        /\ \E r \in job.todo : text' = [text EXCEPT ![FileOf[r]] = None]
        /\ UNCHANGED files
     \/ pc = "write_index" /\ idxFile' \in CutOff(idxFile) /\ UNCHANGED <<text, mapFile>>
     \/ pc = "write_map" /\ mapFile' \in CutOff(mapFile) /\ UNCHANGED <<text, idxFile>>
  /\ Goto("failed")
  /\ past' = past \cup {"write"}
  /\ UNCHANGED <<rows, mem, job, settled, gone>>

\* The process dies, perhaps in the middle of writing a file.
Crash ==
  /\ Fault("crash") /\ mem # None
  /\ mem' = None /\ pc' = "idle" /\ job' = NoJob
  /\ idxFile' \in IF pc = "write_index" THEN CutOff(idxFile) ELSE {idxFile}
  /\ mapFile' \in IF pc = "write_map" THEN CutOff(mapFile) ELSE {mapFile}
  /\ \/ UNCHANGED text
     \/ /\ pc = "save"
        /\ \E r \in job.todo : text' = [text EXCEPT ![FileOf[r]] = None]
  /\ settled' = [d \in Doc |-> IF d = job.doc THEN None ELSE settled[d]]
  /\ past' = past \cup {"crash"} \cup Torn
  /\ UNCHANGED <<rows, gone>>

Next ==
  \/ Load \/ (\E d \in Doc : PurgeDoc(d) \/ IndexRecords(d))
  \/ PurgeRows \/ Unlink \/ DropVectors \/ WriteIndex \/ WriteMap
  \/ SaveText \/ Refuse \/ Upsert \/ AddVectors \/ EncodeFails \/ Finish
  \/ Close \/ WriteFails \/ Crash

Spec == Init /\ [][Next]_vars

-----------------------------------------------------------------------------
(* Properties.                                                             *)

\* Types of the rows, files, backend and request.
TypeOK ==
  /\ rows \in [Rid -> Version \cup {None}]
  /\ text \in [File -> Chunk \cup {None}]
  /\ mem = None \/ mem \in FaissBackend
  /\ idxFile \in {None, Broken} \/ idxFile \subseteq Vector
  /\ mapFile \in {None, Broken} \/ mapFile \in Maps
  /\ pc \in {"idle", "purge", "unlink", "save", "encode", "write_index",
             "write_map", "done", "failed"}
  /\ job \in [op : {"none", "ingest", "purge"}, doc : Doc \cup {None}, rids : SUBSET Rid,
             v : Version \cup {None}, todo : SUBSET Rid, ids : SUBSET Rid, added : BOOLEAN]
  /\ gone \subseteq Rid /\ past \subseteq {"crash", "write", "torn"}
  /\ faults \in 0 .. MaxFaults

\* What a request promised stays so until the next request on the document:
\* exactly these chunks, each with its row, its vector and its own text. Other
\* documents' requests that fail or are cut off, full disks, crashes and
\* reloads do not disturb it, as long as no cut-off index file is loaded.
SettledStaySearchable ==
  pc = "idle" /\ "torn" \notin past =>
    \A d \in Doc : settled[d] # None => Shown(d) = settled[d]

\* Without crashes and failing writes, whatever is refused or cannot be
\* encoded: a search result's row, vector and text are of the same version.
HitsAreFaithful ==
  pc = "idle" /\ past = {} =>
    \A hit \in Hits(Backend) :
      /\ hit.of = [rid |-> hit.label, v |-> rows[hit.label]]
      /\ OwnFile(hit.label) => text[FileOf[hit.label]] = hit.of

\* A chunk that was purged, and saved as purged, is not found again, whatever
\* fails, dies or is reloaded later.
PurgedIsGone ==
  pc = "idle" =>
    \A r \in gone : rows[r] = None /\ \A hit \in Hits(Backend) : hit.label # r

\* "index_records is an atomic full-doc replace": when the request ends, a
\* document that had chunks is what it was or what it was to be.
ReplaceIsAtomic ==
  /\ pc \in {"done", "failed"} /\ job.op = "ingest"
  /\ settled[job.doc] # None
  /\ \E r \in RidsOf(job.doc) : settled[job.doc][r] # None
  => Shown(job.doc) \in {settled[job.doc], Wanted}
=============================================================================
