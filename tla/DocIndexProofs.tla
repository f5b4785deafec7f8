--------------------------- MODULE DocIndexProofs ---------------------------
(***************************************************************************)
(* Proofs about DocIndex, for every set of documents, chunks, files and    *)
(* versions, for every batch, and whatever fails.                          *)
(*                                                                         *)
(* Base says how far a request is and what its rows and the backend look   *)
(* like there; the maps between rids and ids are inverse to each other     *)
(* wherever they are kept (MapsAgree).  Four invariants stand on it:       *)
(* GoneStay (no map knows a purged chunk), Progress (texts and vectors the *)
(* request has put in so far), AllSettled (a promised chunk has one id,    *)
(* the same in the cache and in both files) and Faithful (vectors against  *)
(* rows and texts while a request replaces them).                          *)
(***************************************************************************)
EXTENDS DocIndex, FunctionTheorems, FiniteSetTheorems, TLAPS

-----------------------------------------------------------------------------
(* The invariant.                                                          *)

\* The steps and the requests, as TypeOK lists them.
Step == {"idle", "purge", "unlink", "save", "encode", "write_index", "write_map",
         "done", "failed"}

JobType == [op : {"none", "ingest", "purge"}, doc : Doc \cup {None}, rids : SUBSET Rid,
            v : Version \cup {None}, todo : SUBSET Rid, ids : SUBSET Rid, added : BOOLEAN]

\* The two maps are inverse to each other, and new ids are above them.
MapsAgree(m) ==
  /\ \A r \in DOMAIN m.idOf : m.idOf[r] \in DOMAIN m.ridOf /\ m.ridOf[m.idOf[r]] = r
  /\ \A i \in DOMAIN m.ridOf :
       m.ridOf[i] \in DOMAIN m.idOf /\ m.idOf[m.ridOf[i]] = i /\ i < m.next

\* Types of what is stored, cached and remembered.
StoreType ==
  /\ rows \in [Rid -> Version \cup {None}]
  /\ text \in [File -> Chunk \cup {None}]
  /\ mem = None \/ (mem \in FaissBackend /\ MapsAgree(mem))
  /\ idxFile \in {None, Broken} \/ idxFile \subseteq Vector
  /\ mapFile \in {None, Broken} \/ (mapFile \in Maps /\ MapsAgree(mapFile))
  /\ gone \subseteq Rid /\ past \subseteq {"crash", "write", "torn"}
  /\ faults \in 0 .. MaxFaults
  /\ DOMAIN settled = Doc

\* The rows of the document are what was asked for.
RowsWanted == \A r \in RidsOf(job.doc) : rows[r] = IF r \in job.rids THEN job.v ELSE None

\* They are deleted.
RowsGone == \A r \in RidsOf(job.doc) : rows[r] = None

\* Where the request is.
Request ==
  /\ pc \in Step /\ job \in JobType
  /\ pc = "idle" => job = NoJob
  /\ pc # "idle" =>
       /\ mem # None /\ job.doc \in Doc
       /\ job.rids \cup job.ids \subseteq RidsOf(job.doc) /\ IsFiniteSet(job.rids)
       /\ \/ job.op = "ingest" /\ job.v \in Version
          \/ job.op = "purge" /\ job.rids = {}
  /\ pc \in {"purge", "unlink", "save", "encode"} => ~job.added
  /\ pc \in {"purge", "unlink", "write_index", "write_map", "save", "encode"} /\ ~job.added =>
       mem.next + Cardinality(job.rids) <= MaxId
  /\ pc \in {"save", "encode"} => job.op = "ingest"
  /\ pc = "purge" => job.ids = {}
  /\ pc = "unlink" => job.todo \subseteq job.ids
  /\ pc = "save" => job.todo \subseteq job.rids
  /\ pc \in {"unlink", "save"} \/ (pc \in {"write_index", "write_map"} /\ ~job.added) => RowsGone
  /\ pc \in {"encode", "done"} \/ (pc # "failed" /\ job.added) => RowsWanted
  /\ pc = "encode" => job.rids # {}
  /\ pc = "done" /\ ~job.added => job.rids = {}
  /\ pc \in {"write_index", "write_map"} /\ ~job.added => job.ids \cap DOMAIN mem.idOf = {}
  /\ pc = "write_map" \/ (pc = "done" /\ job.added) => idxFile = mem.index
  /\ pc = "done" /\ job.added => mapFile = MapsOf(mem)

\* The part of the invariant that everything else relies on.
Base == StoreType /\ Request

\* No map knows a chunk that is gone.
GoneStay ==
  \A r \in gone :
    /\ rows[r] = None /\ r \notin job.rids
    /\ mem # None => r \notin DOMAIN mem.idOf
    /\ mapFile \notin {None, Broken} => r \notin DOMAIN mapFile.idOf

\* The sidecar of r holds the text of its row.
TextOf(r, v) == OwnFile(r) => text[FileOf[r]] = [rid |-> r, v |-> v]

\* The texts and vectors of the request so far.
Progress ==
  /\ pc = "save" => \A r \in job.rids \ job.todo : TextOf(r, job.v)
  /\ pc = "encode" \/ job.added => \A r \in job.rids : TextOf(r, job.v)
  /\ job.added => \A r \in job.rids :
       /\ r \in DOMAIN mem.idOf
       /\ [id |-> mem.idOf[r], of |-> [rid |-> r, v |-> job.v]] \in mem.index

\* The vector of row r is under the same id wherever it is kept.
Kept(r) ==
  \E i \in Id : LET x == [id |-> i, of |-> [rid |-> r, v |-> rows[r]]] IN
    /\ mem # None => r \in DOMAIN mem.idOf /\ mem.idOf[r] = i /\ x \in mem.index
    /\ idxFile # Broken => idxFile # None /\ x \in idxFile
    /\ mapFile # Broken => mapFile # None /\ r \in DOMAIN mapFile.idOf /\ mapFile.idOf[r] = i

\* Document d holds what the last request on it promised, unless one is at work.
Settled(d) ==
  settled[d] # None /\ (pc = "idle" \/ d # job.doc) =>
    /\ settled[d] = [r \in RidsOf(d) |-> rows[r]]
    /\ \A r \in RidsOf(d) : rows[r] # None => Kept(r) /\ TextOf(r, rows[r])

\* While no cut-off file is loaded, every document does.
AllSettled ==
  "torn" \notin past =>
    /\ mem = None => Broken \notin {idxFile, mapFile}
    /\ \A d \in Doc : Settled(d)

\* A vector of the document at work is one it had before, and not removed so
\* far, or one that it gets.
MayBe(x) ==
  x.of.rid \in RidsOf(job.doc) =>
    \/ pc \in {"idle", "purge"}
    \/ pc = "unlink" /\ x.of.rid \in job.ids
    \/ job.added /\ x.of.rid \in job.rids /\ x.of.v = job.v

\* A vector agrees with its row and its text, unless its document is at work.
Agrees(x) ==
  pc \in {"idle", "purge"} \/ x.of.rid \notin RidsOf(job.doc) =>
    rows[x.of.rid] = x.of.v /\ TextOf(x.of.rid, x.of.v)

\* Without crashes and failing writes, every vector can be found and is one of
\* these.
Faithful ==
  past = {} =>
    /\ pc = "failed" => ~job.added
    /\ \A x \in Backend.index :
         /\ x.id \in DOMAIN Backend.ridOf /\ Backend.ridOf[x.id] = x.of.rid
         /\ MayBe(x) /\ Agrees(x)

-----------------------------------------------------------------------------
(* The backend.                                                            *)

\* An empty index is a backend.
LEMMA NewIsBackend ==
  /\ NewBackend \in FaissBackend /\ MapsAgree(NewBackend)
  /\ NewBackend.index = {} /\ DOMAIN NewBackend.idOf = {} /\ DOMAIN NewBackend.ridOf = {}
<1>1. /\ NewBackend.index = {} /\ NewBackend.idOf = << >> /\ NewBackend.ridOf = << >>
      /\ NewBackend.next = 0
  BY DEF NewBackend
<1>2. DOMAIN << >> = {}
  OBVIOUS
<1>3. << >> \in [{} -> Id] /\ << >> \in [{} -> Rid]
  BY <1>2
<1>4. << >> \in Partial(Rid, Id) /\ << >> \in Partial(Id, Rid)
  BY <1>3 DEF Partial
<1>5. NewBackend \in FaissBackend
  BY <1>4, DocAssumption DEF NewBackend, FaissBackend
<1> QED
  BY <1>1, <1>2, <1>5 DEF MapsAgree

\* Domains and values of the two maps.
LEMMA PartialType ==
  ASSUME NEW S, NEW T, NEW f \in Partial(S, T)
  PROVE  DOMAIN f \subseteq S /\ f \in [DOMAIN f -> T] /\ \A x \in DOMAIN f : f[x] \in T
BY DEF Partial

\* A function on some of S with values in T.
LEMMA PartialIntro ==
  ASSUME NEW S, NEW T, NEW R \in SUBSET S, NEW f \in [R -> T]
  PROVE  f \in Partial(S, T)
BY DEF Partial

\* The ids of the vectors of some chunks.
IdsOf(b, rids) == {b.idOf[r] : r \in rids \cap DOMAIN b.idOf}

\* What a delete takes out of a backend, and what it leaves.
LEMMA WithoutType ==
  ASSUME NEW b \in FaissBackend, MapsAgree(b), NEW rids \in SUBSET Rid
  PROVE  /\ Without(b, rids) \in FaissBackend /\ MapsAgree(Without(b, rids))
         /\ Without(b, rids).next = b.next
         /\ Without(b, rids).index = {x \in b.index : x.id \notin IdsOf(b, rids)}
         /\ DOMAIN Without(b, rids).idOf = DOMAIN b.idOf \ rids
         /\ \A r \in DOMAIN b.idOf \ rids :
              Without(b, rids).idOf[r] = b.idOf[r] /\ b.idOf[r] \notin IdsOf(b, rids)
         /\ DOMAIN Without(b, rids).ridOf = DOMAIN b.ridOf \ IdsOf(b, rids)
         /\ \A i \in DOMAIN b.ridOf \ IdsOf(b, rids) :
              Without(b, rids).ridOf[i] = b.ridOf[i] /\ b.ridOf[i] \notin rids
<1> DEFINE w == Without(b, rids)
           ids == IdsOf(b, rids)
<1>1. /\ b.idOf \in Partial(Rid, Id) /\ b.ridOf \in Partial(Id, Rid) /\ b.index \subseteq Vector
      /\ b.next \in 0 .. MaxId
      /\ b = [index |-> b.index, idOf |-> b.idOf, ridOf |-> b.ridOf, next |-> b.next]
  BY DEF FaissBackend
<1>2. w = [index |-> {x \in b.index : x.id \notin ids},
           idOf |-> [r \in DOMAIN b.idOf \ rids |-> b.idOf[r]],
           ridOf |-> [i \in DOMAIN b.ridOf \ ids |-> b.ridOf[i]],
           next |-> b.next]
  <2>1. w = [b EXCEPT !.index = {x \in @ : x.id \notin ids},
                      !.idOf = [r \in DOMAIN @ \ rids |-> @[r]],
                      !.ridOf = [i \in DOMAIN @ \ ids |-> @[i]]]
    BY DEF Without, Restrict, IdsOf
  <2> HIDE DEF w, ids
  <2> QED
    BY <1>1, <2>1
<1>3. /\ w.index = {x \in b.index : x.id \notin ids} /\ w.next = b.next
      /\ w.idOf = [r \in DOMAIN b.idOf \ rids |-> b.idOf[r]]
      /\ w.ridOf = [i \in DOMAIN b.ridOf \ ids |-> b.ridOf[i]]
  BY <1>2
<1>4. w.idOf \in Partial(Rid, Id) /\ w.ridOf \in Partial(Id, Rid)
  <2>1. DOMAIN b.idOf \ rids \in SUBSET Rid /\ DOMAIN b.ridOf \ ids \in SUBSET Id
    BY <1>1, PartialType
  <2>2. w.idOf \in [DOMAIN b.idOf \ rids -> Id] /\ w.ridOf \in [DOMAIN b.ridOf \ ids -> Rid]
    BY <1>1, <1>3, PartialType
  <2> QED
    BY <2>1, <2>2, PartialIntro
<1>5. w \in FaissBackend
  BY <1>1, <1>2, <1>4 DEF FaissBackend
<1>6. ASSUME NEW r \in DOMAIN b.idOf \ rids PROVE b.idOf[r] \notin ids
  BY DEF MapsAgree, IdsOf
<1>7. ASSUME NEW i \in DOMAIN b.ridOf \ ids PROVE b.ridOf[i] \notin rids
  BY DEF MapsAgree, IdsOf
<1>8. MapsAgree(w)
  BY <1>3, <1>6, <1>7 DEF MapsAgree
<1> QED
  BY <1>3, <1>5, <1>6, <1>7, <1>8

\* What an add leaves of a backend, and what it puts in.
LEMMA WithTypeOf ==
  ASSUME NEW b \in FaissBackend, MapsAgree(b), NEW rids \in SUBSET Rid, IsFiniteSet(rids),
         NEW v \in Version, b.next + Cardinality(rids) <= MaxId,
         NEW w, w = With(b, rids, v)
  PROVE  /\ w \in FaissBackend /\ MapsAgree(w)
         /\ DOMAIN w.idOf = rids \cup DOMAIN b.idOf
         /\ \A r \in rids : [id |-> w.idOf[r], of |-> [rid |-> r, v |-> v]] \in w.index
         /\ \A r \in DOMAIN b.idOf \ rids :
              /\ w.idOf[r] = b.idOf[r]
              /\ \A x \in b.index : x.id = b.idOf[r] => x \in w.index
         /\ \A x \in w.index :
              \/ x.of.rid \in rids /\ x.of.v = v
                 /\ x.id \in DOMAIN w.ridOf /\ w.ridOf[x.id] = x.of.rid
              \/ x \in b.index
                 /\ (x.id \in DOMAIN b.ridOf => /\ b.ridOf[x.id] \notin rids
                                                /\ x.id \in DOMAIN w.ridOf
                                                /\ w.ridOf[x.id] = b.ridOf[x.id])
<1> DEFINE rest == Without(b, rids)
           ids == IdsOf(b, rids)
           n == Cardinality(rids)
           new == NewIds(rest, n)
           at == CHOOSE f \in Bijection(rids, new) : TRUE
<1>1. /\ rest \in FaissBackend /\ MapsAgree(rest) /\ rest.next = b.next
      /\ rest.index = {x \in b.index : x.id \notin ids}
      /\ DOMAIN rest.idOf = DOMAIN b.idOf \ rids
      /\ \A r \in DOMAIN b.idOf \ rids : rest.idOf[r] = b.idOf[r] /\ b.idOf[r] \notin ids
      /\ DOMAIN rest.ridOf = DOMAIN b.ridOf \ ids
      /\ \A i \in DOMAIN b.ridOf \ ids : rest.ridOf[i] = b.ridOf[i] /\ b.ridOf[i] \notin rids
  BY WithoutType
<1> HIDE DEF ids
<1>2. n \in Nat /\ b.next \in 0 .. MaxId /\ MaxId \in Nat
  BY FS_CardinalityType, DocAssumption DEF FaissBackend
<1>3. new = b.next .. (b.next + n - 1) /\ new \subseteq Id
  BY <1>1, <1>2 DEF NewIds, Id
<1>4. at \in Bijection(rids, new)
  <2>1. IsFiniteSet(new) /\ Cardinality(new) = n
    <3> HIDE DEF new, n
    <3>1. PICK a \in Int, z \in Int : a = b.next /\ z = b.next + n - 1
      BY <1>2
    <3>2. IsFiniteSet(a .. z) /\ Cardinality(a .. z) = IF a > z THEN 0 ELSE z - a + 1
      BY FS_Interval
    <3>3. new = a .. z /\ (IF a > z THEN 0 ELSE z - a + 1) = n
      BY <1>2, <1>3, <3>1
    <3> QED
      BY <3>2, <3>3
  <2>2. ExistsBijection(rids, new)
    BY <2>1, FS_SameCardinalityBij
  <2> QED
    BY <2>2 DEF ExistsBijection
<1>5. /\ at \in [rids -> new]
      /\ \A r, q \in rids : at[r] = at[q] => r = q
      /\ \A i \in new : \E r \in rids : at[r] = i
  BY <1>4 DEF Bijection, Injection, Surjection, IsInjective
<1> DEFINE of == [i \in new |-> CHOOSE r \in rids : at[r] = i]
<1>6. \A i \in new : of[i] \in rids /\ at[of[i]] = i
  BY <1>5
<1>7. \A r \in rids : at[r] \in new /\ of[at[r]] = r
  BY <1>5, <1>6
<1>8. /\ w.index = rest.index \cup {[id |-> at[r], of |-> [rid |-> r, v |-> v]] : r \in rids}
      /\ w.idOf = [r \in rids \cup DOMAIN rest.idOf |->
                     IF r \in rids THEN at[r] ELSE rest.idOf[r]]
      /\ w.ridOf = [i \in new \cup DOMAIN rest.ridOf |->
                      IF i \in new THEN of[i] ELSE rest.ridOf[i]]
      /\ w.next = b.next + n
      /\ w = [index |-> w.index, idOf |-> w.idOf, ridOf |-> w.ridOf, next |-> w.next]
  BY <1>1 DEF With
<1> HIDE DEF rest
<1> HIDE DEF n, new, at, of
<1>9. \A i \in DOMAIN rest.ridOf : i \notin new /\ i < b.next
  BY <1>1, <1>2, <1>3 DEF MapsAgree, FaissBackend, Id
<1>10. /\ rest.idOf \in Partial(Rid, Id) /\ rest.ridOf \in Partial(Id, Rid)
       /\ rest.index \subseteq Vector
  BY <1>1 DEF FaissBackend
<1>11. w \in FaissBackend
  <2>1. w.index \subseteq Vector
    BY <1>3, <1>5, <1>8, <1>10 DEF Vector, Chunk
  <2>2. w.idOf \in Partial(Rid, Id)
    <3>1. w.idOf \in [rids \cup DOMAIN rest.idOf -> Id]
      BY <1>3, <1>5, <1>8, <1>10, PartialType
    <3>2. rids \cup DOMAIN rest.idOf \in SUBSET Rid
      BY <1>10, PartialType
    <3> QED
      BY <3>1, <3>2, PartialIntro
  <2>3. w.ridOf \in Partial(Id, Rid)
    <3>1. w.ridOf \in [new \cup DOMAIN rest.ridOf -> Rid]
      BY <1>6, <1>8, <1>10, PartialType
    <3>2. new \cup DOMAIN rest.ridOf \in SUBSET Id
      BY <1>3, <1>10, PartialType
    <3> QED
      BY <3>1, <3>2, PartialIntro
  <2>4. w.next \in 0 .. MaxId
    BY <1>2, <1>8 DEF n
  <2> QED
    BY <1>8, <2>1, <2>2, <2>3, <2>4 DEF FaissBackend
<1>12. MapsAgree(w)
  <2>1. ASSUME NEW r \in DOMAIN w.idOf
        PROVE  w.idOf[r] \in DOMAIN w.ridOf /\ w.ridOf[w.idOf[r]] = r
    <3>1. CASE r \in rids
      BY <1>7, <1>8, <3>1
    <3>2. CASE r \notin rids
      <4>1. r \in DOMAIN rest.idOf /\ w.idOf[r] = rest.idOf[r]
        BY <1>8, <2>1, <3>2
      <4>2. rest.idOf[r] \in DOMAIN rest.ridOf /\ rest.ridOf[rest.idOf[r]] = r
        BY <1>1, <4>1 DEF MapsAgree
      <4> QED
        BY <1>8, <1>9, <4>1, <4>2
    <3> QED
      BY <3>1, <3>2
  <2>2. ASSUME NEW i \in DOMAIN w.ridOf
        PROVE  w.ridOf[i] \in DOMAIN w.idOf /\ w.idOf[w.ridOf[i]] = i /\ i < w.next
    <3>1. CASE i \in new
      <4>1. w.ridOf[i] \in rids /\ at[w.ridOf[i]] = i
        BY <1>6, <1>8, <3>1
      <4>2. i < w.next
        BY <1>2, <1>3, <1>8, <3>1 DEF n
      <4> QED
        BY <1>8, <4>1, <4>2
    <3>2. CASE i \notin new
      <4>1. i \in DOMAIN rest.ridOf /\ w.ridOf[i] = rest.ridOf[i]
        BY <1>8, <2>2, <3>2
      <4>2. /\ rest.ridOf[i] \in DOMAIN rest.idOf /\ rest.idOf[rest.ridOf[i]] = i /\ i < b.next
        BY <1>1, <1>9, <4>1 DEF MapsAgree
      <4>3. rest.ridOf[i] \notin rids
        BY <1>1, <4>2
      <4>4. i < w.next
        <5>1. i \in Int
          BY <1>2, <1>10, <4>1, PartialType DEF Id
        <5> QED
          BY <1>2, <1>8, <4>2, <5>1 DEF n
      <4> QED
        BY <1>8, <4>1, <4>2, <4>3, <4>4
    <3> QED
      BY <3>1, <3>2
  <2> QED
    BY <2>1, <2>2 DEF MapsAgree
<1>13. DOMAIN w.idOf = rids \cup DOMAIN b.idOf
  BY <1>1, <1>8
<1>14. \A r \in rids : [id |-> w.idOf[r], of |-> [rid |-> r, v |-> v]] \in w.index
  BY <1>8
<1>15. ASSUME NEW r \in DOMAIN b.idOf \ rids
       PROVE  /\ w.idOf[r] = b.idOf[r]
              /\ \A x \in b.index : x.id = b.idOf[r] => x \in w.index
  BY <1>1, <1>8
<1>16. ASSUME NEW x \in w.index
       PROVE  \/ x.of.rid \in rids /\ x.of.v = v
                 /\ x.id \in DOMAIN w.ridOf /\ w.ridOf[x.id] = x.of.rid
              \/ x \in b.index
                 /\ (x.id \in DOMAIN b.ridOf => /\ b.ridOf[x.id] \notin rids
                                                /\ x.id \in DOMAIN w.ridOf
                                                /\ w.ridOf[x.id] = b.ridOf[x.id])
  <2>1. CASE x \in rest.index
    <3>1. x \in b.index /\ x.id \notin ids
      BY <1>1, <2>1
    <3>2. ASSUME x.id \in DOMAIN b.ridOf
          PROVE  /\ b.ridOf[x.id] \notin rids /\ x.id \in DOMAIN w.ridOf
                 /\ w.ridOf[x.id] = b.ridOf[x.id]
      <4>1. x.id \in DOMAIN rest.ridOf /\ rest.ridOf[x.id] = b.ridOf[x.id]
            /\ b.ridOf[x.id] \notin rids
        BY <1>1, <3>1, <3>2
      <4> QED
        BY <1>8, <1>9, <4>1
    <3> QED
      BY <3>1, <3>2
  <2>2. CASE x \notin rest.index
    <3>1. PICK r \in rids : x = [id |-> at[r], of |-> [rid |-> r, v |-> v]]
      BY <1>8, <2>2
    <3> QED
      BY <1>7, <1>8, <3>1
  <2> QED
    BY <2>1, <2>2
<1> QED
  BY <1>11, <1>12, <1>13, <1>14, <1>15, <1>16

\* What is loaded from the two files is a backend.
LEMMA LoadedType ==
  ASSUME StoreType
  PROVE  /\ Initialized \in FaissBackend /\ MapsAgree(Initialized)
         /\ {None, Broken} \cap {idxFile, mapFile} = {} =>
              /\ Initialized.index = idxFile /\ Initialized.idOf = mapFile.idOf
              /\ Initialized.ridOf = mapFile.ridOf
<1>1. CASE {None, Broken} \cap {idxFile, mapFile} # {}
  BY <1>1, NewIsBackend DEF Initialized
<1>2. CASE {None, Broken} \cap {idxFile, mapFile} = {}
  BY <1>2 DEF Initialized, StoreType, Maps, FaissBackend, MapsAgree
<1> QED
  BY <1>1, <1>2

\* The maps of a backend.
LEMMA MapsOfType ==
  ASSUME NEW b \in FaissBackend, MapsAgree(b)
  PROVE  /\ MapsOf(b) \in Maps /\ MapsAgree(MapsOf(b)) /\ MapsOf(b).idOf = b.idOf
         /\ MapsOf(b) \notin {None, Broken}
         /\ b.index \subseteq Vector /\ b.index \notin {None, Broken} /\ b # None
<1>1. MapsOf(b) \in Maps
  BY DEF MapsOf, Maps, FaissBackend
<1>2. MapsAgree(MapsOf(b)) /\ MapsOf(b).idOf = b.idOf
  BY DEF MapsAgree, MapsOf
<1> QED
  BY <1>1, <1>2, DocAssumption DEF FaissBackend

-----------------------------------------------------------------------------
(* Types and the progress of a request.                                    *)

\* The types of a request and of what a step of it may rely on.
LEMMA AtWork ==
  ASSUME Base, pc # "idle"
  PROVE  /\ mem \in FaissBackend /\ MapsAgree(mem)
         /\ job \in JobType /\ job.doc \in Doc /\ job.rids \in SUBSET Rid /\ job.ids \in SUBSET Rid
         /\ job.rids \subseteq RidsOf(job.doc) /\ job.ids \subseteq RidsOf(job.doc)
         /\ job.todo \subseteq Rid
BY DEF Base, StoreType, Request, JobType

\* A backend is loaded where none is cached.
LEMMA LoadBase == ASSUME Base, Load PROVE Base'
<1>1. mem' \in FaissBackend /\ MapsAgree(mem)'
  BY LoadedType DEF Load, Base
<1>2. StoreType'
  BY <1>1 DEF Load, Base, StoreType, files, history, MapsAgree
<1>3. Request'
  <2>1. /\ pc' = "idle" /\ job' = NoJob /\ NoJob.added = FALSE /\ NoJob \in JobType
        /\ pc' \in Step
    BY DEF Load, Base, Request, NoJob
  <2> QED
    BY <2>1 DEF Request
<1> QED
  BY <1>2, <1>3 DEF Base

\* A request begins.
LEMMA StartBase ==
  ASSUME Base, NEW d \in Doc, PurgeDoc(d) \/ IndexRecords(d) PROVE Base'
<1>1. PICK op \in {"ingest", "purge"}, v \in Version \cup {None}, rids \in SUBSET RidsOf(d) :
        /\ Start(op, d, v, rids) /\ IsFiniteSet(rids)
        /\ (op = "ingest" /\ v \in Version) \/ (op = "purge" /\ rids = {})
  <2>1. CASE PurgeDoc(d)
    BY <2>1, FS_EmptySet DEF PurgeDoc
  <2>2. CASE IndexRecords(d)
    BY <2>2, DocAssumption DEF IndexRecords
  <2> QED
    BY <2>1, <2>2
<1>2. /\ pc = "idle" /\ pc' = "purge" /\ mem # None
      /\ mem.next + Cardinality(rids) <= MaxId
      /\ job' = [NoJob EXCEPT !.op = op, !.doc = d, !.rids = rids, !.v = v]
      /\ gone' = gone \ rids
      /\ UNCHANGED <<rows, text, mem, files, settled, past, faults>>
  BY <1>1 DEF Start, Goto
<1>3. /\ job' = [op |-> op, doc |-> d, rids |-> rids, v |-> v, todo |-> {}, ids |-> {},
                 added |-> FALSE]
      /\ rids \subseteq Rid
  BY <1>2 DEF NoJob, RidsOf
<1>4. StoreType'
  BY <1>2 DEF Base, StoreType, files, MapsAgree
<1>5. Request'
  <2>1. /\ job' \in JobType /\ job'.rids = rids /\ job'.ids = {} /\ job'.doc = d
        /\ job'.op = op /\ job'.v = v /\ job'.added = FALSE
    BY <1>3 DEF JobType
  <2>2. mem'.next = mem.next /\ mem' # None
    BY <1>2
  <2>3. pc' \in Step
    BY <1>2 DEF Step
  <2> QED
    BY <1>1, <1>2, <2>1, <2>2, <2>3 DEF Request
<1> QED
  BY <1>4, <1>5 DEF Base

\* The rows of the document are deleted.
LEMMA PurgeRowsBase == ASSUME Base, PurgeRows PROVE Base'
<1> DEFINE ids == {r \in RidsOf(job.doc) : rows[r] # None}
<1>1. /\ pc = "purge" /\ rows' = [r \in Rid |-> IF r \in ids THEN None ELSE rows[r]]
      /\ UNCHANGED <<text, mem, files, history>>
      /\ \/ /\ ids = {} /\ job' = [job EXCEPT !.todo = job.rids]
            /\ pc' = IF job.op = "ingest" THEN "save" ELSE "done"
         \/ /\ job' = [job EXCEPT !.ids = ids, !.todo = ids] /\ pc' = "unlink"
  BY DEF PurgeRows, Goto, AfterPurge
<1>2. StoreType'
  BY <1>1 DEF Base, StoreType, files, history, MapsAgree
<1>3. \A r \in RidsOf(job.doc) : rows'[r] = None
  BY <1>1 DEF RidsOf
<1>4. ids \subseteq RidsOf(job.doc) /\ ids \subseteq Rid
  BY DEF RidsOf
<1> HIDE DEF ids
<1>5. CASE /\ job' = [job EXCEPT !.todo = job.rids]
           /\ pc' = IF job.op = "ingest" THEN "save" ELSE "done"
  <2>1. /\ job' \in JobType /\ job'.rids = job.rids /\ job'.ids = job.ids /\ job'.doc = job.doc
        /\ job'.op = job.op /\ job'.v = job.v /\ job'.todo = job.rids /\ job'.added = job.added
    BY <1>1, <1>5, AtWork DEF JobType
  <2> QED
    BY <1>1, <1>2, <1>3, <1>5, <2>1 DEF Base, Request, Step, RowsGone, RowsWanted
<1>6. CASE job' = [job EXCEPT !.ids = ids, !.todo = ids] /\ pc' = "unlink"
  <2>1. /\ job' \in JobType /\ job'.rids = job.rids /\ job'.ids = ids /\ job'.doc = job.doc
        /\ job'.op = job.op /\ job'.v = job.v /\ job'.todo = ids /\ job'.added = job.added
    BY <1>1, <1>4, <1>6, AtWork DEF JobType
  <2> QED
    BY <1>1, <1>2, <1>3, <1>4, <1>6, <2>1 DEF Base, Request, Step, RowsGone
<1> QED
  BY <1>1, <1>5, <1>6

\* Sidecars are removed, and a text is saved.
LEMMA TextBase == ASSUME Base, Unlink \/ SaveText PROVE Base'
<1>1. PICK r \in job.todo : job' = [job EXCEPT !.todo = @ \ {r}]
  BY DEF Unlink, SaveText
<1>2. /\ pc \in {"unlink", "save"} /\ pc' = pc
      /\ UNCHANGED <<rows, mem, files, settled, gone>>
      /\ past' \in {past, past \cup {"write"}} /\ (faults' = faults \/ faults' \in 0 .. MaxFaults)
  <2>1. CASE SaveText
    BY <2>1 DEF SaveText, history
  <2>2. CASE Unlink
    <3>1. faults' = faults \/ (faults' = faults + 1 /\ faults < MaxFaults)
      BY <2>2 DEF Unlink, Fault
    <3>2. faults' \in 0 .. MaxFaults
      BY <3>1, DocAssumption DEF Base, StoreType
    <3> QED
      BY <2>2, <3>2 DEF Unlink
  <2> QED
    BY <2>1, <2>2
<1>3. text' \in [File -> Chunk \cup {None}]
  <2>1. text \in [File -> Chunk \cup {None}] /\ r \in Rid
    BY <1>2, AtWork DEF Base, StoreType
  <2>2. CASE SaveText
    <3>1. job.v \in Version /\ r \in Rid
      BY <1>2, <2>1, <2>2 DEF SaveText, Base, Request
    <3>2. PICK q \in job.todo : text' = [text EXCEPT ![FileOf[q]] = [rid |-> q, v |-> job.v]]
      BY <2>2 DEF SaveText
    <3>3. q \in Rid
      BY <1>2, AtWork
    <3> QED
      BY <2>1, <3>1, <3>2, <3>3 DEF Chunk
  <2>3. CASE Unlink
    BY <2>1, <2>3 DEF Unlink
  <2> QED
    BY <2>2, <2>3
<1>4. StoreType'
  BY <1>2, <1>3 DEF Base, StoreType, files, MapsAgree
<1>5. /\ job' \in JobType /\ job'.rids = job.rids /\ job'.ids = job.ids /\ job'.doc = job.doc
      /\ job'.op = job.op /\ job'.v = job.v /\ job'.todo = job.todo \ {r} /\ job'.added = job.added
  BY <1>1, <1>2, AtWork DEF JobType
<1>6. Request'
  BY <1>2, <1>5 DEF Base, Request, RowsGone
<1> QED
  BY <1>4, <1>6 DEF Base

\* Vectors are removed from the index, or added.
LEMMA VectorsBase == ASSUME Base, DropVectors \/ AddVectors PROVE Base'
<1>1. /\ pc \in {"unlink", "encode"} /\ pc' = "write_index"
      /\ UNCHANGED <<rows, text, files, history>>
  BY DEF DropVectors, AddVectors, Goto
<1>2. mem \in FaissBackend /\ MapsAgree(mem)
  BY <1>1, AtWork
<1>3. CASE DropVectors
  <2>1. pc = "unlink" /\ mem' = Without(mem, job.ids) /\ job' = job
    BY <1>3 DEF DropVectors
  <2>2. /\ mem' \in FaissBackend /\ MapsAgree(mem)' /\ mem'.next = mem.next
        /\ DOMAIN mem'.idOf = DOMAIN mem.idOf \ job.ids
    BY <1>1, <1>2, <2>1, AtWork, WithoutType
  <2>3. mem' # None
    BY <2>2, MapsOfType
  <2>4. StoreType'
    BY <1>1, <2>2 DEF Base, StoreType, files, history, MapsAgree
  <2>5. Request'
    BY <1>1, <2>1, <2>2, <2>3 DEF Base, Request, Step, RowsGone
  <2> QED
    BY <2>4, <2>5 DEF Base
<1>4. CASE AddVectors
  <2>1. /\ pc = "encode" /\ mem' = With(mem, job.rids, job.v)
        /\ job' = [job EXCEPT !.added = TRUE]
    BY <1>4 DEF AddVectors
  <2>2. /\ job.v \in Version /\ IsFiniteSet(job.rids) /\ job.rids \in SUBSET Rid
        /\ mem.next + Cardinality(job.rids) <= MaxId
    BY <2>1, AtWork DEF Base, Request
  <2>3. mem' \in FaissBackend /\ MapsAgree(mem)'
    BY <1>2, <2>1, <2>2, WithTypeOf
  <2>4. mem' # None
    BY <2>3, MapsOfType
  <2>5. StoreType'
    BY <1>1, <2>3 DEF Base, StoreType, files, history, MapsAgree
  <2>6. /\ job' \in JobType /\ job'.rids = job.rids /\ job'.ids = job.ids /\ job'.doc = job.doc
        /\ job'.op = job.op /\ job'.v = job.v /\ job'.todo = job.todo /\ job'.added = TRUE
    BY <1>1, <2>1, AtWork DEF JobType
  <2>7. RowsWanted'
    BY <1>1, <2>1, <2>6 DEF Base, Request, RowsWanted
  <2>8. Request'
    BY <1>1, <2>1, <2>4, <2>6, <2>7 DEF Base, Request, Step
  <2> QED
    BY <2>5, <2>8 DEF Base
<1> QED
  BY <1>3, <1>4

\* The index file and the map file are written.
LEMMA FlushBase == ASSUME Base, WriteIndex \/ WriteMap PROVE Base'
<1>1. pc \in {"write_index", "write_map"} /\ UNCHANGED <<rows, text, mem, settled, past, faults>>
  BY DEF WriteIndex, WriteMap, history
<1>2. mem \in FaissBackend /\ MapsAgree(mem)
  BY <1>1, AtWork
<1>3. /\ mem.index \subseteq Vector
      /\ MapsOf(mem) \in Maps /\ MapsAgree(MapsOf(mem))
  BY <1>2, MapsOfType
<1>4. CASE WriteIndex
  <2>1. /\ pc = "write_index" /\ idxFile' = mem.index /\ pc' = "write_map"
        /\ UNCHANGED <<mapFile, job, gone>>
    BY <1>4 DEF WriteIndex, Goto, history
  <2>2. StoreType'
    BY <1>1, <1>3, <2>1 DEF Base, StoreType, MapsAgree
  <2>3. Request'
    BY <1>1, <2>1 DEF Base, Request, Step, RowsGone, RowsWanted
  <2> QED
    BY <2>2, <2>3 DEF Base
<1>5. CASE WriteMap
  <2>1. /\ pc = "write_map" /\ mapFile' = MapsOf(mem) /\ idxFile' = idxFile
    BY <1>5 DEF WriteMap
  <2>2. MapsAgree(mapFile')
    BY <1>3, <2>1
  <2>3. MapsAgree(mapFile)'
    BY <2>2 DEF MapsAgree
  <2>4. CASE job.added /\ pc' = "done" /\ UNCHANGED <<job, gone>>
    <3>1. StoreType'
      BY <1>1, <1>3, <2>1, <2>3, <2>4 DEF Base, StoreType, MapsAgree
    <3>2. Request'
      BY <1>1, <2>1, <2>4 DEF Base, Request, Step, RowsWanted, MapsOf
    <3> QED
      BY <3>1, <3>2 DEF Base
  <2>5. CASE /\ ~job.added /\ pc' = IF job.op = "ingest" THEN "save" ELSE "done"
             /\ job' = [job EXCEPT !.todo = job.rids, !.ids = {}]
             /\ gone' = gone \cup (job.ids \ job.rids)
    <3>1. /\ job' \in JobType /\ job'.rids = job.rids /\ job'.ids = {} /\ job'.doc = job.doc
          /\ job'.op = job.op /\ job'.v = job.v /\ job'.todo = job.rids /\ job'.added = FALSE
      BY <1>1, <2>5, AtWork DEF JobType
    <3>2. StoreType'
      BY <1>1, <1>3, <2>1, <2>3, <2>5, AtWork DEF Base, StoreType, MapsAgree
    <3>3. RowsGone'
      BY <1>1, <2>1, <2>5, <3>1 DEF Base, Request, RowsGone
    <3>4. job.op = "ingest" \/ (job.op = "purge" /\ job.rids = {})
      BY <2>1 DEF Base, Request
    <3>5. Request'
      BY <1>1, <2>1, <2>5, <3>1, <3>3, <3>4 DEF Base, Request, Step, RowsGone, RowsWanted
    <3> QED
      BY <3>2, <3>5 DEF Base
  <2> QED
    BY <1>5, <2>4, <2>5 DEF WriteMap, Goto, AfterPurge
<1> QED
  BY <1>4, <1>5

\* A request is refused, or its texts cannot be encoded.
LEMMA RefusedBase == ASSUME Base, Refuse \/ EncodeFails PROVE Base'
<1>1. /\ pc \in {"save", "encode"} /\ pc' = "failed"
      /\ faults < MaxFaults /\ faults' = faults + 1
      /\ UNCHANGED <<rows, text, mem, files, job, settled, gone, past>>
  BY DEF Refuse, EncodeFails, Fault, Goto
<1>2. faults' \in 0 .. MaxFaults
  BY <1>1, DocAssumption DEF Base, StoreType
<1>3. StoreType'
  BY <1>1, <1>2 DEF Base, StoreType, files, MapsAgree
<1>4. Request'
  BY <1>1 DEF Base, Request, Step
<1> QED
  BY <1>3, <1>4 DEF Base

\* The rows are written.
LEMMA UpsertBase == ASSUME Base, Upsert PROVE Base'
<1>1. /\ pc = "save" /\ rows' = [r \in Rid |-> IF r \in job.rids THEN job.v ELSE rows[r]]
      /\ pc' = (IF job.rids = {} THEN "done" ELSE "encode")
      /\ UNCHANGED <<text, mem, files, job, history>>
  BY DEF Upsert, Goto
<1>2. job.op = "ingest" /\ job.v \in Version /\ RowsGone /\ ~job.added
  BY <1>1 DEF Base, Request
<1>3. StoreType'
  BY <1>1, <1>2 DEF Base, StoreType, files, history, MapsAgree
<1>4. RowsWanted'
  <2>1. \A r \in RidsOf(job.doc) : rows'[r] = IF r \in job.rids THEN job.v ELSE None
    BY <1>1, <1>2 DEF RowsGone, RidsOf
  <2> QED
    BY <1>1, <2>1 DEF RowsWanted
<1>5. Request'
  BY <1>1, <1>2, <1>4 DEF Base, Request, Step
<1> QED
  BY <1>3, <1>5 DEF Base

\* No request is at work.
LEMMA IdleRequest == ASSUME pc' = "idle", job' = NoJob PROVE Request'
<1>1. NoJob \in JobType /\ NoJob.added = FALSE
  BY DEF NoJob, JobType
<1> QED
  BY <1>1 DEF Request, Step

\* The request is over.
LEMMA FinishBase == ASSUME Base, Finish PROVE Base'
<1>1. /\ pc' = "idle" /\ job' = NoJob /\ DOMAIN settled' = DOMAIN settled
      /\ UNCHANGED <<rows, text, mem, files, gone, past, faults>>
  BY DEF Finish
<1>2. StoreType'
  BY <1>1 DEF Base, StoreType, files, MapsAgree
<1>3. Request'
  BY <1>1, IdleRequest
<1> QED
  BY <1>2, <1>3 DEF Base

\* A backend is closed.
LEMMA CloseBase == ASSUME Base, Close PROVE Base'
<1>1. /\ pc = "idle" /\ mem' = None /\ UNCHANGED <<rows, text, pc, job, settled, gone>>
      /\ faults' = faults \/ (faults' = faults + 1 /\ faults < MaxFaults)
      /\ past' \subseteq past \cup {"write", "torn"}
      /\ idxFile' \in {idxFile, Broken, mem.index}
      /\ mapFile' \in {mapFile, Broken, MapsOf(mem)}
  BY DEF Close, CutOff, Torn, Fault
<1>2. mem \in FaissBackend /\ MapsAgree(mem)
  BY DEF Close, Base, StoreType
<1>3. faults' \in 0 .. MaxFaults
  BY <1>1, DocAssumption DEF Base, StoreType
<1>4. idxFile' \in {None, Broken} \/ idxFile' \subseteq Vector
  BY <1>1, <1>2, MapsOfType DEF Base, StoreType
<1>5. mapFile' \in {None, Broken} \/ (mapFile' \in Maps /\ MapsAgree(mapFile'))
  <2>1. CASE mapFile' = mapFile
    BY <2>1 DEF Base, StoreType, MapsAgree
  <2>2. CASE mapFile' = MapsOf(mem)
    BY <1>2, <2>2, MapsOfType
  <2> QED
    BY <1>1, <2>1, <2>2
<1>6. StoreType'
  BY <1>1, <1>3, <1>4, <1>5 DEF Base, StoreType, MapsAgree
<1>7. Request'
  <2>1. pc' = "idle" /\ job' = NoJob
    BY <1>1 DEF Base, Request
  <2> QED
    BY <2>1, IdleRequest
<1> QED
  BY <1>6, <1>7 DEF Base

\* What writes that fail, and crashes, may do to the sidecars.
LEMMA TextCut ==
  ASSUME Base, NEW r \in job.todo, job \in JobType, text' = [text EXCEPT ![FileOf[r]] = None]
  PROVE  text' \in [File -> Chunk \cup {None}]
BY DocAssumption DEF Base, StoreType, JobType

\* A write fails.
LEMMA WriteFailsBase == ASSUME Base, WriteFails PROVE Base'
<1>1. /\ pc # "idle" /\ pc' = "failed" /\ UNCHANGED <<rows, mem, job, settled, gone>>
      /\ faults < MaxFaults /\ faults' = faults + 1 /\ past' = past \cup {"write"}
      /\ idxFile' \in {idxFile, Broken} /\ mapFile' \in {mapFile, Broken}
  BY DEF WriteFails, CutOff, Fault, Goto, files
<1>2. faults' \in 0 .. MaxFaults
  BY <1>1, DocAssumption DEF Base, StoreType
<1>3. text' \in [File -> Chunk \cup {None}]
  <2>1. UNCHANGED text \/ \E r \in job.todo : text' = [text EXCEPT ![FileOf[r]] = None]
    BY DEF WriteFails
  <2>2. job \in JobType
    BY DEF Base, Request
  <2> QED
    BY <2>1, <2>2, TextCut DEF Base, StoreType
<1>4. StoreType'
  BY <1>1, <1>2, <1>3 DEF Base, StoreType, MapsAgree
<1>5. Request'
  BY <1>1 DEF Base, Request, Step
<1> QED
  BY <1>4, <1>5 DEF Base

\* The process dies.
LEMMA CrashBase == ASSUME Base, Crash PROVE Base'
<1>1. /\ mem' = None /\ pc' = "idle" /\ job' = NoJob /\ UNCHANGED <<rows, gone>>
      /\ faults < MaxFaults /\ faults' = faults + 1
      /\ past' \subseteq past \cup {"crash", "torn"}
      /\ idxFile' \in {idxFile, Broken} /\ mapFile' \in {mapFile, Broken}
      /\ DOMAIN settled' = Doc
  BY DEF Crash, CutOff, Fault, Torn
<1>2. faults' \in 0 .. MaxFaults
  BY <1>1, DocAssumption DEF Base, StoreType
<1>3. text' \in [File -> Chunk \cup {None}]
  <2>1. UNCHANGED text \/ \E r \in job.todo : text' = [text EXCEPT ![FileOf[r]] = None]
    BY DEF Crash
  <2>2. job \in JobType
    BY DEF Base, Request
  <2> QED
    BY <2>1, <2>2, TextCut DEF Base, StoreType
<1>4. StoreType'
  BY <1>1, <1>2, <1>3 DEF Base, StoreType, MapsAgree
<1>5. Request'
  BY <1>1, IdleRequest
<1> QED
  BY <1>4, <1>5 DEF Base

\* The first state.
LEMMA BaseInit == ASSUME Init PROVE Base
<1>1. StoreType
  <2>1. faults \in 0 .. MaxFaults
    BY DocAssumption DEF Init
  <2>2. DOMAIN settled = Doc
    BY DEF Init
  <2> QED
    BY <2>1, <2>2 DEF Init, StoreType
<1>2. Request
  <2>1. pc = "idle" /\ job = NoJob /\ NoJob \in JobType /\ NoJob.added = FALSE
    BY DEF Init, NoJob, JobType
  <2> QED
    BY <2>1 DEF Request, Step
<1> QED
  BY <1>1, <1>2 DEF Base

\* Every step.
LEMMA BaseNext == ASSUME Base, [Next]_vars PROVE Base'
<1>1. CASE \E d \in Doc : PurgeDoc(d) \/ IndexRecords(d)
  BY <1>1, StartBase
<1>2. CASE UNCHANGED vars
  BY <1>2 DEF vars, files, history, Base, StoreType, Request, MapsAgree, RowsGone, RowsWanted
<1> QED
  BY <1>1, <1>2, LoadBase, PurgeRowsBase, TextBase, VectorsBase, FlushBase, RefusedBase,
     UpsertBase, FinishBase, CloseBase, WriteFailsBase, CrashBase DEF Next

\* The types and the progress of the request always hold.
LEMMA BaseAlways == Spec => []Base
BY BaseInit, BaseNext, PTL DEF Spec

\* The rows, files, backend and request always have their types.
THEOREM DocTypes == Spec => []TypeOK
<1>1. Base => TypeOK
  BY DEF Base, StoreType, Request, Step, JobType, TypeOK
<1> QED
  BY <1>1, BaseAlways, PTL

-----------------------------------------------------------------------------
(* What is purged stays gone.                                              *)

\* A step that adds no chunk to a map and none to gone.
LEMMA GoneKept ==
  ASSUME GoneStay, gone' \subseteq gone,
         \A r \in gone' : rows'[r] = None /\ r \notin job'.rids,
         mem' = mem \/ mem' = None \/ DOMAIN mem'.idOf \cap gone' = {},
         mapFile' \in {mapFile, Broken} \/ DOMAIN mapFile'.idOf \cap gone' = {}
  PROVE  GoneStay'
BY DEF GoneStay

\* Steps that change neither the backend nor what is gone.
LEMMA GoneQuiet ==
  ASSUME Base, GoneStay, PurgeRows \/ Unlink \/ SaveText \/ Upsert \/ Refuse \/ EncodeFails
                           \/ Finish \/ WriteFails \/ Crash \/ WriteIndex
  PROVE  GoneStay'
<1>1. /\ gone' = gone /\ mem' \in {mem, None} /\ mapFile' \in {mapFile, Broken}
      /\ \/ job'.rids = job.rids
         \/ job'.rids = {}
      /\ \A r \in gone : rows'[r] = None
  <2>1. CASE PurgeRows
    <3>1. \A r \in gone : rows'[r] = None
      BY <2>1 DEF PurgeRows, Base, StoreType, GoneStay
    <3>2. job'.rids = job.rids
      BY <2>1 DEF PurgeRows, Base, Request, JobType
    <3> QED
      BY <2>1, <3>1, <3>2 DEF PurgeRows, history, files
  <2>2. CASE Unlink \/ SaveText
    <3>1. job'.rids = job.rids
      BY <2>2 DEF Unlink, SaveText, Base, Request, JobType
    <3> QED
      BY <2>2, <3>1 DEF Unlink, SaveText, history, files, GoneStay
  <2>3. CASE Upsert
    BY <2>3 DEF Upsert, history, files, GoneStay, Base, StoreType
  <2>4. CASE Refuse \/ EncodeFails \/ WriteIndex
    BY <2>4 DEF Refuse, EncodeFails, WriteIndex, files, history, GoneStay
  <2>5. CASE Finish
    BY <2>5 DEF Finish, files, GoneStay, NoJob
  <2>6. CASE WriteFails
    BY <2>6 DEF WriteFails, CutOff, files, GoneStay
  <2>7. CASE Crash
    BY <2>7 DEF Crash, CutOff, GoneStay, NoJob
  <2> QED
    BY <2>1, <2>2, <2>3, <2>4, <2>5, <2>6, <2>7
<1>2. \A r \in gone' : r \notin job'.rids
  BY <1>1 DEF GoneStay
<1> QED
  BY <1>1, <1>2, GoneKept

\* Every step.
LEMMA GoneNext == ASSUME Base, GoneStay, [Next]_vars PROVE GoneStay'
<1>1. CASE Load
  <2>1. /\ mem' = Initialized /\ UNCHANGED <<rows, job, gone, mapFile>>
    BY <1>1 DEF Load, files, history
  <2>2. DOMAIN Initialized.idOf \cap gone = {}
    <3>1. CASE {None, Broken} \cap {idxFile, mapFile} # {}
      <4>1. Initialized = NewBackend
        BY <3>1 DEF Initialized
      <4> QED
        BY <4>1, NewIsBackend
    <3>2. CASE {None, Broken} \cap {idxFile, mapFile} = {}
      BY <3>2, LoadedType DEF Base, GoneStay
    <3> QED
      BY <3>1, <3>2
  <2> QED
    BY <2>1, <2>2, GoneKept DEF GoneStay
<1>2. CASE \E d \in Doc : PurgeDoc(d) \/ IndexRecords(d)
  <2>1. PICK d \in Doc, op \in {"purge", "ingest"}, v \in Version \cup {None},
            rids \in SUBSET Rid :
          Start(op, d, v, rids)
    BY <1>2 DEF PurgeDoc, IndexRecords, RidsOf
  <2>2. /\ UNCHANGED <<rows, mem, mapFile>> /\ gone' = gone \ rids
        /\ job' = [NoJob EXCEPT !.op = op, !.doc = d, !.rids = rids, !.v = v]
    BY <2>1 DEF Start, files
  <2>3. job'.rids = rids
    BY <2>2 DEF NoJob
  <2> QED
    BY <2>2, <2>3, GoneKept DEF GoneStay
<1>3. CASE DropVectors
  <2>1. pc = "unlink" /\ mem' = Without(mem, job.ids) /\ UNCHANGED <<rows, mapFile, job, gone>>
    BY <1>3 DEF DropVectors, files, history
  <2>2. mem \in FaissBackend /\ MapsAgree(mem) /\ job.ids \in SUBSET Rid /\ mem # None
    BY <2>1, AtWork, MapsOfType
  <2>3. DOMAIN mem'.idOf = DOMAIN mem.idOf \ job.ids
    BY <2>1, <2>2, WithoutType
  <2> QED
    BY <2>1, <2>2, <2>3, GoneKept DEF GoneStay
<1>4. CASE AddVectors
  <2>1. /\ pc = "encode" /\ mem' = With(mem, job.rids, job.v)
        /\ job' = [job EXCEPT !.added = TRUE] /\ UNCHANGED <<rows, mapFile, gone>>
    BY <1>4 DEF AddVectors, files, history
  <2>2. /\ mem \in FaissBackend /\ MapsAgree(mem) /\ job.rids \in SUBSET Rid /\ mem # None
        /\ job.v \in Version /\ IsFiniteSet(job.rids)
        /\ mem.next + Cardinality(job.rids) <= MaxId
    BY <2>1, AtWork, MapsOfType DEF Base, Request
  <2>3. DOMAIN mem'.idOf = job.rids \cup DOMAIN mem.idOf
    BY <2>1, <2>2, WithTypeOf
  <2>4. job'.rids = job.rids
    BY <2>1, AtWork DEF JobType
  <2> QED
    BY <2>1, <2>2, <2>3, <2>4, GoneKept DEF GoneStay
<1>5. CASE WriteMap
  <2>1. /\ pc = "write_map" /\ mapFile' = MapsOf(mem) /\ UNCHANGED <<rows, mem>>
        /\ job'.rids = job.rids
        /\ gone' = gone \/ (~job.added /\ gone' = gone \cup (job.ids \ job.rids))
    BY <1>5, AtWork DEF WriteMap, JobType
  <2>2. /\ mem \in FaissBackend /\ MapsAgree(mem) /\ mem # None
        /\ MapsOf(mem).idOf = mem.idOf
    BY <2>1, AtWork, MapsOfType
  <2>3. \A r \in gone' : rows[r] = None /\ r \notin job.rids /\ r \notin DOMAIN mem.idOf
    <3>1. \A r \in gone : rows[r] = None /\ r \notin job.rids /\ r \notin DOMAIN mem.idOf
      BY <2>2 DEF GoneStay
    <3>2. ASSUME ~job.added, NEW r \in job.ids \ job.rids
          PROVE  rows[r] = None /\ r \notin DOMAIN mem.idOf
      BY <2>1, <3>2 DEF Base, Request, RowsGone
    <3> QED
      BY <2>1, <3>1, <3>2
  <2> QED
    BY <2>1, <2>2, <2>3 DEF GoneStay
<1>6. CASE Close
  <2>1. /\ mem \in FaissBackend /\ MapsAgree(mem) /\ mem # None
    BY <1>6 DEF Close, Base, StoreType
  <2>2. /\ mem' = None /\ UNCHANGED <<rows, job, gone>>
        /\ mapFile' \in {mapFile, Broken, MapsOf(mem)}
    BY <1>6 DEF Close, CutOff
  <2> QED
    BY <2>1, <2>2, MapsOfType, GoneKept DEF GoneStay
<1>7. CASE UNCHANGED vars
  BY <1>7 DEF vars, files, history, GoneStay
<1> QED
  BY <1>1, <1>2, <1>3, <1>4, <1>5, <1>6, <1>7, GoneQuiet DEF Next

\* Nothing the backend can answer with names a chunk that is gone.
LEMMA GoneHidden == ASSUME Base, GoneStay PROVE PurgedIsGone
<1> SUFFICES ASSUME NEW r \in gone PROVE rows[r] = None /\ \A hit \in Hits(Backend) : hit.label # r
  BY DEF PurgedIsGone
<1>1. Backend \in FaissBackend /\ MapsAgree(Backend) /\ r \notin DOMAIN Backend.idOf
  <2>1. CASE mem # None
    BY <2>1 DEF Backend, Base, StoreType, GoneStay
  <2>2. CASE mem = None /\ {None, Broken} \cap {idxFile, mapFile} # {}
    <3>1. Backend = NewBackend
      BY <2>2 DEF Backend, Initialized
    <3> QED
      BY <3>1, NewIsBackend
  <2>3. CASE mem = None /\ {None, Broken} \cap {idxFile, mapFile} = {}
    BY <2>3, LoadedType DEF Backend, Base, GoneStay
  <2> QED
    BY <2>1, <2>2, <2>3
<1>2. ASSUME NEW hit \in Hits(Backend) PROVE hit.label \in DOMAIN Backend.idOf
  <2>1. PICK x \in Backend.index : x.id \in DOMAIN Backend.ridOf /\ hit.label = Backend.ridOf[x.id]
    BY DEF Hits
  <2> QED
    BY <1>1, <2>1 DEF MapsAgree
<1> QED
  BY <1>1, <1>2 DEF GoneStay

\* A chunk whose purge was saved is not found again, whatever fails later.
THEOREM PurgedStaysGone == Spec => []PurgedIsGone
<1>1. Init => GoneStay
  BY DEF Init, GoneStay
<1> QED
  BY <1>1, BaseAlways, GoneNext, GoneHidden, PTL DEF Spec

-----------------------------------------------------------------------------
(* How far the request is.                                                 *)

\* The state in which no request has put in anything.
LEMMA NothingAdded ==
  ASSUME ~job'.added, pc' \notin {"save", "encode"} PROVE Progress'
BY DEF Progress

\* Between requests there is nothing to say.
LEMMA IdleProgress ==
  ASSUME Base, Load \/ (\E d \in Doc : PurgeDoc(d) \/ IndexRecords(d)) \/ Finish \/ Close \/ Crash
  PROVE  Progress'
<1>1. ~job'.added
  <2>1. CASE Load \/ Finish \/ Close \/ Crash
    BY <2>1 DEF Load, Finish, Close, Crash, Base, Request, NoJob
  <2>2. CASE \E d \in Doc : PurgeDoc(d) \/ IndexRecords(d)
    <3>1. PICK d \in Doc, op \in {"purge", "ingest"}, v \in Version \cup {None},
              rids \in SUBSET Rid :
            Start(op, d, v, rids)
      BY <2>2 DEF PurgeDoc, IndexRecords, RidsOf
    <3>2. job' = [NoJob EXCEPT !.op = op, !.doc = d, !.rids = rids, !.v = v]
      BY <3>1 DEF Start
    <3> QED
      BY <3>2 DEF NoJob
  <2> QED
    BY <2>1, <2>2
<1>2. pc' \in {"idle", "purge"}
  BY DEF Load, PurgeDoc, IndexRecords, Start, Finish, Close, Crash, Goto, Base, Request
<1> QED
  BY <1>1, <1>2, NothingAdded

\* Every step.
LEMMA ProgressNext == ASSUME Base, Progress, [Next]_vars PROVE Progress'
<1>1. CASE PurgeRows
  <2>1. /\ pc = "purge" /\ ~job.added
        /\ \/ pc' = "unlink" /\ job'.added = job.added
           \/ /\ pc' \in {"save", "done"} /\ job'.todo = job.rids
              /\ job'.added = job.added /\ job'.rids = job.rids
    BY <1>1, AtWork DEF PurgeRows, Goto, AfterPurge, JobType, Base, Request
  <2> QED
    BY <2>1 DEF Progress
<1>2. CASE Unlink \/ DropVectors \/ Refuse \/ EncodeFails
  <2>1. pc \in {"unlink", "save", "encode"} /\ pc' \in {"unlink", "write_index", "failed"}
    BY <1>2 DEF Unlink, DropVectors, Refuse, EncodeFails, Goto
  <2>2. ~job.added /\ job'.added = job.added
    BY <1>2, <2>1, AtWork DEF Unlink, DropVectors, Refuse, EncodeFails, JobType, Base, Request
  <2> QED
    BY <2>1, <2>2, NothingAdded
<1>3. CASE WriteIndex \/ UNCHANGED vars
  <2>1. UNCHANGED <<text, mem, job>> /\ (pc' = pc \/ pc' = "write_map")
    BY <1>3 DEF WriteIndex, Goto, vars
  <2> QED
    BY <2>1 DEF Progress, TextOf
<1>4. CASE WriteMap
  <2>1. CASE job.added
    BY <1>4, <2>1 DEF WriteMap, Goto, Progress, TextOf
  <2>2. CASE ~job.added
    <3>1. /\ pc' \in {"save", "done"} /\ job'.todo = job.rids
          /\ job'.added = job.added /\ job'.rids = job.rids
      BY <1>4, <2>2, AtWork DEF WriteMap, Goto, AfterPurge, JobType
    <3> QED
      BY <2>2, <3>1 DEF Progress
  <2> QED
    BY <2>1, <2>2
<1>5. CASE SaveText
  <2>1. PICK q \in job.todo : /\ text' = [text EXCEPT ![FileOf[q]] = [rid |-> q, v |-> job.v]]
                              /\ job' = [job EXCEPT !.todo = @ \ {q}]
    BY <1>5 DEF SaveText
  <2>2. /\ pc = "save" /\ pc' = "save" /\ ~job.added
        /\ job'.rids = job.rids /\ job'.todo = job.todo \ {q} /\ job'.v = job.v
        /\ job'.added = job.added /\ job.rids \subseteq Rid /\ q \in Rid
        /\ text \in [File -> Chunk \cup {None}]
    BY <1>5, <2>1, AtWork DEF SaveText, JobType, Base, Request, StoreType
  <2>3. ASSUME NEW r \in job.rids \ (job.todo \ {q}), OwnFile(r)
        PROVE  text'[FileOf[r]] = [rid |-> r, v |-> job.v]
    <3>1. CASE r = q
      BY <2>1, <2>2, <3>1, DocAssumption
    <3>2. CASE r # q
      <4>1. TextOf(r, job.v)
        BY <2>2, <3>2 DEF Progress
      <4> QED
        BY <2>1, <2>2, <2>3, <3>2, <4>1, DocAssumption DEF TextOf, OwnFile
    <3> QED
      BY <3>1, <3>2
  <2> QED
    BY <2>2, <2>3 DEF Progress, TextOf
<1>6. CASE Upsert
  <2>1. /\ pc = "save" /\ job.todo = {} /\ ~job.added /\ job' = job /\ text' = text
        /\ pc' \in {"done", "encode"}
    BY <1>6 DEF Upsert, Goto, Base, Request
  <2> QED
    BY <2>1 DEF Progress, TextOf
<1>7. CASE AddVectors
  <2>1. /\ pc = "encode" /\ pc' = "write_index" /\ mem' = With(mem, job.rids, job.v)
        /\ job' = [job EXCEPT !.added = TRUE] /\ text' = text
    BY <1>7 DEF AddVectors, Goto
  <2>2. /\ mem \in FaissBackend /\ MapsAgree(mem) /\ job.rids \in SUBSET Rid
        /\ job.v \in Version /\ IsFiniteSet(job.rids)
        /\ mem.next + Cardinality(job.rids) <= MaxId
        /\ job'.rids = job.rids /\ job'.v = job.v
    BY <2>1, AtWork DEF Base, Request, JobType
  <2>3. \A r \in job.rids :
          /\ r \in DOMAIN mem'.idOf
          /\ [id |-> mem'.idOf[r], of |-> [rid |-> r, v |-> job.v]] \in mem'.index
    BY <2>1, <2>2, WithTypeOf
  <2>4. \A r \in job.rids : TextOf(r, job.v)
    BY <2>1 DEF Progress
  <2> QED
    BY <2>1, <2>2, <2>3, <2>4 DEF Progress, TextOf
<1>8. CASE WriteFails
  <2>1. /\ pc' = "failed" /\ mem' = mem /\ job' = job
        /\ text' = text \/ pc = "save"
    BY <1>8 DEF WriteFails, Goto
  <2>2. pc = "save" => ~job.added
    BY DEF Base, Request
  <2> QED
    BY <2>1, <2>2 DEF Progress, TextOf
<1> QED
  BY <1>1, <1>2, <1>3, <1>4, <1>5, <1>6, <1>7, <1>8, IdleProgress DEF Next

\* The first state.
LEMMA ProgressInit == ASSUME Init PROVE Progress
BY DEF Init, Progress, NoJob

\* The request always has put in what its step says.
LEMMA ProgressAlways == Spec => []Progress
BY ProgressInit, BaseAlways, ProgressNext, PTL DEF Spec

-----------------------------------------------------------------------------
(* What was promised stays searchable.                                     *)

\* A chunk of a document that is not at work has no part in the request.
LEMMA Elsewhere ==
  ASSUME Base, NEW d \in Doc, pc = "idle" \/ d # job.doc, NEW r \in RidsOf(d)
  PROVE  /\ r \in Rid /\ r \notin job.rids /\ r \notin job.ids
         /\ pc \in {"unlink", "save"} => r \notin job.todo
         /\ pc # "idle" => r \notin RidsOf(job.doc)
<1>1. CASE pc = "idle"
  BY <1>1 DEF Base, Request, NoJob, RidsOf
<1>2. CASE pc # "idle" /\ d # job.doc
  BY <1>2 DEF Base, Request, RidsOf
<1> QED
  BY <1>1, <1>2

\* The promise is not touched.
LEMMA SettledKept ==
  ASSUME NEW d \in Doc, Settled(d),
         settled'[d] # None /\ (pc' = "idle" \/ d # job'.doc) =>
           /\ settled'[d] = settled[d] /\ (pc = "idle" \/ d # job.doc)
           /\ \A r \in RidsOf(d) :
                /\ rows'[r] = rows[r]
                /\ OwnFile(r) => text'[FileOf[r]] = text[FileOf[r]]
                /\ rows[r] # None /\ Kept(r) => Kept(r)'
  PROVE  Settled(d)'
<1> SUFFICES ASSUME settled'[d] # None /\ (pc' = "idle" \/ d # job'.doc)
             PROVE  /\ settled'[d] = [r \in RidsOf(d) |-> rows'[r]]
                    /\ \A r \in RidsOf(d) : rows'[r] # None => Kept(r)' /\ TextOf(r, rows[r])'
  BY DEF Settled
<1>1. /\ settled'[d] = [r \in RidsOf(d) |-> rows[r]]
      /\ \A r \in RidsOf(d) : rows[r] # None => Kept(r) /\ TextOf(r, rows[r])
  BY DEF Settled
<1>2. ASSUME NEW r \in RidsOf(d), rows'[r] # None PROVE Kept(r)' /\ TextOf(r, rows[r])'
  BY <1>1, <1>2 DEF TextOf
<1> QED
  BY <1>1, <1>2

\* Where nothing is written to, and some of it may be lost.
LEMMA KeptSame ==
  ASSUME NEW r, Kept(r), rows'[r] = rows[r], mem' \in {mem, None},
         idxFile' \in {idxFile, Broken}, mapFile' \in {mapFile, Broken}
  PROVE  Kept(r)'
BY DEF Kept

\* A sidecar of another chunk is written.
LEMMA TextApart ==
  ASSUME Base, NEW r \in Rid, NEW q \in Rid, NEW x, r # q, OwnFile(r),
         text' = [text EXCEPT ![FileOf[q]] = x]
  PROVE  text'[FileOf[r]] = text[FileOf[r]]
BY DocAssumption DEF Base, StoreType, OwnFile

\* Requests start, write rows and texts, and fail.
LEMMA SettledQuiet ==
  ASSUME Base, NEW d \in Doc, Settled(d),
         \/ \E e \in Doc : PurgeDoc(e) \/ IndexRecords(e)
         \/ PurgeRows \/ Unlink \/ SaveText \/ Refuse \/ Upsert \/ EncodeFails \/ WriteFails
         \/ Crash \/ UNCHANGED vars
  PROVE  Settled(d)'
<1>1. /\ mem' \in {mem, None} /\ idxFile' \in {idxFile, Broken} /\ mapFile' \in {mapFile, Broken}
  BY DEF PurgeDoc, IndexRecords, Start, PurgeRows, Unlink, SaveText, Refuse, Upsert, EncodeFails,
         WriteFails, Crash, vars, files, history, CutOff
<1>2. ASSUME settled'[d] # None, pc' = "idle" \/ d # job'.doc
      PROVE  settled'[d] = settled[d] /\ (pc = "idle" \/ d # job.doc)
  <2>1. CASE \E e \in Doc : PurgeDoc(e) \/ IndexRecords(e)
    BY <2>1 DEF PurgeDoc, IndexRecords, Start
  <2>2. CASE PurgeRows \/ Unlink \/ SaveText
    <3>1. pc # "idle" /\ pc' # "idle" /\ settled' = settled /\ job'.doc = job.doc
      BY <2>2, AtWork DEF PurgeRows, Unlink, SaveText, JobType, history, Goto, AfterPurge
    <3> QED
      BY <1>2, <3>1
  <2>3. CASE Refuse \/ Upsert \/ EncodeFails \/ WriteFails
    <3>1. pc' # "idle" /\ settled' = settled /\ job' = job
      BY <2>3 DEF Refuse, Upsert, EncodeFails, WriteFails, history, Goto
    <3> QED
      BY <1>2, <3>1
  <2>4. CASE Crash
    BY <1>2, <2>4 DEF Crash
  <2>5. CASE UNCHANGED vars
    BY <1>2, <2>5 DEF vars, history
  <2> QED
    BY <2>1, <2>2, <2>3, <2>4, <2>5
<1>3. ASSUME pc = "idle" \/ d # job.doc, NEW r \in RidsOf(d)
      PROVE  rows'[r] = rows[r] /\ (OwnFile(r) => text'[FileOf[r]] = text[FileOf[r]])
  <2>1. /\ r \in Rid /\ r \notin job.rids /\ r \notin job.ids
        /\ pc \in {"unlink", "save"} => r \notin job.todo
        /\ pc # "idle" => r \notin RidsOf(job.doc)
    BY <1>3, Elsewhere
  <2>2. rows'[r] = rows[r]
    <3>1. CASE PurgeRows
      BY <2>1, <3>1 DEF PurgeRows
    <3>2. CASE Upsert
      BY <2>1, <3>2 DEF Upsert
    <3>3. CASE rows' = rows
      BY <3>3
    <3> QED
      BY <3>1, <3>2, <3>3 DEF PurgeDoc, IndexRecords, Start, Unlink, SaveText, Refuse,
           EncodeFails, WriteFails, Crash, vars
  <2>3. text' = text \/ (/\ pc \in {"unlink", "save"}
                         /\ \E q \in job.todo, x \in Chunk \cup {None} :
                              text' = [text EXCEPT ![FileOf[q]] = x])
    <3>1. CASE SaveText
      <4>1. PICK q \in job.todo : text' = [text EXCEPT ![FileOf[q]] = [rid |-> q, v |-> job.v]]
        BY <3>1 DEF SaveText
      <4>2. pc = "save" /\ q \in Rid /\ job.v \in Version
        BY <3>1, AtWork DEF SaveText, Base, Request
      <4> QED
        BY <4>1, <4>2 DEF Chunk
    <3>2. CASE Unlink \/ WriteFails \/ Crash
      BY <3>2 DEF Unlink, WriteFails, Crash
    <3>3. CASE text' = text
      BY <3>3
    <3> QED
      BY <3>1, <3>2, <3>3 DEF PurgeDoc, IndexRecords, Start, PurgeRows, Refuse, Upsert,
           EncodeFails, vars
  <2>4. ASSUME pc \in {"unlink", "save"}, NEW q \in job.todo, NEW x \in Chunk \cup {None},
               text' = [text EXCEPT ![FileOf[q]] = x], OwnFile(r)
        PROVE  text'[FileOf[r]] = text[FileOf[r]]
    <3>1. q \in Rid /\ q # r
      BY <2>1, <2>4, AtWork
    <3> QED
      BY <2>1, <2>4, <3>1, TextApart
  <2> QED
    BY <2>2, <2>3, <2>4
<1>4. ASSUME NEW r \in RidsOf(d), rows'[r] = rows[r], Kept(r) PROVE Kept(r)'
  BY <1>1, <1>4, KeptSame
<1> QED
  BY <1>2, <1>3, <1>4, SettledKept

\* Vectors come and go in the cached backend and in the two files.
LEMMA SettledVectors ==
  ASSUME Base, NEW d \in Doc, Settled(d), DropVectors \/ AddVectors \/ WriteIndex \/ WriteMap
  PROVE  Settled(d)'
<1>1. /\ pc # "idle" /\ pc' # "idle" /\ UNCHANGED <<rows, text, settled>> /\ job'.doc = job.doc
  <2>1. /\ pc # "idle" /\ pc' # "idle" /\ UNCHANGED <<rows, text, settled>>
    BY DEF DropVectors, AddVectors, WriteIndex, WriteMap, Goto, AfterPurge, history
  <2> QED
    BY <2>1, AtWork DEF DropVectors, AddVectors, WriteIndex, WriteMap, JobType
<1>2. /\ mem \in FaissBackend /\ MapsAgree(mem) /\ job.rids \in SUBSET Rid /\ job.ids \in SUBSET Rid
      /\ mem # None /\ mem.index \notin {None, Broken}
      /\ MapsOf(mem) \notin {None, Broken} /\ MapsOf(mem).idOf = mem.idOf
  BY <1>1, AtWork, MapsOfType
<1>3. ASSUME d # job.doc, NEW r \in RidsOf(d), Kept(r) PROVE Kept(r)'
  <2>1. r \notin job.rids /\ r \notin job.ids
    BY <1>3, Elsewhere
  <2>2. PICK i \in Id : LET x == [id |-> i, of |-> [rid |-> r, v |-> rows[r]]] IN
          /\ r \in DOMAIN mem.idOf /\ mem.idOf[r] = i /\ x \in mem.index
          /\ idxFile # Broken => idxFile # None /\ x \in idxFile
          /\ mapFile # Broken => mapFile # None /\ r \in DOMAIN mapFile.idOf /\ mapFile.idOf[r] = i
    BY <1>2, <1>3 DEF Kept
  <2> DEFINE x == [id |-> i, of |-> [rid |-> r, v |-> rows[r]]]
  <2>3. CASE WriteIndex
    BY <1>1, <1>2, <2>2, <2>3 DEF WriteIndex, Kept
  <2>4. CASE WriteMap
    BY <1>1, <1>2, <2>2, <2>4 DEF WriteMap, Kept
  <2>5. CASE DropVectors
    <3>1. mem' = Without(mem, job.ids) /\ UNCHANGED files
      BY <2>5 DEF DropVectors
    <3>2. r \in DOMAIN mem'.idOf /\ mem'.idOf[r] = i /\ i \notin IdsOf(mem, job.ids)
      BY <1>2, <2>1, <2>2, <3>1, WithoutType
    <3>3. x \in mem'.index
      BY <1>2, <2>2, <3>1, <3>2, WithoutType
    <3> QED
      BY <1>1, <2>2, <3>1, <3>2, <3>3 DEF Kept, files
  <2>6. CASE AddVectors
    <3>1. mem' = With(mem, job.rids, job.v) /\ UNCHANGED files /\ pc = "encode"
      BY <2>6 DEF AddVectors
    <3>2. /\ job.v \in Version /\ IsFiniteSet(job.rids)
          /\ mem.next + Cardinality(job.rids) <= MaxId
      BY <3>1, AtWork DEF Base, Request
    <3>3. r \in DOMAIN mem'.idOf /\ mem'.idOf[r] = i /\ x \in mem'.index
      <4>1. /\ DOMAIN mem'.idOf = job.rids \cup DOMAIN mem.idOf
            /\ \A s \in DOMAIN mem.idOf \ job.rids :
                 /\ mem'.idOf[s] = mem.idOf[s]
                 /\ \A y \in mem.index : y.id = mem.idOf[s] => y \in mem'.index
        BY <1>2, <3>1, <3>2, WithTypeOf
      <4> QED
        BY <2>1, <2>2, <4>1
    <3> QED
      BY <1>1, <2>2, <3>1, <3>3 DEF Kept, files
  <2> QED
    BY <2>3, <2>4, <2>5, <2>6
<1> QED
  BY <1>1, <1>3, SettledKept

\* A backend is loaded or closed.
LEMMA SettledReload ==
  ASSUME Base, NEW d \in Doc, Settled(d), mem = None => Broken \notin {idxFile, mapFile},
         "torn" \notin past', Load \/ Close
  PROVE  Settled(d)'
<1>1. pc = "idle" /\ UNCHANGED <<rows, text, settled, pc, job>>
  BY DEF Load, Close, history
<1>2. ASSUME NEW r \in RidsOf(d), Kept(r) PROVE Kept(r)'
  <2>1. CASE Load
    <3>1. mem = None /\ mem' = Initialized /\ UNCHANGED files
      BY <2>1 DEF Load
    <3>2. PICK i \in Id : LET x == [id |-> i, of |-> [rid |-> r, v |-> rows[r]]] IN
            /\ idxFile # Broken /\ idxFile # None /\ x \in idxFile
            /\ mapFile # Broken /\ mapFile # None
            /\ r \in DOMAIN mapFile.idOf /\ mapFile.idOf[r] = i
      BY <1>2, <3>1 DEF Kept
    <3>3. Initialized.index = idxFile /\ Initialized.idOf = mapFile.idOf
      BY <3>2, LoadedType DEF Base
    <3> QED
      BY <1>1, <3>1, <3>2, <3>3 DEF Kept, files
  <2>2. CASE Close
    <3>1. mem # None /\ mem' = None
      BY <2>2 DEF Close
    <3>2. /\ mem.index \notin {None, Broken}
          /\ MapsOf(mem) \notin {None, Broken} /\ MapsOf(mem).idOf = mem.idOf
      BY <3>1, MapsOfType DEF Base, StoreType
    <3>3. /\ idxFile' # Broken /\ mapFile' # Broken
          /\ idxFile' \in {idxFile, mem.index} /\ mapFile' \in {mapFile, MapsOf(mem)}
      BY <2>2, <3>2 DEF Close, CutOff, Torn
    <3>4. PICK i \in Id : LET x == [id |-> i, of |-> [rid |-> r, v |-> rows[r]]] IN
            /\ r \in DOMAIN mem.idOf /\ mem.idOf[r] = i /\ x \in mem.index
            /\ idxFile # Broken => idxFile # None /\ x \in idxFile
            /\ mapFile # Broken =>
                 mapFile # None /\ r \in DOMAIN mapFile.idOf /\ mapFile.idOf[r] = i
      BY <1>2, <3>1 DEF Kept
    <3> QED
      BY <1>1, <3>1, <3>2, <3>3, <3>4 DEF Kept
  <2> QED
    BY <2>1, <2>2
<1> QED
  BY <1>1, <1>2, SettledKept

\* A request ends: what it was to make of its document is there.
LEMMA SettledFinish ==
  ASSUME Base, Progress, NEW d \in Doc, Settled(d), Finish PROVE Settled(d)'
<1>1. /\ pc \in {"done", "failed"} /\ pc' = "idle"
      /\ settled' = [settled EXCEPT ![job.doc] = IF pc = "done" THEN Wanted ELSE None]
      /\ UNCHANGED <<rows, text, mem, files>>
  BY DEF Finish
<1>2. /\ mem \in FaissBackend /\ MapsAgree(mem) /\ job.rids \in SUBSET Rid
      /\ mem # None /\ mem.index \notin {None, Broken}
      /\ MapsOf(mem) \notin {None, Broken} /\ MapsOf(mem).idOf = mem.idOf
  BY <1>1, AtWork, MapsOfType
<1>3. CASE d # job.doc
  <2>1. settled'[d] = settled[d]
    BY <1>1, <1>3
  <2>2. ASSUME NEW r \in RidsOf(d), Kept(r) PROVE Kept(r)'
    BY <1>1, <2>2, KeptSame DEF files
  <2> QED
    BY <1>1, <1>3, <2>1, <2>2, SettledKept
<1>4. CASE d = job.doc /\ pc = "failed"
  BY <1>1, <1>4 DEF Settled, Base, StoreType
<1>5. CASE d = job.doc /\ pc = "done"
  <2>1. /\ RowsWanted
        /\ (job.op = "ingest" /\ job.v \in Version) \/ (job.op = "purge" /\ job.rids = {})
    BY <1>5 DEF Base, Request
  <2>2. settled'[d] = [r \in RidsOf(d) |-> rows'[r]]
    <3>1. Wanted = [r \in RidsOf(d) |-> rows[r]]
      BY <1>5, <2>1 DEF Wanted, RowsWanted, Base, Request
    <3> QED
      BY <1>1, <1>5, <3>1 DEF Base, StoreType
  <2>3. ASSUME NEW r \in RidsOf(d), rows'[r] # None
        PROVE  Kept(r)' /\ TextOf(r, rows[r])'
    <3>1. r \in job.rids /\ rows[r] = job.v
      BY <1>1, <1>5, <2>3 DEF Base, Request, RowsWanted
    <3>2. job.added
      BY <1>5, <3>1 DEF Base, Request
    <3>3. /\ TextOf(r, job.v) /\ r \in DOMAIN mem.idOf
          /\ [id |-> mem.idOf[r], of |-> [rid |-> r, v |-> job.v]] \in mem.index
      BY <3>1, <3>2 DEF Progress
    <3>4. mem.idOf[r] \in Id
      BY <1>2, <3>3, PartialType DEF FaissBackend
    <3>5. idxFile = mem.index /\ mapFile = MapsOf(mem)
      BY <1>5, <3>2 DEF Base, Request
    <3>6. Kept(r)'
      BY <1>1, <1>2, <3>1, <3>3, <3>4, <3>5 DEF Kept, files
    <3> QED
      BY <1>1, <3>1, <3>3, <3>6 DEF TextOf
  <2> QED
    BY <2>2, <2>3 DEF Settled
<1> QED
  BY <1>1, <1>3, <1>4, <1>5

\* What has gone wrong is not forgotten.
LEMMA PastGrows == ASSUME [Next]_vars PROVE past \subseteq past'
<1>1. CASE \E d \in Doc : PurgeDoc(d) \/ IndexRecords(d)
  BY <1>1 DEF PurgeDoc, IndexRecords, Start
<1> QED
  BY <1>1 DEF Next, Load, PurgeRows, Unlink, DropVectors, WriteIndex, WriteMap, SaveText, Refuse,
              Upsert, AddVectors, EncodeFails, Finish, Close, WriteFails, Crash, vars, history

\* A file is unreadable only while the backend is still cached.
LEMMA ReadableNext ==
  ASSUME Base, mem = None => Broken \notin {idxFile, mapFile}, [Next]_vars, "torn" \notin past',
         mem' = None
  PROVE  Broken \notin {idxFile', mapFile'}
<1>1. CASE Close
  <2>1. Broken \notin {mem.index, MapsOf(mem)}
    BY <1>1, MapsOfType DEF Close, Base, StoreType
  <2> QED
    BY <1>1, <2>1 DEF Close, Torn
<1>2. CASE Crash
  BY <1>2 DEF Crash, Torn
<1>3. CASE \E d \in Doc : PurgeDoc(d) \/ IndexRecords(d)
  BY <1>3 DEF PurgeDoc, IndexRecords, Start
<1>4. CASE Load
  BY <1>4, LoadedType, MapsOfType DEF Load, Base
<1>5. CASE DropVectors \/ AddVectors
  <2>1. Base'
    BY BaseNext
  <2>2. pc' = "write_index"
    BY <1>5 DEF DropVectors, AddVectors, Goto
  <2>3. mem' # None
    BY <2>1, <2>2 DEF Base, Request
  <2> QED
    BY <2>3
<1>6. CASE \/ PurgeRows \/ Unlink \/ SaveText \/ Refuse \/ Upsert \/ EncodeFails \/ Finish
           \/ UNCHANGED vars
  BY <1>6 DEF PurgeRows, Unlink, SaveText, Refuse, Upsert, EncodeFails, Finish, vars, history, files
<1>7. CASE WriteIndex \/ WriteMap \/ WriteFails
  <2>1. mem' = mem /\ pc # "idle"
    BY <1>7 DEF WriteIndex, WriteMap, WriteFails
  <2> QED
    BY <2>1 DEF Base, Request
<1> QED
  BY <1>1, <1>2, <1>3, <1>4, <1>5, <1>6, <1>7 DEF Next

\* Every step.
LEMMA SettledNext == ASSUME Base, Progress, AllSettled, [Next]_vars PROVE AllSettled'
<1> SUFFICES ASSUME "torn" \notin past'
             PROVE  /\ mem' = None => Broken \notin {idxFile', mapFile'}
                    /\ \A d \in Doc : Settled(d)'
  BY DEF AllSettled
<1>1. /\ mem = None => Broken \notin {idxFile, mapFile}
      /\ \A d \in Doc : Settled(d)
  BY PastGrows DEF AllSettled
<1>2. mem' = None => Broken \notin {idxFile', mapFile'}
  BY <1>1, ReadableNext
<1>3. ASSUME NEW d \in Doc PROVE Settled(d)'
  BY <1>1, SettledQuiet, SettledVectors, SettledReload, SettledFinish DEF Next
<1> QED
  BY <1>2, <1>3

\* What is promised is what a reader is shown.
LEMMA SettledShown == ASSUME Base, AllSettled PROVE SettledStaySearchable
<1> SUFFICES ASSUME pc = "idle", "torn" \notin past, NEW d \in Doc, settled[d] # None
             PROVE  Shown(d) = settled[d]
  BY DEF SettledStaySearchable
<1>1. /\ settled[d] = [r \in RidsOf(d) |-> rows[r]]
      /\ \A r \in RidsOf(d) : rows[r] # None => Kept(r) /\ TextOf(r, rows[r])
      /\ mem = None => Broken \notin {idxFile, mapFile}
  BY DEF AllSettled, Settled
<1>2. ASSUME NEW r \in RidsOf(d), rows[r] # None
      PROVE  /\ [label |-> r, of |-> [rid |-> r, v |-> rows[r]]] \in Hits(Backend)
             /\ OwnFile(r) => text[FileOf[r]] = [rid |-> r, v |-> rows[r]]
  <2>1. /\ Backend \in FaissBackend /\ MapsAgree(Backend)
        /\ \E i \in Id : /\ r \in DOMAIN Backend.idOf /\ Backend.idOf[r] = i
                         /\ [id |-> i, of |-> [rid |-> r, v |-> rows[r]]] \in Backend.index
    <3>1. CASE mem # None
      BY <1>1, <1>2, <3>1 DEF Backend, Kept, Base, StoreType
    <3>2. CASE mem = None
      <4>1. PICK i \in Id : LET x == [id |-> i, of |-> [rid |-> r, v |-> rows[r]]] IN
              /\ idxFile # None /\ x \in idxFile
              /\ mapFile # None /\ r \in DOMAIN mapFile.idOf /\ mapFile.idOf[r] = i
        BY <1>1, <1>2, <3>2 DEF Kept
      <4>2. Initialized.index = idxFile /\ Initialized.idOf = mapFile.idOf
        BY <1>1, <3>2, <4>1, LoadedType DEF Base
      <4> QED
        BY <3>2, <4>1, <4>2, LoadedType DEF Backend, Base
    <3> QED
      BY <3>1, <3>2
  <2>2. PICK y \in Backend.index :
          /\ y.id \in DOMAIN Backend.ridOf /\ Backend.ridOf[y.id] = r
          /\ y.of = [rid |-> r, v |-> rows[r]]
    BY <2>1 DEF MapsAgree
  <2>3. [label |-> r, of |-> [rid |-> r, v |-> rows[r]]] \in Hits(Backend)
    BY <2>2 DEF Hits
  <2> QED
    BY <1>1, <1>2, <2>3 DEF TextOf
<1>3. \A r \in RidsOf(d) : Shown(d)[r] = rows[r]
  BY <1>2 DEF Shown
<1> QED
  BY <1>1, <1>3 DEF Shown

\* What a request promised of its document stays so until the next request on
\* it, as long as no cut-off index file is loaded.
THEOREM PromisesHold == Spec => []SettledStaySearchable
<1>1. Init => AllSettled
  BY DocAssumption DEF Init, AllSettled, Settled
<1> QED
  BY <1>1, BaseAlways, ProgressAlways, SettledNext, SettledShown, PTL DEF Spec

-----------------------------------------------------------------------------
(* What is found is what was ingested.                                     *)

\* The backend of a request at work, and its vectors.
LEMMA BackendType ==
  ASSUME Base
  PROVE  /\ Backend \in FaissBackend /\ MapsAgree(Backend)
         /\ pc # "idle" => Backend = mem
         /\ mem # None => Backend = mem
         /\ \A x \in Backend.index : x.id \in Id /\ x.of.rid \in Rid /\ x.of.v \in Version
                                     /\ x.of = [rid |-> x.of.rid, v |-> x.of.v]
<1>1. /\ Backend \in FaissBackend /\ MapsAgree(Backend)
      /\ pc # "idle" => Backend = mem
      /\ mem # None => Backend = mem
  BY LoadedType DEF Backend, Base, StoreType, Request
<1>2. Backend.index \subseteq Vector
  BY <1>1 DEF FaissBackend
<1> QED
  BY <1>1, <1>2 DEF Vector, Chunk

\* A request starts, removes rows and texts, and the vectors are there yet.
LEMMA FaithfulPurge ==
  ASSUME Base, Faithful, past = {}, past' = {},
         (\E d \in Doc : PurgeDoc(d) \/ IndexRecords(d)) \/ PurgeRows \/ Unlink
  PROVE  Faithful'
<1>1. \A x \in Backend.index :
        /\ x.id \in DOMAIN Backend.ridOf /\ Backend.ridOf[x.id] = x.of.rid /\ MayBe(x) /\ Agrees(x)
        /\ x.of.rid \in Rid /\ x.of.v \in Version
  BY BackendType DEF Faithful
<1>2. Backend' = Backend /\ mem' = mem /\ pc' # "failed"
  BY DEF PurgeDoc, IndexRecords, Start, PurgeRows, Unlink, Backend, Initialized, files, Goto,
         AfterPurge
<1>3. ASSUME NEW x \in Backend.index PROVE MayBe(x)' /\ Agrees(x)'
  <2>1. CASE \E d \in Doc : PurgeDoc(d) \/ IndexRecords(d)
    <3>1. pc = "idle" /\ pc' = "purge" /\ UNCHANGED <<rows, text>>
      BY <2>1 DEF PurgeDoc, IndexRecords, Start, Goto
    <3> QED
      BY <1>1, <3>1 DEF MayBe, Agrees, TextOf
  <2>2. CASE PurgeRows
    <3> DEFINE ids == {r \in RidsOf(job.doc) : rows[r] # None}
    <3>1. /\ pc = "purge" /\ rows' = [r \in Rid |-> IF r \in ids THEN None ELSE rows[r]]
          /\ text' = text
          /\ \/ ids = {} /\ pc' \in {"save", "done"} /\ job' = [job EXCEPT !.todo = job.rids]
             \/ job' = [job EXCEPT !.ids = ids, !.todo = ids] /\ pc' = "unlink"
      BY <2>2 DEF PurgeRows, Goto, AfterPurge
    <3>2. /\ job'.doc = job.doc
          /\ \/ ids = {} /\ pc' \in {"save", "done"}
             \/ pc' = "unlink" /\ job'.ids = ids
      BY <3>1, AtWork DEF JobType
    <3>3. rows[x.of.rid] = x.of.v /\ TextOf(x.of.rid, x.of.v)
      BY <1>1, <3>1 DEF Agrees
    <3>4. x.of.rid \in RidsOf(job.doc) => x.of.rid \in ids
      BY <1>1, <3>3, DocAssumption
    <3>5. x.of.rid \notin RidsOf(job.doc) => rows'[x.of.rid] = rows[x.of.rid]
      BY <1>1, <3>1
    <3> HIDE DEF ids
    <3> QED
      BY <3>1, <3>2, <3>3, <3>4, <3>5 DEF MayBe, Agrees, TextOf
  <2>3. CASE Unlink
    <3>1. PICK q \in job.todo : /\ job' = [job EXCEPT !.todo = @ \ {q}]
                                /\ text' \in {text, [text EXCEPT ![FileOf[q]] = None]}
      BY <2>3 DEF Unlink
    <3>2. /\ pc = "unlink" /\ pc' = pc /\ rows' = rows /\ job'.doc = job.doc
          /\ job'.ids = job.ids /\ job'.added = job.added /\ job'.rids = job.rids /\ job'.v = job.v
          /\ q \in Rid /\ q \in RidsOf(job.doc)
      BY <2>3, <3>1, AtWork DEF Unlink, JobType, Base, Request
    <3>3. ASSUME x.of.rid \notin RidsOf(job.doc), OwnFile(x.of.rid)
          PROVE  text'[FileOf[x.of.rid]] = text[FileOf[x.of.rid]]
      <4>1. x.of.rid # q /\ x.of.rid \in Rid
        BY <1>1, <3>2, <3>3
      <4> QED
        BY <3>1, <3>2, <3>3, <4>1, DocAssumption DEF Base, StoreType, OwnFile
    <3> QED
      BY <1>1, <3>2, <3>3 DEF MayBe, Agrees, TextOf
  <2> QED
    BY <2>1, <2>2, <2>3
<1> QED
  BY <1>1, <1>2, <1>3 DEF Faithful

\* Rows and texts are written, and the two files; requests are refused.
LEMMA FaithfulWrite ==
  ASSUME Base, Faithful, past = {}, past' = {},
         SaveText \/ Upsert \/ Refuse \/ EncodeFails \/ WriteIndex \/ WriteMap
  PROVE  Faithful'
<1>1. \A x \in Backend.index :
        /\ x.id \in DOMAIN Backend.ridOf /\ Backend.ridOf[x.id] = x.of.rid /\ MayBe(x) /\ Agrees(x)
        /\ x.of.rid \in Rid /\ x.of.v \in Version
  BY BackendType DEF Faithful
<1>2. /\ mem' = mem /\ pc \in {"save", "encode", "write_index", "write_map"}
      /\ pc' \notin {"idle", "purge", "unlink"}
  BY DEF SaveText, Upsert, Refuse, EncodeFails, WriteIndex, WriteMap, Goto, AfterPurge
<1>3. mem # None
  BY <1>2 DEF Base, Request
<1>4. Backend' = Backend
  BY <1>2, <1>3 DEF Backend
<1>5. job'.added = job.added /\ job'.doc = job.doc /\ job'.rids = job.rids /\ job'.v = job.v
  BY <1>2, AtWork DEF SaveText, Upsert, Refuse, EncodeFails, WriteIndex, WriteMap, JobType
<1>6. pc' = "failed" => ~job'.added
  <2>1. pc' = "failed" => pc \in {"save", "encode"}
    BY <1>2 DEF SaveText, Upsert, Refuse, EncodeFails, WriteIndex, WriteMap, Goto, AfterPurge
  <2> QED
    BY <1>5, <2>1 DEF Base, Request
<1>7. ASSUME NEW x \in Backend.index PROVE MayBe(x)' /\ Agrees(x)'
  <2>1. MayBe(x)'
    BY <1>1, <1>2, <1>5 DEF MayBe
  <2>2. ASSUME x.of.rid \notin RidsOf(job.doc)
        PROVE  /\ rows'[x.of.rid] = rows[x.of.rid]
               /\ OwnFile(x.of.rid) => text'[FileOf[x.of.rid]] = text[FileOf[x.of.rid]]
    <3>1. CASE SaveText
      <4>1. PICK q \in job.todo : text' = [text EXCEPT ![FileOf[q]] = [rid |-> q, v |-> job.v]]
        BY <3>1 DEF SaveText
      <4>2. q \in Rid /\ q \in RidsOf(job.doc) /\ rows' = rows
        BY <1>2, <3>1, AtWork DEF SaveText, Base, Request
      <4>3. x.of.rid # q /\ x.of.rid \in Rid
        BY <1>1, <2>2, <4>2
      <4> QED
        BY <4>1, <4>2, <4>3, TextApart
    <3>2. CASE Upsert
      <4>1. x.of.rid \notin job.rids
        BY <1>2, <2>2 DEF Base, Request
      <4> QED
        BY <1>1, <3>2, <4>1 DEF Upsert
    <3>3. CASE Refuse \/ EncodeFails \/ WriteIndex \/ WriteMap
      BY <3>3 DEF Refuse, EncodeFails, WriteIndex, WriteMap
    <3> QED
      BY <3>1, <3>2, <3>3
  <2>3. Agrees(x)'
    BY <1>1, <1>2, <1>5, <2>2 DEF Agrees, TextOf
  <2> QED
    BY <2>1, <2>3
<1> QED
  BY <1>1, <1>4, <1>6, <1>7 DEF Faithful

\* Vectors are removed from the index, and added.
LEMMA FaithfulVectors ==
  ASSUME Base, Faithful, past = {}, past' = {}, DropVectors \/ AddVectors
  PROVE  Faithful'
<1>1. /\ pc \in {"unlink", "encode"} /\ pc' = "write_index" /\ UNCHANGED <<rows, text>>
  BY DEF DropVectors, AddVectors, Goto
<1>2. /\ mem \in FaissBackend /\ MapsAgree(mem) /\ job.ids \in SUBSET Rid /\ job.rids \in SUBSET Rid
      /\ Backend = mem
  BY <1>1, AtWork, BackendType
<1>3. \A x \in mem.index :
        /\ x.id \in DOMAIN mem.ridOf /\ mem.ridOf[x.id] = x.of.rid /\ MayBe(x) /\ Agrees(x)
        /\ x.of.rid \in Rid
  BY <1>2, BackendType DEF Faithful
<1>4. mem' # None
  <2>1. Base'
    BY BaseNext DEF Next
  <2> QED
    BY <1>1, <2>1 DEF Base, Request
<1>5. Backend' = mem'
  BY <1>4 DEF Backend
<1>6. CASE DropVectors
  <2>1. mem' = Without(mem, job.ids) /\ job' = job /\ pc = "unlink"
    BY <1>6 DEF DropVectors
  <2>2. ~job.added
    BY <2>1 DEF Base, Request
  <2>3. /\ mem'.index = {x \in mem.index : x.id \notin IdsOf(mem, job.ids)}
        /\ DOMAIN mem'.ridOf = DOMAIN mem.ridOf \ IdsOf(mem, job.ids)
        /\ \A i \in DOMAIN mem.ridOf \ IdsOf(mem, job.ids) : mem'.ridOf[i] = mem.ridOf[i]
    BY <1>2, <2>1, WithoutType
  <2>4. ASSUME NEW x \in mem'.index
        PROVE  /\ x.id \in DOMAIN mem'.ridOf /\ mem'.ridOf[x.id] = x.of.rid
               /\ MayBe(x)' /\ Agrees(x)'
    <3>1. /\ x \in mem.index /\ x.id \notin IdsOf(mem, job.ids)
          /\ x.id \in DOMAIN mem.ridOf /\ mem.ridOf[x.id] = x.of.rid /\ MayBe(x) /\ Agrees(x)
      BY <1>3, <2>3
    <3>2. x.of.rid \notin job.ids
      BY <1>2, <3>1 DEF MapsAgree, IdsOf
    <3>3. x.of.rid \notin RidsOf(job.doc)
      BY <2>1, <2>2, <3>1, <3>2 DEF MayBe
    <3> QED
      BY <1>1, <2>1, <2>3, <3>1, <3>3 DEF MayBe, Agrees, TextOf
  <2> QED
    BY <1>1, <1>5, <2>4 DEF Faithful
<1>7. CASE AddVectors
  <2>1. /\ mem' = With(mem, job.rids, job.v) /\ job' = [job EXCEPT !.added = TRUE] /\ pc = "encode"
    BY <1>7 DEF AddVectors
  <2>2. /\ job.v \in Version /\ IsFiniteSet(job.rids) /\ ~job.added
        /\ mem.next + Cardinality(job.rids) <= MaxId
        /\ job'.rids = job.rids /\ job'.v = job.v /\ job'.doc = job.doc /\ job'.added
    BY <2>1, AtWork DEF Base, Request, JobType
  <2>3. \A x \in mem'.index :
          \/ x.of.rid \in job.rids /\ x.of.v = job.v
             /\ x.id \in DOMAIN mem'.ridOf /\ mem'.ridOf[x.id] = x.of.rid
          \/ x \in mem.index
             /\ (x.id \in DOMAIN mem.ridOf => /\ mem.ridOf[x.id] \notin job.rids
                                              /\ x.id \in DOMAIN mem'.ridOf
                                              /\ mem'.ridOf[x.id] = mem.ridOf[x.id])
    BY <1>2, <2>1, <2>2, WithTypeOf
  <2>4. ASSUME NEW x \in mem'.index
        PROVE  /\ x.id \in DOMAIN mem'.ridOf /\ mem'.ridOf[x.id] = x.of.rid
               /\ MayBe(x)' /\ Agrees(x)'
    <3>1. CASE /\ x.of.rid \in job.rids /\ x.of.v = job.v
               /\ x.id \in DOMAIN mem'.ridOf /\ mem'.ridOf[x.id] = x.of.rid
      <4>1. x.of.rid \in RidsOf(job.doc)
        BY <2>1, <3>1, AtWork
      <4> QED
        BY <1>1, <2>2, <3>1, <4>1 DEF MayBe, Agrees
    <3>2. CASE /\ x \in mem.index
               /\ x.id \in DOMAIN mem.ridOf => /\ mem.ridOf[x.id] \notin job.rids
                                               /\ x.id \in DOMAIN mem'.ridOf
                                               /\ mem'.ridOf[x.id] = mem.ridOf[x.id]
      <4>1. /\ x.id \in DOMAIN mem'.ridOf /\ mem'.ridOf[x.id] = x.of.rid /\ MayBe(x) /\ Agrees(x)
        BY <1>3, <3>2
      <4>2. x.of.rid \notin RidsOf(job.doc)
        BY <2>1, <2>2, <4>1 DEF MayBe
      <4> QED
        BY <1>1, <2>2, <4>1, <4>2 DEF MayBe, Agrees, TextOf
    <3> QED
      BY <2>3, <3>1, <3>2
  <2> QED
    BY <1>1, <1>5, <2>4 DEF Faithful
<1> QED
  BY <1>6, <1>7

\* The backend is loaded or closed, or nothing happens.
LEMMA FaithfulReload ==
  ASSUME Base, Faithful, past = {}, past' = {}, Load \/ Close \/ UNCHANGED vars
  PROVE  Faithful'
<1>1. UNCHANGED <<rows, text, pc, job>>
  BY DEF Load, Close, vars
<1>2. Backend'.index = Backend.index /\ Backend'.ridOf = Backend.ridOf
  <2>1. CASE Load
    <3>1. mem = None /\ mem' = Initialized
      BY <2>1 DEF Load
    <3>2. Initialized # None
      BY LoadedType, MapsOfType DEF Base
    <3> QED
      BY <3>1, <3>2 DEF Backend
  <2>2. CASE Close
    <3>1. /\ mem # None /\ mem' = None /\ idxFile' = mem.index /\ mapFile' = MapsOf(mem)
      BY <2>2 DEF Close
    <3>2. mem.index \notin {None, Broken} /\ MapsOf(mem) \notin {None, Broken}
      BY <3>1, MapsOfType DEF Base, StoreType
    <3> QED
      BY <3>1, <3>2 DEF Backend, Initialized, MapsOf
  <2>3. CASE UNCHANGED vars
    BY <2>3 DEF vars, files, Backend, Initialized
  <2> QED
    BY <2>1, <2>2, <2>3
<1> QED
  BY <1>1, <1>2 DEF Faithful, MayBe, Agrees, TextOf

\* The request ends: the vectors it put in are those of its rows and texts.
LEMMA FaithfulFinish ==
  ASSUME Base, Progress, Faithful, past = {}, past' = {}, Finish
  PROVE  Faithful'
<1>1. /\ pc \in {"done", "failed"} /\ pc' = "idle" /\ UNCHANGED <<rows, text, mem>>
  BY DEF Finish
<1>2. mem # None /\ Backend = mem /\ Backend' = mem
  BY <1>1 DEF Base, Request, Backend
<1>3. ASSUME NEW x \in mem.index
      PROVE  /\ x.id \in DOMAIN mem.ridOf /\ mem.ridOf[x.id] = x.of.rid
             /\ MayBe(x)' /\ Agrees(x)'
  <2>1. /\ x.id \in DOMAIN mem.ridOf /\ mem.ridOf[x.id] = x.of.rid /\ MayBe(x) /\ Agrees(x)
    BY <1>2 DEF Faithful
  <2>2. rows[x.of.rid] = x.of.v /\ TextOf(x.of.rid, x.of.v)
    <3>1. CASE x.of.rid \notin RidsOf(job.doc)
      BY <2>1, <3>1 DEF Agrees
    <3>2. CASE x.of.rid \in RidsOf(job.doc)
      <4>1. job.added /\ x.of.rid \in job.rids /\ x.of.v = job.v
        BY <1>1, <2>1, <3>2 DEF MayBe
      <4>2. pc = "done"
        BY <1>1, <4>1 DEF Faithful
      <4> QED
        BY <3>2, <4>1, <4>2 DEF Base, Request, RowsWanted, Progress
    <3> QED
      BY <3>1, <3>2
  <2> QED
    BY <1>1, <2>1, <2>2 DEF MayBe, Agrees, TextOf
<1> QED
  BY <1>1, <1>2, <1>3 DEF Faithful

\* Every step.
LEMMA FaithfulNext == ASSUME Base, Progress, Faithful, [Next]_vars PROVE Faithful'
<1> SUFFICES ASSUME past' = {} PROVE Faithful'
  BY DEF Faithful
<1>1. past = {}
  BY PastGrows
<1>2. ~Crash /\ ~WriteFails
  BY DEF Crash, WriteFails
<1> QED
  BY <1>1, <1>2, FaithfulPurge, FaithfulWrite, FaithfulVectors, FaithfulReload, FaithfulFinish
     DEF Next

\* A hit is a vector of the index.
LEMMA FaithfulHits == ASSUME Base, Faithful PROVE HitsAreFaithful
<1> SUFFICES ASSUME pc = "idle", past = {}, NEW hit \in Hits(Backend)
             PROVE  /\ hit.of = [rid |-> hit.label, v |-> rows[hit.label]]
                    /\ OwnFile(hit.label) => text[FileOf[hit.label]] = hit.of
  BY DEF HitsAreFaithful
<1>1. PICK x \in Backend.index : hit.label = Backend.ridOf[x.id] /\ hit.of = x.of
  BY DEF Hits
<1>2. /\ Backend.ridOf[x.id] = x.of.rid
      /\ rows[x.of.rid] = x.of.v /\ TextOf(x.of.rid, x.of.v)
  BY DEF Faithful, Agrees
<1>3. x.of = [rid |-> x.of.rid, v |-> x.of.v]
  BY BackendType
<1> QED
  BY <1>1, <1>2, <1>3 DEF TextOf

\* Without crashes and failing writes, the row, the vector and the text of a
\* search result are of the same version.
THEOREM HitsAgree == Spec => []HitsAreFaithful
<1>1. ASSUME Init PROVE Faithful
  <2>1. Backend = NewBackend
    BY <1>1 DEF Init, Backend, Initialized
  <2> QED
    BY <1>1, <2>1, NewIsBackend DEF Init, Faithful, NoJob
<1> QED
  BY <1>1, BaseAlways, ProgressAlways, FaithfulNext, FaithfulHits, PTL DEF Spec
=============================================================================
