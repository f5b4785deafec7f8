--------------------------- MODULE LocalStoreProofs ---------------------------
(***************************************************************************)
(* Proofs about LocalStore, for every number of threads, collections,      *)
(* queries and inodes, and for every choice of operations and faults.      *)
(*                                                                         *)
(* Base is the inductive invariant behind all of them: Control says how    *)
(* locks, steps and jobs fit together, Disk what is true of directories    *)
(* and handles whoever is at work, and Stage(t) what a thread with its     *)
(* locks may rely on at the step it is at.  A step of t keeps Stage of the *)
(* others because t changes only collections it has the write lock of      *)
(* (Local, OwnerAlone, OthersStage).                                       *)
(*                                                                         *)
(* On top of Base stand four invariants with a purpose of their own:       *)
(* Flushed (-wal files), Agree and AllListed (rows against directories, in *)
(* either direction) and InOrder (query homes against query logs).         *)
(***************************************************************************)
EXTENDS LocalStore, FiniteSetTheorems, TLAPS

\* The steps, as TypeOK lists them.
Label ==
  {"idle", "list", "mkdir", "open", "loaded", "register", "drop_cache", "erase",
   "unregister", "purge_homes", "check_dir", "check_row", "close_old", "move_dir",
   "rename_row", "rename_homes", "look", "put_home", "flush", "zip", "wipe", "place"}

\* The requests a thread may serve, and the log_query that follows a search.
JobType ==
  [op : Ops \cup {"none", "log"}, c : Coll \cup {None}, d : Coll \cup {None},
   q : Query \cup {None}, try : 0 .. Tries, todo : SUBSET Entry]

-----------------------------------------------------------------------------
(* Control.                                                                *)

\* The steps of each operation.
StepsOf(op) ==
  CASE op = "none" -> {"idle"}
    [] op \in {"create", "ingest", "purge"} -> {"mkdir", "open", "loaded", "register"}
    [] op = "delete" -> {"drop_cache", "erase", "unregister", "purge_homes"}
    [] op = "rename" -> {"check_dir", "check_row", "close_old", "move_dir", "mkdir", "open",
                         "loaded", "register", "rename_row", "rename_homes"}
    [] op = "search" -> {"look", "mkdir", "open", "loaded"}
    [] op = "log" -> {"look", "mkdir", "open", "loaded", "put_home"}
    [] op = "list" -> {"list"}
    [] op = "dump" -> {"flush", "zip"}
    [] op = "restore" -> {"flush", "wipe", "place"}

\* What a thread with job j needs at step p (Needs, for a job and a step).
NeedOf(p, j) ==
  CASE j.op \in {"dump", "restore"} -> Whole
    [] p \in {"put_home", "list"} -> Reads({})
    [] p = "look" -> Reads({j.c})
    [] OTHER -> Writes({j.c, j.d})

\* The steps a thread may be at without its locks.
Waiting(p, j) ==
  \/ p \in {"idle", "drop_cache", "check_dir", "look", "list", "flush", "put_home"}
  \/ p = "mkdir" /\ j.op # "rename"

\* Access a, step p and job j of a thread fit together.
Fits(a, p, j) ==
  /\ p \in StepsOf(j.op)
  /\ a = Free \/ a = NeedOf(p, j)
  /\ a = Free => Waiting(p, j)
  /\ p = "idle" => a = Free /\ j = NoJob
  /\ p # "idle" => j.c \in Coll /\ j.d \in Coll /\ (j.op = "rename" <=> j.c # j.d)
  /\ j.op = "log" => j.q \in Query /\ "search" \in Ops
  /\ j.op \in {"search", "log"} /\ p \in {"mkdir", "open", "loaded"} => j.try < Tries

\* Who has the catalog's guard waits at a step that needs the catalog.
BootOK ==
  /\ catOpen \in BOOLEAN /\ up \in BOOLEAN /\ guard \in Thread \cup {Main, None}
  /\ scan \in [todo : SUBSET Coll, found : SUBSET Coll]
  /\ catOpen => up /\ guard = None
  /\ guard = Main => ~up
  /\ ~up => \A t \in Thread : pc[t] = "idle"
  /\ guard \in Thread => access[guard] # Free /\ pc[guard] \in CatalogSteps

\* Locks exclude each other, and every thread is at a step that fits its job and
\* the locks it has.
Control ==
  /\ access \in [Thread -> AccessType] /\ pc \in [Thread -> Label]
  /\ job \in [Thread -> JobType]
  /\ Exclusion
  /\ \A t \in Thread : Fits(access[t], pc[t], job[t])
  /\ BootOK

-----------------------------------------------------------------------------
(* Disk and caches.                                                        *)

\* Types.
DiskType ==
  /\ dir \in [Coll -> Inode \cup {None}]
  /\ hasDb \subseteq Inode
  /\ log \in [Inode -> SUBSET Query] /\ wal \in [Inode -> SUBSET Query]
  /\ rows \subseteq Coll
  /\ home \in [Query -> Coll \cup {None}]
  /\ cache \in [Coll -> Inode \cup {None}]
  /\ archive = None \/ archive \in ArchiveType
  /\ issued \subseteq Query /\ past \subseteq Watch

\* Every cached handle is a handle on the directory of its collection.
HandlesLive == \A c \in Coll : cache[c] # None => cache[c] = dir[c] /\ dir[c] \in hasDb

\* No two collections have one directory.
DirsDiffer == \A c, d \in Coll : c # d /\ dir[c] = dir[d] => dir[c] = None

\* A restore has an archive.
ArchiveThere == \A t \in Thread : job[t].op = "restore" => archive \in ArchiveType

\* What holds at the step where a thread with locks is.
Stage(t) ==
  access[t] # Free =>
    LET p == pc[t]
        c == job[t].c
        d == job[t].d
    IN
    /\ p = "open" => dir[Target(t)] # None /\ cache[Target(t)] = None
    /\ p \in {"loaded", "register", "rename_row", "rename_homes"} => cache[Target(t)] # None
    /\ p \in {"erase", "unregister", "purge_homes"} => cache[c] = None
    /\ p \in {"unregister", "purge_homes"} => dir[c] = None
    /\ p \in {"zip", "wipe", "place"} =>
         (\A e \in Coll : cache[e] = None) /\ ~catOpen /\ guard = None
    /\ job[t].op = "rename" =>
         /\ p \in {"check_row", "close_old", "move_dir"} => dir[c] # None /\ dir[d] = None
         /\ p = "move_dir" => cache[c] = None
         /\ p \in {"mkdir", "open", "loaded", "register", "rename_row", "rename_homes"} =>
              dir[c] = None /\ dir[d] # None
         /\ p \in {"close_old", "move_dir", "mkdir", "open", "loaded", "register",
                   "rename_row"} => catOpen /\ d \notin rows
         /\ p = "rename_row" => c \in rows

\* What holds of disk and caches, whoever is at work.
Disk == DiskType /\ HandlesLive /\ DirsDiffer /\ ArchiveThere

\* The inductive invariant that all the others rest on.
Base == Control /\ Disk /\ \A t \in Thread : Stage(t)

-----------------------------------------------------------------------------
(* What a step of one thread leaves to the others.                         *)

\* The steps of a thread that writes the collections of its job.
WriteSteps ==
  {"mkdir", "open", "loaded", "register", "drop_cache", "erase", "unregister", "purge_homes",
   "check_dir", "check_row", "close_old", "move_dir", "rename_row", "rename_homes"}

\* Collection c is as it was.
Untouched(c) ==
  /\ dir'[c] = dir[c] /\ cache'[c] = cache[c]
  /\ c \in rows' <=> c \in rows
  /\ Stored(c)' <=> Stored(c)

\* Thread t touches only what it has access to.
Local(t) ==
  /\ \A u \in Thread \ {t} : access'[u] = access[u] /\ pc'[u] = pc[u] /\ job'[u] = job[u]
  /\ \A c \in Coll : t \in WritersOf(c) \/ Untouched(c)
  /\ access[t] # Whole => (catOpen <=> catOpen')
  /\ access[t] = Free => guard' = guard

\* What a step of t has to show.
Sound(t) == Disk' /\ Stage(t)' /\ Local(t)

-----------------------------------------------------------------------------
(* Inodes.                                                                 *)

\* Inode i is behind some collection.
Taken(i) == \E c \in Coll : i \in {dir[c], cache[c]}

\* A new directory gets an inode that no other directory and no handle has.
LEMMA FreshIsNew ==
  ASSUME dir \in [Coll -> Inode \cup {None}], HandlesLive
  PROVE  Fresh \in Inode /\ \A c \in Coll : dir[c] # Fresh /\ cache[c] # Fresh
<1> USE StoreAssumption
<1>1. \E i \in Inode : ~Taken(i)
  <2> SUFFICES ASSUME \A i \in Inode : Taken(i) PROVE FALSE
    OBVIOUS
  <2>1. PICK some \in SUBSET Inode : IsFiniteSet(some) /\ Cardinality(some) > Cardinality(Coll)
    OBVIOUS
  <2>2. IsFiniteSet(Coll) /\ Cardinality(Coll) \in Nat /\ Cardinality(some) \in Nat
    BY <2>1, FS_CardinalityType
  <2>3. some # {}
    BY <2>1, <2>2, FS_EmptySet
  <2>4. PICK one \in some : TRUE
    BY <2>3
  <2> DEFINE f == [c \in Coll |-> IF dir[c] \in some THEN dir[c] ELSE one]
  <2>5. \A i \in some : \E c \in Coll : f[c] = i
    <3> SUFFICES ASSUME NEW i \in some PROVE \E c \in Coll : f[c] = i
      OBVIOUS
    <3>1. PICK c \in Coll : i \in {dir[c], cache[c]}
      BY DEF Taken
    <3>2. i # None
      BY <2>1
    <3>3. dir[c] = i
      BY <3>1, <3>2 DEF HandlesLive
    <3> QED
      BY <3>3
  <2>6. f \in Surjection(Coll, some)
    BY <2>5 DEF Surjection
  <2>7. Cardinality(some) <= Cardinality(Coll)
    BY <2>2, <2>6, FS_Surjection
  <2> QED
    BY <2>1, <2>2, <2>7
<1>2. \E i \in Inode : ~Taken(i) /\ \A j \in Inode : j < i => Taken(j)
  <2> DEFINE Unused == {i \in Inode : ~Taken(i)}
  <2>1. Unused \subseteq Nat /\ Unused # {}
    BY <1>1
  <2>2. PICK i \in Unused : \A j \in Unused : ~(<<j, i>> \in OpToRel(<, Nat))
    BY <2>1, NatLessThanWellFounded, WFMin
  <2>3. \A j \in Unused : ~(j < i)
    BY <2>1, <2>2 DEF OpToRel
  <2> QED
    BY <2>3
<1>3. \E i \in Inode : /\ \A c \in Coll : i \notin {dir[c], cache[c]}
                       /\ \A j \in Inode : j < i => \E c \in Coll : j \in {dir[c], cache[c]}
  BY <1>2 DEF Taken
<1> QED
  BY <1>3 DEF Fresh

-----------------------------------------------------------------------------
(* Control: a step of one thread.                                          *)

\* A thread has a job of its own and an access that fits it.
LEMMA OwnTypes ==
  ASSUME Control, NEW t \in Thread
  PROVE  /\ job[t] \in JobType /\ pc[t] \in Label /\ access[t] \in AccessType
         /\ Fits(access[t], pc[t], job[t])
         /\ pc[t] # "idle" => up
BY DEF Control, BootOK

\* What the lattice grants for a job has the type of an access.
LEMMA NeedType ==
  ASSUME NEW p, NEW j, j.c \in Coll, j.d \in Coll
  PROVE  NeedOf(p, j) \in AccessType /\ NeedOf(p, j) # Free
BY DEF NeedOf, AccessType, Whole, Reads, Writes, Free

\* The free access is compatible with every other.
LEMMA FreeIsCompatible ==
  ASSUME NEW a PROVE Compatible(Free, a) /\ Compatible(a, Free)
BY DEF Compatible, Free

\* Compatibility has no sides.
LEMMA CompatibleBothWays ==
  ASSUME NEW a, NEW b, Compatible(a, b) PROVE Compatible(b, a)
BY DEF Compatible

\* A thread moves to step p with job j and access a: nobody else is disturbed.
LEMMA Moves ==
  ASSUME Control, NEW t \in Thread, up, guard # t,
         NEW p \in Label, NEW j \in JobType, NEW a \in AccessType,
         access' = [access EXCEPT ![t] = a],
         pc' = [pc EXCEPT ![t] = p],
         job' = [job EXCEPT ![t] = j],
         Fits(a, p, j),
         a \in {access[t], Free} \/ \A u \in Thread \ {t} : Compatible(a, access[u]),
         UNCHANGED <<guard, scan, up>>, catOpen' \in BOOLEAN, catOpen' => catOpen
  PROVE  Control'
<1> USE DEF Control
<1>1. /\ access' \in [Thread -> AccessType] /\ pc' \in [Thread -> Label]
      /\ job' \in [Thread -> JobType]
  OBVIOUS
<1>2. /\ access'[t] = a /\ pc'[t] = p /\ job'[t] = j
      /\ \A u \in Thread : u # t =>
           access'[u] = access[u] /\ pc'[u] = pc[u] /\ job'[u] = job[u]
  OBVIOUS
<1>3. \A u \in Thread : Fits(access'[u], pc'[u], job'[u])
  <2> SUFFICES ASSUME NEW u \in Thread PROVE Fits(access'[u], pc'[u], job'[u])
    OBVIOUS
  <2>1. CASE u = t
    BY <1>2, <2>1
  <2>2. CASE u # t
    BY <1>2, <2>2
  <2> QED
    BY <2>1, <2>2
<1>4. \A u \in Thread \ {t} : Compatible(a, access[u])
  <2>1. CASE a = access[t]
    BY <2>1 DEF Exclusion
  <2>2. CASE a = Free
    BY <2>2, FreeIsCompatible
  <2> QED
    BY <2>1, <2>2
<1>5. \A u \in Thread \ {t} : Compatible(access[u], a)
  BY <1>4, CompatibleBothWays
<1>6. Exclusion'
  BY <1>2, <1>4, <1>5 DEF Exclusion
<1>7. BootOK'
  <2>1. guard \in Thread => access'[guard] # Free /\ pc'[guard] \in CatalogSteps
    BY <1>2 DEF BootOK
  <2>2. catOpen' => up /\ guard = None
    BY DEF BootOK
  <2> QED
    BY <2>1, <2>2 DEF BootOK
<1> QED
  BY <1>1, <1>3, <1>6, <1>7

\* The same for a step that keeps the locks and the job.
LEMMA StepControl ==
  ASSUME Control, NEW t \in Thread, guard # t, NEW p \in Label,
         access[t] # Free, Step(t, p), p # "idle",
         p \in StepsOf(job[t].op),
         NeedOf(p, job[t]) = NeedOf(pc[t], job[t]),
         job[t].op \in {"search", "log"} => pc[t] \in {"mkdir", "open"},
         UNCHANGED <<guard, scan, up>>, catOpen' \in BOOLEAN, catOpen' => catOpen
  PROVE  Control'
<1>1. /\ job[t] \in JobType /\ access[t] \in AccessType /\ pc[t] \in Label
      /\ Fits(access[t], pc[t], job[t])
      /\ pc[t] # "idle" => up
  BY OwnTypes
<1>2. pc[t] # "idle"
  BY <1>1 DEF Fits
<1>3. access' = [access EXCEPT ![t] = access[t]] /\ job' = [job EXCEPT ![t] = job[t]]
      /\ pc' = [pc EXCEPT ![t] = p]
  BY DEF Control, Step, Goto
<1>4. Fits(access[t], p, job[t])
  <2>1. access[t] = NeedOf(p, job[t])
    BY <1>1 DEF Fits
  <2>2. job[t].c \in Coll /\ job[t].d \in Coll /\ (job[t].op = "rename" <=> job[t].c # job[t].d)
        /\ (job[t].op = "log" => job[t].q \in Query /\ "search" \in Ops)
    BY <1>1, <1>2 DEF Fits
  <2>3. job[t].op \in {"search", "log"} => job[t].try < Tries
    BY <1>1 DEF Fits
  <2> QED
    BY <2>1, <2>2, <2>3 DEF Fits
<1> QED
  BY <1>1, <1>2, <1>3, <1>4, Moves

\* A request that is over leaves nothing held.
LEMMA EndControl ==
  ASSUME Control, NEW t \in Thread, guard # t, End(t),
         UNCHANGED <<guard, scan, up>>, catOpen' \in BOOLEAN, catOpen' => catOpen
  PROVE  Control'
<1>1. access[t] # Free
  BY DEF End, Yield
<1>2. Fits(access[t], pc[t], job[t]) /\ (pc[t] # "idle" => up)
  BY OwnTypes
<1>3. up
  BY <1>1, <1>2 DEF Fits
<1>4. Free \in AccessType /\ NoJob \in JobType /\ "idle" \in Label
  BY DEF Free, AccessType, NoJob, JobType, Label, Tries
<1>5. Fits(Free, "idle", NoJob)
  BY DEF Fits, StepsOf, NoJob, Waiting
<1> QED
  BY <1>3, <1>4, <1>5, Moves DEF End, Yield

-----------------------------------------------------------------------------
(* Control: the steps.                                                     *)

\* The step a thread is at tells its operation.
LEMMA OpAt ==
  ASSUME Control, NEW t \in Thread
  PROVE  LET p == pc[t]
             op == job[t].op
         IN  /\ p \in {"drop_cache", "erase", "unregister", "purge_homes"} => op = "delete"
             /\ p \in {"check_dir", "check_row", "close_old", "move_dir", "rename_row",
                       "rename_homes"} => op = "rename"
             /\ p \in {"mkdir", "open", "loaded", "register"} =>
                  op \in {"create", "ingest", "purge", "rename", "search", "log"}
             /\ p = "register" => op \in {"create", "ingest", "purge", "rename"}
             /\ p = "list" => op = "list"
             /\ p = "look" => op \in {"search", "log"}
             /\ p = "put_home" => op = "log"
             /\ p = "flush" => op \in {"dump", "restore"}
             /\ p = "zip" => op = "dump"
             /\ p \in {"wipe", "place"} => op = "restore"
             /\ op \in Ops \cup {"none", "log"}
             /\ p # "idle" => op # "none" /\ job[t].c \in Coll /\ job[t].d \in Coll
             /\ op = "rename" <=> p # "idle" /\ job[t].c # job[t].d
<1>1. pc[t] \in StepsOf(job[t].op) /\ job[t].op \in Ops \cup {"none", "log"}
  BY OwnTypes DEF Fits, JobType
<1>2. /\ pc[t] # "idle" => /\ job[t].c \in Coll /\ job[t].d \in Coll
                           /\ job[t].op = "rename" <=> job[t].c # job[t].d
      /\ pc[t] = "idle" => job[t] = NoJob
  BY OwnTypes DEF Fits
<1>3. NoJob.op = "none"
  BY DEF NoJob
<1> QED
  BY <1>1, <1>2, <1>3, StoreAssumption DEF StepsOf

\* A thread that is at a step with its locks held does not hold the guard,
\* unless it is a step that needs the catalog and finds it closed.
LEMMA NotGuard ==
  ASSUME Control, NEW t \in Thread, pc[t] \notin CatalogSteps \/ catOpen
  PROVE  guard # t
BY StoreAssumption DEF Control, BootOK

\* A request comes in.
LEMMA BeginControl == ASSUME Control, NEW t \in Thread, Begin(t) PROVE Control'
<1>1. PICK op \in Ops, c \in Coll, d \in Coll :
        /\ op = "rename" <=> c # d
        /\ job' = [job EXCEPT ![t] = [NoJob EXCEPT !.op = op, !.c = c, !.d = d]]
        /\ pc' = [pc EXCEPT ![t] = FirstStep(op)]
  BY DEF Begin, Goto
<1>2. /\ up /\ pc[t] = "idle" /\ UNCHANGED <<access, catOpen, guard, scan, up>>
  BY DEF Begin, boot
<1>3. access[t] = Free /\ guard # t
  BY <1>2, OwnTypes, NotGuard DEF Fits, CatalogSteps
<1>4. PICK j : j = [NoJob EXCEPT !.op = op, !.c = c, !.d = d]
  OBVIOUS
<1>5. /\ j \in JobType /\ j.op = op /\ j.c = c /\ j.d = d /\ j.try = 0
  <2>1. j = [op |-> op, c |-> c, d |-> d, q |-> None, try |-> 0, todo |-> {}]
    BY <1>4 DEF NoJob
  <2>2. 0 \in 0 .. Tries /\ {} \in SUBSET Entry
    BY DEF Tries
  <2> QED
    BY <2>1, <2>2 DEF JobType
<1>6. PICK p : p = FirstStep(op)
  OBVIOUS
<1>7. p \in Label /\ p \in StepsOf(op) /\ p # "idle" /\ op # "log" /\ op # "none"
      /\ Waiting(p, j)
  BY <1>5, <1>6, StoreAssumption DEF FirstStep, StepsOf, Label, Waiting
<1>8. Fits(Free, p, j)
  BY <1>1, <1>5, <1>7 DEF Fits, Tries
<1>9. access' = [access EXCEPT ![t] = Free]
  BY <1>2, <1>3 DEF Control
<1>10. catOpen' \in BOOLEAN /\ (catOpen' => catOpen)
  BY <1>2 DEF Control, BootOK
<1>11. Free \in AccessType
  BY DEF Free, AccessType
<1> QED
  BY <1>1, <1>2, <1>3, <1>4, <1>5, <1>6, <1>7, <1>8, <1>9, <1>10, <1>11, Moves

\* A thread gets the locks its next step needs.
LEMMA EnterControl == ASSUME Control, NEW t \in Thread, Enter(t) PROVE Control'
<1>1. /\ pc[t] # "idle" /\ access[t] = Free
      /\ access' = [access EXCEPT ![t] = Needs(t)]
      /\ \A u \in Thread \ {t} : Compatible(Needs(t), access[u])
      /\ UNCHANGED <<pc, job, catOpen, guard, scan, up>>
  BY DEF Enter, Grant, store, boot
<1>2. /\ Fits(access[t], pc[t], job[t])
      /\ up /\ job[t] \in JobType /\ pc[t] \in Label
  BY <1>1, OwnTypes
<1>3. Needs(t) = NeedOf(pc[t], job[t])
  BY DEF Needs, NeedOf
<1>4. job[t].c \in Coll /\ job[t].d \in Coll
  BY <1>1, OpAt
<1>5. PICK a : a = NeedOf(pc[t], job[t])
  OBVIOUS
<1>6. a \in AccessType /\ a # Free
  BY <1>4, <1>5, NeedType
<1>7. Fits(a, pc[t], job[t])
  BY <1>1, <1>2, <1>5, <1>6 DEF Fits
<1>8. guard # t
  BY <1>1, StoreAssumption DEF Control, BootOK
<1>9. pc' = [pc EXCEPT ![t] = pc[t]] /\ job' = [job EXCEPT ![t] = job[t]]
  BY <1>1 DEF Control
<1>10. catOpen' \in BOOLEAN /\ (catOpen' => catOpen)
  BY <1>1 DEF Control, BootOK
<1>11. access' = [access EXCEPT ![t] = a] /\ \A u \in Thread \ {t} : Compatible(a, access[u])
  BY <1>1, <1>3, <1>5
<1> QED
  BY <1>1, <1>2, <1>6, <1>7, <1>8, <1>9, <1>10, <1>11, Moves

\* The catalog is opened under its guard, by a thread that needs it or at the start.
LEMMA OpenCatalogControl ==
  ASSUME Control, NEW t \in Thread, OpenCatalog(t) PROVE Control'
<1>1. UNCHANGED <<access, pc, job, catOpen, up>> /\ guard' = t /\ ~catOpen
      /\ pc[t] \in CatalogSteps /\ access[t] # Free
      /\ scan' = [todo |-> Coll, found |-> {}]
  BY DEF OpenCatalog, Scanning
<1>2. up
  BY <1>1, OwnTypes DEF CatalogSteps
<1>3. BootOK'
  BY <1>1, <1>2, StoreAssumption DEF Control, BootOK
<1> QED
  BY <1>1, <1>3 DEF Control, Exclusion

\* A bootstrap begins before the first request.
LEMMA BootControl == ASSUME Control, Boot PROVE Control'
<1>1. UNCHANGED <<access, pc, job, catOpen, up>> /\ guard' = Main /\ ~up
      /\ scan' = [todo |-> Coll, found |-> {}]
  BY DEF Boot, Scanning
<1>2. BootOK'
  BY <1>1, StoreAssumption DEF Control, BootOK
<1> QED
  BY <1>1, <1>2 DEF Control, Exclusion

\* The scan and its end move no thread.
LEMMA ScanControl == ASSUME Control, ScanDir \/ Reconcile PROVE Control'
<1>1. UNCHANGED <<access, pc, job>>
  BY DEF ScanDir, Reconcile
<1>2. CASE ScanDir
  <2>1. /\ UNCHANGED <<catOpen, guard, up>>
        /\ \E c \in scan.todo :
             scan' = [todo |-> scan.todo \ {c},
                      found |-> IF Stored(c) THEN scan.found \cup {c} ELSE scan.found]
    BY <1>2 DEF ScanDir
  <2>2. scan' \in [todo : SUBSET Coll, found : SUBSET Coll]
    BY <2>1 DEF Control, BootOK
  <2>3. BootOK'
    BY <1>1, <2>1, <2>2 DEF Control, BootOK
  <2> QED
    BY <1>1, <2>3 DEF Control, Exclusion
<1>3. CASE Reconcile
  <2>1. catOpen' = TRUE /\ up' = TRUE /\ guard' = None
        /\ scan' = [todo |-> {}, found |-> {}]
    BY <1>3 DEF Reconcile
  <2>2. BootOK'
    BY <1>1, <2>1, StoreAssumption DEF Control, BootOK
  <2> QED
    BY <1>1, <2>2 DEF Control, Exclusion
<1> QED
  BY <1>2, <1>3

\* After a crash nobody is at work.
LEMMA CrashControl == ASSUME Control, Crash PROVE Control'
<1>1. /\ access' = [t \in Thread |-> Free] /\ pc' = [t \in Thread |-> "idle"]
      /\ job' = [t \in Thread |-> NoJob]
      /\ catOpen' = FALSE /\ guard' = None /\ up' = FALSE
      /\ scan' = [todo |-> {}, found |-> {}]
  BY DEF Crash
<1>2. Free \in AccessType /\ NoJob \in JobType /\ "idle" \in Label
  BY DEF Free, AccessType, NoJob, JobType, Label, Tries
<1>3. Fits(Free, "idle", NoJob)
  BY DEF Fits, StepsOf, NoJob, Waiting
<1>4. Exclusion'
  BY <1>1, FreeIsCompatible DEF Exclusion
<1>5. BootOK'
  BY <1>1, StoreAssumption DEF BootOK
<1> QED
  BY <1>1, <1>2, <1>3, <1>4, <1>5 DEF Control

\* The steps of a change of one or two collections that keep their locks, up to
\* the last one.
LEMMA WriteStepsControl ==
  ASSUME Control, NEW t \in Thread,
         \/ MkDir(t) \/ Open(t) \/ Loaded(t) \/ Register(t)
         \/ DropCache(t) \/ Unregister(t) \/ PurgeHomes(t)
         \/ CheckDir(t) \/ CheckRow(t) \/ CloseOld(t) \/ MoveDir(t)
         \/ RenameRow(t) \/ RenameHomes(t) \/ List(t) \/ PutHome(t) \/ Zip(t)
         \/ CatalogFails(t)
  PROVE  Control'
<1>1. UNCHANGED <<catOpen, guard, scan, up>>
  <2>1. CASE MkDir(t) \/ Open(t) \/ Loaded(t) \/ DropCache(t) \/ CheckDir(t) \/ CloseOld(t)
    BY <2>1 DEF MkDir, Open, Loaded, DropCache, CheckDir, CloseOld, store, boot
  <2>2. CASE MoveDir(t) \/ Zip(t) \/ CatalogFails(t)
    BY <2>2 DEF MoveDir, Zip, CatalogFails, boot
  <2>3. CASE Register(t) \/ Unregister(t) \/ PurgeHomes(t) \/ CheckRow(t)
    BY <2>3 DEF Register, Unregister, PurgeHomes, CheckRow, InCatalog, boot
  <2>4. CASE RenameRow(t) \/ RenameHomes(t) \/ List(t) \/ PutHome(t)
    BY <2>4 DEF RenameRow, RenameHomes, List, PutHome, InCatalog, boot
  <2> QED
    BY <2>1, <2>2, <2>3, <2>4
<1>2. catOpen' \in BOOLEAN /\ (catOpen' => catOpen)
  BY <1>1 DEF Control, BootOK
<1>3. access[t] # Free
  <2>1. CASE MkDir(t) \/ Open(t) \/ Loaded(t) \/ DropCache(t) \/ CheckDir(t) \/ CloseOld(t)
    BY <2>1 DEF MkDir, Open, Loaded, DropCache, CheckDir, CloseOld, At
  <2>2. CASE MoveDir(t) \/ Zip(t) \/ CatalogFails(t)
    BY <2>2 DEF MoveDir, Zip, CatalogFails, At
  <2>3. CASE Register(t) \/ Unregister(t) \/ PurgeHomes(t) \/ CheckRow(t)
    BY <2>3 DEF Register, Unregister, PurgeHomes, CheckRow, InCatalog, At
  <2>4. CASE RenameRow(t) \/ RenameHomes(t) \/ List(t) \/ PutHome(t)
    BY <2>4 DEF RenameRow, RenameHomes, List, PutHome, InCatalog, At
  <2> QED
    BY <2>1, <2>2, <2>3, <2>4
<1>4. guard # t
  <2>1. CASE MkDir(t) \/ Open(t) \/ Loaded(t) \/ DropCache(t) \/ CheckDir(t) \/ CloseOld(t)
    <3>1. pc[t] \in {"mkdir", "open", "loaded", "drop_cache", "check_dir", "close_old"}
      BY <2>1 DEF MkDir, Open, Loaded, DropCache, CheckDir, CloseOld, At
    <3> QED
      BY <3>1, NotGuard DEF CatalogSteps
  <2>2. CASE MoveDir(t) \/ Zip(t)
    <3>1. pc[t] \in {"move_dir", "zip"}
      BY <2>2 DEF MoveDir, Zip, At
    <3> QED
      BY <3>1, NotGuard DEF CatalogSteps
  <2>3. CASE Register(t) \/ Unregister(t) \/ PurgeHomes(t) \/ CheckRow(t)
    BY <2>3, NotGuard DEF Register, Unregister, PurgeHomes, CheckRow, InCatalog
  <2>4. CASE RenameRow(t) \/ RenameHomes(t) \/ List(t) \/ PutHome(t)
    BY <2>4, NotGuard DEF RenameRow, RenameHomes, List, PutHome, InCatalog
  <2>5. CASE CatalogFails(t)
    BY <2>5 DEF CatalogFails
  <2> QED
    BY <2>1, <2>2, <2>3, <2>4, <2>5
<1>5. End(t) => Control'
  BY <1>1, <1>2, <1>4, EndControl
<1>6. ASSUME NEW p \in {"open", "loaded", "register", "erase", "purge_homes", "check_row",
                        "close_old", "move_dir", "mkdir", "rename_row", "rename_homes"},
             Step(t, p), p \in StepsOf(job[t].op),
             job[t].op \in {"create", "ingest", "purge", "delete", "rename", "search", "log"},
             pc[t] \in Label \ {"put_home", "list", "look"},
             job[t].op \in {"search", "log"} => pc[t] \in {"mkdir", "open"}
      PROVE  Control'
  <2>1. p \in Label /\ p # "idle"
    BY DEF Label
  <2>2. NeedOf(p, job[t]) = NeedOf(pc[t], job[t])
    BY <1>6 DEF NeedOf
  <2> QED
    BY <1>1, <1>2, <1>3, <1>4, <1>6, <2>1, <2>2, StepControl
<1>7. CASE MkDir(t)
  <2>1. pc[t] = "mkdir" /\ (Step(t, "loaded") \/ Step(t, "open"))
    BY <1>7 DEF MkDir, At
  <2>2. job[t].op \in {"create", "ingest", "purge", "rename", "search", "log"}
    BY <2>1, OpAt
  <2>3. {"open", "loaded"} \subseteq StepsOf(job[t].op)
    BY <2>2 DEF StepsOf
  <2> QED
    BY <1>6, <2>1, <2>2, <2>3 DEF Label
<1>8. CASE Open(t)
  <2>1. pc[t] = "open" /\ Step(t, "loaded")
    BY <1>8 DEF Open, At
  <2>2. job[t].op \in {"create", "ingest", "purge", "rename", "search", "log"}
    BY <2>1, OpAt
  <2>3. "loaded" \in StepsOf(job[t].op)
    BY <2>2 DEF StepsOf
  <2> QED
    BY <1>6, <2>1, <2>2, <2>3 DEF Label
<1>9. CASE Loaded(t)
  <2>1. /\ pc[t] = "loaded"
        /\ \/ job[t].op \in {"create", "ingest", "rename"} /\ Step(t, "register")
           \/ End(t)
    BY <1>9 DEF Loaded, At
  <2>2. CASE job[t].op \in {"create", "ingest", "rename"} /\ Step(t, "register")
    <3>1. "register" \in StepsOf(job[t].op)
      BY <2>2 DEF StepsOf
    <3> QED
      BY <1>6, <2>1, <2>2, <3>1 DEF Label
  <2> QED
    BY <1>5, <2>1, <2>2
<1>10. CASE Register(t)
  <2>1. /\ pc[t] = "register"
        /\ \/ job[t].op = "rename" /\ Step(t, "rename_row")
           \/ End(t)
    BY <1>10 DEF Register, InCatalog, At
  <2>2. CASE job[t].op = "rename" /\ Step(t, "rename_row")
    <3>1. "rename_row" \in StepsOf(job[t].op)
      BY <2>2 DEF StepsOf
    <3> QED
      BY <1>6, <2>1, <2>2, <3>1 DEF Label
  <2> QED
    BY <1>5, <2>1, <2>2
<1>11. CASE DropCache(t) \/ Unregister(t)
  <2>1. /\ pc[t] \in {"drop_cache", "unregister"}
        /\ Step(t, "erase") \/ Step(t, "purge_homes")
    BY <1>11 DEF DropCache, Unregister, InCatalog, At
  <2>2. job[t].op = "delete"
    BY <2>1, OpAt
  <2>3. {"erase", "purge_homes"} \subseteq StepsOf(job[t].op)
    BY <2>2 DEF StepsOf
  <2> QED
    BY <1>6, <2>1, <2>2, <2>3 DEF Label
<1>12. CASE CheckDir(t) \/ CheckRow(t) \/ CloseOld(t) \/ MoveDir(t) \/ RenameRow(t)
  <2>1. pc[t] \in {"check_dir", "check_row", "close_old", "move_dir", "rename_row"}
    BY <1>12 DEF CheckDir, CheckRow, CloseOld, MoveDir, RenameRow, InCatalog, At
  <2>2. \/ Step(t, "check_row") \/ Step(t, "close_old") \/ Step(t, "move_dir")
        \/ Step(t, "mkdir") \/ Step(t, "rename_homes") \/ End(t)
    BY <1>12 DEF CheckDir, CheckRow, CloseOld, MoveDir, RenameRow
  <2>3. job[t].op = "rename"
    BY <2>1, OpAt
  <2>4. {"check_row", "close_old", "move_dir", "mkdir", "rename_homes"}
          \subseteq StepsOf(job[t].op)
    BY <2>3 DEF StepsOf
  <2> QED
    BY <1>5, <1>6, <2>1, <2>2, <2>3, <2>4 DEF Label
<1>13. CASE \/ PurgeHomes(t) \/ RenameHomes(t) \/ List(t) \/ PutHome(t) \/ Zip(t)
            \/ CatalogFails(t)
  BY <1>5, <1>13 DEF PurgeHomes, RenameHomes, List, PutHome, Zip, CatalogFails
<1> QED
  BY <1>7, <1>8, <1>9, <1>10, <1>11, <1>12, <1>13

\* A collection is erased entry by entry.
LEMMA EraseControl == ASSUME Control, NEW t \in Thread, Erase(t) PROVE Control'
<1>1. /\ pc[t] = "erase" /\ access[t] # Free
      /\ UNCHANGED <<access, job, catOpen, guard, scan, up>>
      /\ UNCHANGED pc \/ Goto(t, "unregister")
  BY DEF Erase, At, boot
<1>2. CASE UNCHANGED pc
  BY <1>1, <1>2 DEF Control, Exclusion, BootOK
<1>3. CASE Goto(t, "unregister")
  <2>1. Step(t, "unregister")
    BY <1>1, <1>3 DEF Step
  <2>2. job[t].op = "delete"
    BY <1>1, OpAt
  <2>3. "unregister" \in StepsOf(job[t].op)
        /\ NeedOf("unregister", job[t]) = NeedOf(pc[t], job[t])
    BY <1>1, <2>2 DEF StepsOf, NeedOf
  <2>4. catOpen' \in BOOLEAN /\ (catOpen' => catOpen)
    BY <1>1 DEF Control, BootOK
  <2>5. guard # t
    BY <1>1, NotGuard DEF CatalogSteps
  <2> QED
    BY <1>1, <2>1, <2>2, <2>3, <2>4, <2>5, StepControl DEF Label
<1> QED
  BY <1>1, <1>2, <1>3

\* A search or a log_query gives its locks up between two looks at the cache.
LEMMA LookControl ==
  ASSUME Control, NEW t \in Thread,
         SearchHit(t) \/ LogHit(t) \/ Miss(t) \/ LookAgain(t)
  PROVE  Control'
<1>1. UNCHANGED <<catOpen, guard, scan, up>> /\ access[t] # Free
  BY DEF SearchHit, LogHit, Miss, LookAgain, At, store, boot
<1>2. pc[t] \in {"look", "loaded"}
  BY DEF SearchHit, LogHit, Miss, LookAgain, At
<1>3. guard # t
  BY <1>2, NotGuard DEF CatalogSteps
<1>4. catOpen' \in BOOLEAN /\ (catOpen' => catOpen)
  BY <1>1 DEF Control, BootOK
<1>5. End(t) => Control'
  BY <1>1, <1>3, <1>4, EndControl
<1>6. /\ job[t] \in JobType /\ up
      /\ job[t].c \in Coll /\ job[t].d \in Coll
      /\ Fits(access[t], pc[t], job[t])
  BY <1>2, OwnTypes, OpAt
<1>7. ASSUME NEW p \in Label \ {"idle"}, NEW j \in JobType,
             j.c = job[t].c, j.d = job[t].d, j.op \in {"search", "log"},
             job[t].op \in {"search", "log"},
             p \in StepsOf(j.op), Waiting(p, j),
             j.op = "log" => j.q \in Query /\ "search" \in Ops,
             p \in {"mkdir", "open", "loaded"} => j.try < Tries,
             Yield(t), pc' = [pc EXCEPT ![t] = p], job' = [job EXCEPT ![t] = j]
      PROVE  Control'
  <2>1. Fits(Free, p, j)
    BY <1>2, <1>6, <1>7 DEF Fits
  <2>2. Free \in AccessType
    BY DEF Free, AccessType
  <2>3. access' = [access EXCEPT ![t] = Free]
    BY <1>7 DEF Yield
  <2> QED
    BY <1>1, <1>3, <1>4, <1>6, <1>7, <2>1, <2>2, <2>3, Moves
<1>8. "look" \in Label /\ "mkdir" \in Label /\ "put_home" \in Label
  BY DEF Label
<1>9. ASSUME WriteLog(t), job' = job, job[t].op = "log" PROVE Control'
  <2>1. Yield(t) /\ pc' = [pc EXCEPT ![t] = "put_home"] /\ job' = [job EXCEPT ![t] = job[t]]
    BY <1>9 DEF WriteLog, Goto, Control
  <2>2. "put_home" \in StepsOf(job[t].op) /\ Waiting("put_home", job[t])
        /\ (job[t].op = "log" => job[t].q \in Query /\ "search" \in Ops)
    BY <1>6, <1>9 DEF StepsOf, Waiting, Fits
  <2> QED
    BY <1>6, <1>7, <1>8, <1>9, <2>1, <2>2
<1>10. CASE SearchHit(t)
  <2>1. CASE issued = Query
    BY <1>5, <1>10, <2>1 DEF SearchHit
  <2>2. CASE issued # Query
    <3>1. PICK q \in Query \ issued :
            /\ Yield(t)
            /\ job' = [job EXCEPT ![t].op = "log", ![t].q = q, ![t].try = 0]
            /\ UNCHANGED pc
      BY <1>10, <2>2 DEF SearchHit
    <3>2. pc[t] = "look" /\ job[t].op = "search"
      BY <1>10 DEF SearchHit, At
    <3>3. PICK j : j = [job[t] EXCEPT !.op = "log", !.q = q, !.try = 0]
      OBVIOUS
    <3>4. /\ j \in JobType /\ j.c = job[t].c /\ j.d = job[t].d /\ j.op = "log" /\ j.q = q
      <4>1. j = [op |-> "log", c |-> job[t].c, d |-> job[t].d, q |-> q, try |-> 0,
                 todo |-> job[t].todo]
        BY <1>6, <3>3 DEF JobType
      <4>2. 0 \in 0 .. Tries
        BY DEF Tries
      <4> QED
        BY <1>6, <4>1, <4>2 DEF JobType
    <3>5. job' = [job EXCEPT ![t] = j]
      BY <3>1, <3>3 DEF Control, JobType
    <3>6. pc' = [pc EXCEPT ![t] = "look"]
      BY <3>1, <3>2 DEF Control
    <3>7. "look" \in StepsOf(j.op) /\ Waiting("look", j) /\ "search" \in Ops
      BY <1>6, <3>2, <3>4, StoreAssumption DEF StepsOf, Waiting, JobType
    <3> QED
      BY <1>7, <1>8, <3>1, <3>2, <3>4, <3>5, <3>6, <3>7
  <2> QED
    BY <2>1, <2>2
<1>11. CASE LogHit(t)
  BY <1>9, <1>11 DEF LogHit
<1>12. CASE Miss(t)
  <2>1. CASE job[t].try < Tries
    <3>1. Yield(t) /\ pc' = [pc EXCEPT ![t] = "mkdir"] /\ job' = [job EXCEPT ![t] = job[t]]
      BY <1>12, <2>1 DEF Miss, Goto, Control
    <3>2. job[t].op \in {"search", "log"}
      BY <1>12, OpAt DEF Miss, At
    <3>3. "mkdir" \in StepsOf(job[t].op) /\ Waiting("mkdir", job[t])
          /\ (job[t].op = "log" => job[t].q \in Query /\ "search" \in Ops)
      BY <1>6, <3>2 DEF StepsOf, Waiting, Fits
    <3> QED
      BY <1>6, <1>7, <1>8, <2>1, <3>1, <3>2, <3>3
  <2>2. CASE ~(job[t].try < Tries)
    BY <1>5, <1>12, <2>2 DEF Miss
  <2> QED
    BY <2>1, <2>2
<1>13. CASE LookAgain(t)
  <2>1. pc[t] = "loaded" /\ job[t].op \in {"search", "log"}
    BY <1>13 DEF LookAgain, At
  <2>2. CASE job[t].op = "log" /\ job[t].try = Tries - 1
    BY <1>9, <1>13, <2>2 DEF LookAgain
  <2>3. CASE ~(job[t].op = "log" /\ job[t].try = Tries - 1)
    <3>1. Yield(t) /\ pc' = [pc EXCEPT ![t] = "look"]
          /\ job' = [job EXCEPT ![t].try = @ + 1]
      BY <1>13, <2>3 DEF LookAgain, Goto
    <3>2. job[t].try < Tries
      BY <1>6, <2>1 DEF Fits
    <3>3. PICK j : j = [job[t] EXCEPT !.try = @ + 1]
      OBVIOUS
    <3>4. j \in JobType /\ j.c = job[t].c /\ j.d = job[t].d /\ j.op = job[t].op
          /\ j.q = job[t].q
      BY <1>6, <3>2, <3>3 DEF JobType, Tries
    <3>5. job' = [job EXCEPT ![t] = j]
      BY <3>1, <3>3 DEF Control, JobType
    <3>6. "look" \in StepsOf(j.op) /\ Waiting("look", j)
          /\ (j.op = "log" => j.q \in Query /\ "search" \in Ops)
      BY <1>6, <2>1, <3>4 DEF StepsOf, Waiting, Fits
    <3> QED
      BY <1>7, <1>8, <2>1, <3>1, <3>4, <3>5, <3>6
  <2> QED
    BY <2>2, <2>3
<1> QED
  BY <1>10, <1>11, <1>12, <1>13

\* A dump or a restore goes on alone.
LEMMA WholeControl ==
  ASSUME Control, NEW t \in Thread, FlushCaches(t) \/ Wipe(t) \/ Place(t)
  PROVE  Control'
<1>1. UNCHANGED <<guard, scan, up>> /\ access[t] # Free
  BY DEF FlushCaches, Wipe, Place, At, boot
<1>2. pc[t] \in {"flush", "wipe", "place"}
  BY DEF FlushCaches, Wipe, Place, At
<1>3. guard # t
  BY <1>2, NotGuard DEF CatalogSteps
<1>4. catOpen' \in BOOLEAN /\ (catOpen' => catOpen)
  <2>1. catOpen \in BOOLEAN
    BY DEF Control, BootOK
  <2>2. catOpen' = FALSE \/ catOpen' = catOpen
    BY DEF FlushCaches, Wipe, Place, boot
  <2>3. CASE catOpen' = FALSE
    BY <2>3
  <2>4. CASE catOpen' = catOpen
    BY <2>1, <2>4
  <2> QED
    BY <2>2, <2>3, <2>4
<1>5. /\ job[t] \in JobType /\ up /\ job[t].op \in {"dump", "restore"}
      /\ job[t].c \in Coll /\ job[t].d \in Coll
      /\ Fits(access[t], pc[t], job[t])
  BY <1>2, OwnTypes, OpAt
<1>6. End(t) => Control'
  BY <1>1, <1>3, <1>4, EndControl
<1>7. ASSUME NEW todo \in SUBSET Entry, NEW p \in {"zip", "wipe", "place"},
             p \in StepsOf(job[t].op),
             access' = access, pc' = [pc EXCEPT ![t] = p],
             job' = [job EXCEPT ![t].todo = todo]
      PROVE  Control'
  <2>1. PICK j : j = [job[t] EXCEPT !.todo = todo]
    OBVIOUS
  <2>2. j \in JobType /\ j.c = job[t].c /\ j.d = job[t].d /\ j.op = job[t].op
    BY <1>5, <1>7, <2>1 DEF JobType
  <2>3. job' = [job EXCEPT ![t] = j]
    BY <1>7, <2>1 DEF Control, JobType
  <2>4. access[t] = Whole
    <3>1. NeedOf(pc[t], job[t]) = Whole
      BY <1>2, <1>5 DEF NeedOf
    <3> QED
      BY <1>1, <1>5, <3>1 DEF Fits
  <2>5. Fits(access[t], p, j)
    BY <1>1, <1>5, <1>7, <2>2, <2>4 DEF Fits, NeedOf
  <2>6. access' = [access EXCEPT ![t] = access[t]] /\ access[t] \in AccessType
    BY <1>7 DEF Control
  <2>7. p \in Label
    BY DEF Label
  <2> QED
    BY <1>1, <1>3, <1>4, <1>5, <1>7, <2>2, <2>3, <2>5, <2>6, <2>7, Moves
<1>8. CASE FlushCaches(t)
  <2>1. /\ access' = access /\ job' = [job EXCEPT ![t].todo = Entry]
        /\ pc' = [pc EXCEPT ![t] = IF job[t].op = "dump" THEN "zip" ELSE "wipe"]
    BY <1>8 DEF FlushCaches, Goto
  <2>2. CASE job[t].op = "dump"
    <3>1. "zip" \in StepsOf(job[t].op) /\ pc' = [pc EXCEPT ![t] = "zip"]
      BY <2>1, <2>2 DEF StepsOf
    <3> QED
      BY <1>7, <2>1, <3>1
  <2>3. CASE job[t].op # "dump"
    <3>1. "wipe" \in StepsOf(job[t].op) /\ pc' = [pc EXCEPT ![t] = "wipe"]
      BY <1>5, <2>1, <2>3 DEF StepsOf
    <3> QED
      BY <1>7, <2>1, <3>1
  <2> QED
    BY <2>2, <2>3
<1>9. CASE Wipe(t)
  <2>1. pc[t] = "wipe" /\ access' = access
    BY <1>9 DEF Wipe, At
  <2>2. job[t].op = "restore"
    BY <2>1, OpAt
  <2>3. "wipe" \in StepsOf(job[t].op) /\ "place" \in StepsOf(job[t].op)
    BY <2>2 DEF StepsOf
  <2>4. job[t].todo \in SUBSET Entry
    BY <1>5 DEF JobType
  <2>5. ASSUME job' = job, pc' = pc PROVE Control'
    BY <1>1, <1>4, <2>1, <2>5, <1>9 DEF Wipe, boot, Control, Exclusion, BootOK
  <2>6. ASSUME NEW e, job' = [job EXCEPT ![t].todo = @ \ {e}], pc' = pc PROVE Control'
    <3>1. pc' = [pc EXCEPT ![t] = "wipe"]
      BY <2>1, <2>6 DEF Control
    <3>2. PICK todo : todo = job[t].todo \ {e}
      OBVIOUS
    <3>3. todo \in SUBSET Entry /\ job' = [job EXCEPT ![t].todo = todo]
      BY <2>4, <2>6, <3>2
    <3> QED
      BY <1>7, <2>1, <2>3, <3>1, <3>3
  <2>7. ASSUME job' = [job EXCEPT ![t].todo = Entry], Goto(t, "place") PROVE Control'
    BY <1>7, <2>1, <2>3, <2>7 DEF Goto
  <2> QED
    BY <1>9, <2>5, <2>6, <2>7 DEF Wipe
<1>10. CASE Place(t)
  <2>1. pc[t] = "place"
    BY <1>10 DEF Place, At
  <2>2. job[t].op = "restore"
    BY <2>1, OpAt
  <2>3. "place" \in StepsOf(job[t].op)
    BY <2>2 DEF StepsOf
  <2>4. job[t].todo \in SUBSET Entry
    BY <1>5 DEF JobType
  <2>5. ASSUME NEW e, job' = [job EXCEPT ![t].todo = @ \ {e}], UNCHANGED <<access, pc>>
        PROVE  Control'
    <3>1. pc' = [pc EXCEPT ![t] = "place"]
      BY <2>1, <2>5 DEF Control
    <3>2. PICK todo : todo = job[t].todo \ {e}
      OBVIOUS
    <3>3. todo \in SUBSET Entry /\ job' = [job EXCEPT ![t].todo = todo]
      BY <2>4, <2>5, <3>2
    <3> QED
      BY <1>7, <2>3, <2>5, <3>1, <3>3
  <2> QED
    BY <1>6, <1>10, <2>5 DEF Place
<1> QED
  BY <1>8, <1>9, <1>10

\* The threads and their locks stay in order.
LEMMA ControlNext == Control /\ [Next]_vars => Control'
<1> SUFFICES ASSUME Control, [Next]_vars PROVE Control'
  OBVIOUS
<1>1. ASSUME NEW t \in Thread, Serve(t) PROVE Control'
  BY <1>1, BeginControl, EnterControl, OpenCatalogControl, WriteStepsControl, EraseControl,
     LookControl, WholeControl DEF Serve
<1>2. CASE UNCHANGED vars
  BY <1>2 DEF vars, store, boot, Control, Exclusion, BootOK
<1> QED
  BY <1>1, <1>2, BootControl, ScanControl, CrashControl DEF Next

-----------------------------------------------------------------------------
(* Who owns what.                                                          *)

\* A collection has one writer at most.
LEMMA OwnerAlone ==
  ASSUME Control, NEW c \in Coll, NEW t \in WritersOf(c), NEW u \in Thread \ {t}
  PROVE  u \notin WritersOf(c)
<1>1. Compatible(access[t], access[u]) /\ t \in Thread
  BY DEF Control, Exclusion, WritersOf
<1> QED
  BY <1>1 DEF Compatible, WritersOf

\* The access of a thread that has its locks is the one its step needs.
LEMMA HasNeed ==
  ASSUME Control, NEW t \in Thread, access[t] # Free
  PROVE  access[t] = NeedOf(pc[t], job[t]) /\ pc[t] # "idle" /\ up
         /\ job[t].c \in Coll /\ job[t].d \in Coll
<1>1. Fits(access[t], pc[t], job[t]) /\ (pc[t] # "idle" => up)
  BY OwnTypes
<1> QED
  BY <1>1 DEF Fits

\* At a step of a change a thread owns the collections of its job.
LEMMA Owns ==
  ASSUME Control, NEW t \in Thread, access[t] # Free, pc[t] \in WriteSteps
  PROVE  /\ t \in WritersOf(job[t].c) /\ t \in WritersOf(job[t].d) /\ t \in WritersOf(Target(t))
         /\ job[t].c \in Coll /\ job[t].d \in Coll /\ Target(t) \in Coll
         /\ \A c \in Coll : t \in WritersOf(c) => c \in {job[t].c, job[t].d}
         /\ access[t] # Whole
<1>1. access[t] = NeedOf(pc[t], job[t]) /\ job[t].c \in Coll /\ job[t].d \in Coll
  BY HasNeed
<1>2. job[t].op \notin {"dump", "restore"} /\ pc[t] \notin {"put_home", "list", "look"}
  BY OpAt DEF WriteSteps
<1>3. access[t] = Writes({job[t].c, job[t].d})
  BY <1>1, <1>2 DEF NeedOf
<1>4. access[t].mode = "write" /\ access[t].colls = {job[t].c, job[t].d}
  BY <1>3 DEF Writes
<1>5. access[t] # Whole
  BY <1>4 DEF Whole
<1> QED
  BY <1>1, <1>4, <1>5 DEF WritersOf, Target

\* A dump or a restore owns everything and nobody else is at work.
LEMMA OwnsAll ==
  ASSUME Control, NEW t \in Thread, access[t] # Free,
         pc[t] \in {"flush", "zip", "wipe", "place"}
  PROVE  /\ access[t] = Whole
         /\ \A c \in Coll : t \in WritersOf(c)
         /\ \A u \in Thread \ {t} : access[u] = Free
         /\ guard = None
<1>1. access[t] = NeedOf(pc[t], job[t]) /\ up
  BY HasNeed
<1>2. job[t].op \in {"dump", "restore"}
  BY OpAt
<1>3. access[t] = Whole
  BY <1>1, <1>2 DEF NeedOf
<1>4. ASSUME NEW u \in Thread \ {t} PROVE access[u] = Free
  <2>1. Compatible(Whole, access[u])
    BY <1>3 DEF Control, Exclusion
  <2>2. access[u].mode = "free"
    BY <2>1 DEF Compatible, Whole
  <2>3. access[u] # NeedOf(pc[u], job[u])
    BY <2>2 DEF NeedOf, Whole, Reads, Writes
  <2> QED
    BY <2>3, HasNeed
<1>5. guard # t
  BY NotGuard DEF CatalogSteps
<1>6. guard \in Thread \cup {Main, None} /\ (guard = Main => ~up)
      /\ (guard \in Thread => access[guard] # Free)
  BY DEF Control, BootOK
<1>7. guard = None
  BY <1>1, <1>4, <1>5, <1>6
<1> QED
  BY <1>3, <1>4, <1>7 DEF WritersOf, Whole

\* What t leaves untouched is all that the stage of another thread is about.
LEMMA OthersStage ==
  ASSUME Base, NEW t \in Thread, Local(t), NEW u \in Thread \ {t}
  PROVE  Stage(u)'
<1> SUFFICES ASSUME access'[u] # Free PROVE Stage(u)'
  BY DEF Stage
<1>1. access'[u] = access[u] /\ pc'[u] = pc[u] /\ job'[u] = job[u] /\ access[u] # Free
      /\ Control /\ Stage(u)
  BY DEF Local, Base
<1>2. CASE pc[u] \in {"zip", "wipe", "place"}
  <2>1. \A c \in Coll : u \in WritersOf(c)
    BY <1>1, <1>2, OwnsAll
  <2>2. access[t] = Free
    BY <1>1, <1>2, OwnsAll
  <2>3. \A c \in Coll : cache'[c] = cache[c]
    BY <1>1, <2>1, OwnerAlone DEF Local, Untouched
  <2>4. guard' = guard /\ (catOpen' <=> catOpen)
    BY <2>2 DEF Local, Free, Whole
  <2>5. job[u].op # "rename"
    BY <1>1, <1>2, OpAt
  <2> QED
    BY <1>1, <1>2, <2>3, <2>4, <2>5 DEF Stage
<1>3. CASE pc[u] \in WriteSteps
  <2>1. /\ u \in WritersOf(job[u].c) /\ u \in WritersOf(job[u].d)
        /\ job[u].c \in Coll /\ job[u].d \in Coll
        /\ Target(u) \in {job[u].c, job[u].d}
    BY <1>1, <1>3, Owns DEF Target
  <2>2. t \notin WritersOf(job[u].c) /\ t \notin WritersOf(job[u].d)
    BY <1>1, <2>1, OwnerAlone
  <2>3. Untouched(job[u].c) /\ Untouched(job[u].d)
    BY <2>1, <2>2 DEF Local
  <2>4. access[t] # Whole
    BY <2>1, <2>2 DEF WritersOf, Whole
  <2>5. catOpen' <=> catOpen
    BY <2>4 DEF Local
  <2>6. Target(u)' = Target(u)
    BY <1>1 DEF Target
  <2> QED
    BY <1>1, <1>3, <2>1, <2>3, <2>5, <2>6 DEF Stage, Untouched, WriteSteps
<1>4. CASE pc[u] \notin WriteSteps \cup {"zip", "wipe", "place"}
  BY <1>1, <1>4 DEF Stage, WriteSteps
<1> QED
  BY <1>2, <1>3, <1>4

-----------------------------------------------------------------------------
(* The steps that leave directories and handles alone.                     *)

\* A step of t whose changes stay out of directories, handles and rows.
LEMMA StillDisk ==
  ASSUME Base, NEW t \in Thread,
         UNCHANGED <<dir, hasDb, cache, rows>>,
         log' \in [Inode -> SUBSET Query], wal' \in [Inode -> SUBSET Query],
         home' \in [Query -> Coll \cup {None}],
         archive' = archive \/ archive' \in ArchiveType,
         issued' \subseteq Query, past' \subseteq Watch,
         \A u \in Thread : job'[u].op = "restore" => job[u].op = "restore" \/ archive # None
  PROVE  Disk' /\ \A c \in Coll : Untouched(c)
<1>1. DiskType'
  BY DEF Base, Disk, DiskType
<1>2. HandlesLive' /\ DirsDiffer'
  BY DEF Base, Disk, HandlesLive, DirsDiffer
<1>3. ArchiveThere'
  <2>1. \A u \in Thread : job'[u].op = "restore" => archive \in ArchiveType
    BY DEF Base, Disk, DiskType, ArchiveThere
  <2> QED
    BY <2>1 DEF ArchiveThere
<1>4. \A c \in Coll : Untouched(c)
  BY DEF Untouched, Stored
<1> QED
  BY <1>1, <1>2, <1>3, <1>4 DEF Disk

\* A request that is over has no stage and no archive to restore.
LEMMA EndStage ==
  ASSUME Base, NEW t \in Thread, End(t)
  PROVE  /\ Stage(t)'
         /\ \A u \in Thread : job'[u].op = "restore" => job[u].op = "restore"
         /\ \A u \in Thread \ {t} : access'[u] = access[u] /\ pc'[u] = pc[u] /\ job'[u] = job[u]
         /\ access[t] # Free
<1>1. /\ access' = [access EXCEPT ![t] = Free] /\ pc' = [pc EXCEPT ![t] = "idle"]
      /\ job' = [job EXCEPT ![t] = NoJob] /\ access[t] # Free
  BY DEF End, Yield
<1>2. access'[t] = Free /\ job'[t].op # "restore"
  BY <1>1 DEF Base, Control, NoJob
<1>3. \A u \in Thread \ {t} : access'[u] = access[u] /\ pc'[u] = pc[u] /\ job'[u] = job[u]
  BY <1>1 DEF Base, Control
<1> QED
  BY <1>1, <1>2, <1>3 DEF Stage

\* A step that keeps job and locks.
LEMMA StepKeeps ==
  ASSUME Base, NEW t \in Thread, NEW p, Step(t, p)
  PROVE  /\ \A u \in Thread \ {t} : access'[u] = access[u] /\ pc'[u] = pc[u] /\ job'[u] = job[u]
         /\ access' = access /\ job' = job /\ pc'[t] = p
         /\ Target(t)' = Target(t)
         /\ \A u \in Thread : job'[u].op = "restore" => job[u].op = "restore"
BY DEF Base, Control, Step, Goto, Target

\* The types of what no disk step changes.
LEMMA Typed ==
  ASSUME Base
  PROVE  /\ log \in [Inode -> SUBSET Query] /\ wal \in [Inode -> SUBSET Query]
         /\ home \in [Query -> Coll \cup {None}]
         /\ issued \subseteq Query /\ past \subseteq Watch
         /\ rows \subseteq Coll /\ hasDb \subseteq Inode
         /\ dir \in [Coll -> Inode \cup {None}] /\ cache \in [Coll -> Inode \cup {None}]
         /\ archive = None \/ archive \in ArchiveType
BY DEF Base, Disk, DiskType

\* A request comes in.
LEMMA BeginSound == ASSUME Base, NEW t \in Thread, Begin(t) PROVE Sound(t)
<1>1. PICK op \in Ops, c \in Coll, d \in Coll :
        /\ op = "restore" => archive # None
        /\ job' = [job EXCEPT ![t] = [NoJob EXCEPT !.op = op, !.c = c, !.d = d]]
        /\ pc' = [pc EXCEPT ![t] = FirstStep(op)]
  BY DEF Begin, Goto
<1>2. /\ UNCHANGED <<access, disk, catalog, cache, boot, archive, issued>> /\ pc[t] = "idle"
      /\ past' = past \/ past' = past \cup ({"overlap"} \cap Watch)
  BY DEF Begin, Happened
<1>3. \A u \in Thread \ {t} : access'[u] = access[u] /\ pc'[u] = pc[u] /\ job'[u] = job[u]
  BY <1>1, <1>2 DEF Base, Control
<1>4. \A u \in Thread : job'[u].op = "restore" => job[u].op = "restore" \/ archive # None
  <2>1. job'[t].op = op
    BY <1>1 DEF Base, Control, NoJob
  <2> QED
    BY <1>1, <1>3, <2>1
<1>5. Disk' /\ \A c1 \in Coll : Untouched(c1)
  BY <1>2, <1>4, StillDisk, Typed DEF disk, catalog
<1>6. access'[t] = Free
  BY <1>2, HasNeed DEF Base
<1> QED
  BY <1>2, <1>3, <1>5, <1>6 DEF Sound, Stage, Local, boot

\* A thread gets its locks.
LEMMA EnterSound == ASSUME Base, NEW t \in Thread, Enter(t) PROVE Sound(t)
<1>1. /\ pc[t] # "idle" /\ access[t] = Free
      /\ access' = [access EXCEPT ![t] = Needs(t)]
      /\ UNCHANGED <<pc, job, store>>
  BY DEF Enter, Grant
<1>2. \A u \in Thread \ {t} : access'[u] = access[u] /\ pc'[u] = pc[u] /\ job'[u] = job[u]
  BY <1>1 DEF Base, Control
<1>3. Disk' /\ \A c \in Coll : Untouched(c)
  BY <1>1, StillDisk, Typed DEF store, disk, catalog
<1>4. Waiting(pc[t], job[t])
  BY <1>1, OwnTypes DEF Base, Fits
<1>5. job[t].op = "rename" => pc[t] \in {"drop_cache", "check_dir"}
  BY <1>1, <1>4, OpAt DEF Waiting, Base
<1>6. Stage(t)'
  BY <1>1, <1>4, <1>5 DEF Stage, Waiting
<1> QED
  BY <1>1, <1>2, <1>3, <1>6 DEF Sound, Local, store, boot

\* The catalog is opened by a thread that waits for it.
LEMMA OpenCatalogSound == ASSUME Base, NEW t \in Thread, OpenCatalog(t) PROVE Sound(t)
<1>1. /\ UNCHANGED <<access, pc, job, disk, catalog, cache, catOpen, archive, issued>>
      /\ past' = past \ {"doubt"} /\ pc[t] \in CatalogSteps /\ access[t] # Free
  BY DEF OpenCatalog, Scanning
<1>2. Disk' /\ \A c \in Coll : Untouched(c)
  BY <1>1, StillDisk, Typed DEF disk, catalog
<1>3. Stage(t)'
  BY <1>1 DEF Base, Stage, CatalogSteps, Target, disk, catalog
<1> QED
  BY <1>1, <1>2, <1>3 DEF Sound, Local

\* A request that is answered, whatever its last step wrote outside the
\* directories, the handles and the collection rows.
LEMMA EndStill ==
  ASSUME Base, NEW t \in Thread, End(t),
         UNCHANGED <<disk, rows, cache, boot, issued>>,
         home' \in [Query -> Coll \cup {None}], past' \subseteq Watch,
         archive' = archive \/ archive' \in ArchiveType
  PROVE  Sound(t)
<1>1. Disk' /\ \A c \in Coll : Untouched(c)
  BY EndStage, StillDisk, Typed DEF disk
<1> QED
  BY <1>1, EndStage DEF Sound, Local, boot

\* A step on to p that changes nothing.
LEMMA StepStill ==
  ASSUME Base, NEW t \in Thread, NEW p, Step(t, p),
         UNCHANGED <<disk, catalog, cache, boot, archive, issued, past>>,
         Stage(t)'
  PROVE  Sound(t)
<1>1. Disk' /\ \A c \in Coll : Untouched(c)
  BY StepKeeps, StillDisk, Typed DEF disk, catalog
<1> QED
  BY <1>1, StepKeeps DEF Sound, Local, boot

\* A list, a refused attempt and a statement that fails end the request.
LEMMA PlainEndSound ==
  ASSUME Base, NEW t \in Thread, List(t) \/ CatalogFails(t) \/ PurgeHomes(t) \/ RenameHomes(t)
                                 \/ PutHome(t) \/ Zip(t)
  PROVE  Sound(t)
<1>1. End(t)
  BY DEF List, CatalogFails, PurgeHomes, RenameHomes, PutHome, Zip
<1>2. CASE List(t)
  BY <1>1, <1>2, EndStill, Typed DEF List, InCatalog, catalog
<1>3. CASE CatalogFails(t)
  BY <1>1, <1>3, EndStill, Typed DEF CatalogFails, Happened, catalog
<1>4. CASE PurgeHomes(t)
  <2>1. home' = [q \in Query |-> IF home[q] = job[t].c THEN None ELSE home[q]]
    BY <1>4 DEF PurgeHomes
  <2>2. home' \in [Query -> Coll \cup {None}]
    BY <2>1, Typed
  <2> QED
    BY <1>1, <1>4, <2>2, EndStill, Typed DEF PurgeHomes, InCatalog
<1>5. CASE RenameHomes(t)
  <2>1. home' = [q \in Query |-> IF home[q] = job[t].c THEN job[t].d ELSE home[q]]
        /\ pc[t] = "rename_homes"
    BY <1>5 DEF RenameHomes, InCatalog, At
  <2>2. job[t].d \in Coll
    BY <2>1, OpAt DEF Base
  <2>3. home' \in [Query -> Coll \cup {None}]
    BY <2>1, <2>2, Typed
  <2> QED
    BY <1>1, <1>5, <2>3, EndStill, Typed DEF RenameHomes, InCatalog
<1>6. CASE PutHome(t)
  <2>1. home' = [home EXCEPT ![job[t].q] = job[t].c] /\ pc[t] = "put_home"
    BY <1>6 DEF PutHome, InCatalog, At
  <2>2. job[t].c \in Coll
    BY <2>1, OpAt DEF Base
  <2>3. home' \in [Query -> Coll \cup {None}]
    BY <2>1, <2>2, Typed
  <2> QED
    BY <1>1, <1>6, <2>3, EndStill, Typed DEF PutHome, InCatalog
<1>7. CASE Zip(t)
  <2>1. /\ archive' = IF "restore" \notin Ops THEN None
                      ELSE [dirs |-> {c \in Coll : dir[c] # None},
                            dbs |-> {c \in Coll : Stored(c)},
                            logs |-> [c \in Coll |-> LogOf(c) \ WalOf(c)],
                            rows |-> rows, home |-> home, sure |-> "doubt" \notin past]
        /\ UNCHANGED <<disk, catalog, cache, boot, issued, past>>
    BY <1>7 DEF Zip
  <2>2. CASE "restore" \in Ops
    <3>1. [c \in Coll |-> LogOf(c) \ WalOf(c)] \in [Coll -> SUBSET Query]
      BY Typed DEF LogOf
    <3>2. archive' \in ArchiveType
      BY <2>1, <2>2, <3>1, Typed DEF ArchiveType
    <3> QED
      BY <1>1, <2>1, <3>2, EndStill, Typed DEF catalog
  <2>3. CASE "restore" \notin Ops
    <3>1. archive' = None
      BY <2>1, <2>3
    <3>2. \A u \in Thread : job'[u].op # "restore"
      <4>1. \A u \in Thread : job[u].op # "restore"
        BY <2>3, OwnTypes DEF Base, JobType
      <4> QED
        BY <1>1, <4>1, EndStage
    <3>3. DiskType' /\ HandlesLive' /\ DirsDiffer' /\ ArchiveThere'
      BY <2>1, <3>1, <3>2 DEF Base, Disk, DiskType, HandlesLive, DirsDiffer, ArchiveThere, disk,
                              catalog
    <3>4. \A c \in Coll : Untouched(c)
      BY <2>1 DEF Untouched, Stored, disk, catalog
    <3> QED
      BY <1>1, <2>1, <3>3, <3>4, EndStage DEF Sound, Disk, Local, boot
  <2> QED
    BY <2>2, <2>3
<1> QED
  BY <1>2, <1>3, <1>4, <1>5, <1>6, <1>7

\* The checks before a rename, and what follows the load of a collection.
LEMMA CheckSound ==
  ASSUME Base, NEW t \in Thread, CheckDir(t) \/ CheckRow(t) \/ Loaded(t) PROVE Sound(t)
<1>1. UNCHANGED <<disk, catalog, cache, boot, archive, issued, past>>
  BY DEF CheckDir, CheckRow, Loaded, InCatalog, store
<1>2. UNCHANGED <<disk, rows, cache, boot, issued>>
      /\ home' \in [Query -> Coll \cup {None}] /\ past' \subseteq Watch /\ archive' = archive
  BY <1>1, Typed DEF catalog
<1>3. CASE End(t)
  BY <1>2, <1>3, EndStill
<1>4. CASE CheckDir(t)
  <2>1. CASE Step(t, "check_row") /\ dir[job[t].c] # None /\ dir[job[t].d] = None
    <3>1. job' = job /\ dir' = dir /\ pc'[t] = "check_row"
      BY <1>1, <2>1, StepKeeps DEF disk
    <3>2. Stage(t)'
      BY <2>1, <3>1 DEF Stage
    <3> QED
      BY <1>1, <2>1, <3>2, StepStill
  <2> QED
    BY <1>3, <1>4, <2>1 DEF CheckDir
<1>5. CASE CheckRow(t)
  <2>1. CASE Step(t, "close_old") /\ job[t].d \notin rows
    <3>1. /\ job' = job /\ dir' = dir /\ cache' = cache /\ pc'[t] = "close_old"
          /\ rows' = rows /\ catOpen' = catOpen /\ access' = access
      BY <1>1, <2>1, StepKeeps DEF disk, catalog, boot
    <3>2. pc[t] = "check_row" /\ access[t] # Free /\ catOpen
      BY <1>5 DEF CheckRow, InCatalog, At
    <3>3. Stage(t)'
      BY <2>1, <3>1, <3>2 DEF Stage, Base
    <3> QED
      BY <1>1, <2>1, <3>3, StepStill
  <2> QED
    BY <1>3, <1>5, <2>1 DEF CheckRow
<1>6. CASE Loaded(t)
  <2>1. CASE Step(t, "register")
    <3>1. /\ job' = job /\ dir' = dir /\ cache' = cache /\ pc'[t] = "register"
          /\ rows' = rows /\ catOpen' = catOpen /\ access' = access /\ Target(t)' = Target(t)
      BY <1>1, <2>1, StepKeeps DEF disk, catalog, boot
    <3>2. pc[t] = "loaded" /\ access[t] # Free
      BY <1>6 DEF Loaded, At
    <3>3. Stage(t)'
      BY <3>1, <3>2 DEF Stage, Base
    <3> QED
      BY <1>1, <2>1, <3>3, StepStill
  <2> QED
    BY <1>3, <1>6, <2>1 DEF Loaded
<1> QED
  BY <1>4, <1>5, <1>6

\* A search or a log_query that gives its locks up has no stage.
LEMMA YieldSound ==
  ASSUME Base, NEW t \in Thread, Yield(t), job'[t].op \in {"search", "log"},
         pc' = [pc EXCEPT ![t] = pc'[t]], job' = [job EXCEPT ![t] = job'[t]],
         UNCHANGED <<dir, hasDb, catalog, cache, boot, archive, past>>,
         log' \in [Inode -> SUBSET Query], wal' \in [Inode -> SUBSET Query],
         issued' \subseteq Query
  PROVE  Sound(t)
<1>1. /\ \A u \in Thread \ {t} : access'[u] = access[u] /\ pc'[u] = pc[u] /\ job'[u] = job[u]
      /\ access'[t] = Free /\ access[t] # Free
  BY DEF Base, Control, Yield
<1>2. \A u \in Thread : job'[u].op = "restore" => job[u].op = "restore"
  BY <1>1
<1>3. Disk' /\ \A c \in Coll : Untouched(c)
  BY <1>2, StillDisk, Typed DEF catalog
<1>4. Stage(t)'
  BY <1>1 DEF Stage
<1> QED
  BY <1>1, <1>3, <1>4 DEF Sound, Local, boot

\* A query is logged in the directory its collection has a handle on.
LEMMA WriteLogSound ==
  ASSUME Base, NEW t \in Thread, WriteLog(t), job[t].op = "log", pc[t] # "idle",
         cache[job[t].c] # None,
         UNCHANGED <<job, dir, hasDb, catalog, cache, boot, archive, issued, past>>
  PROVE  Sound(t)
<1>1. /\ job[t].c \in Coll /\ job[t].q \in Query
      /\ job'[t].op = "log" /\ job' = [job EXCEPT ![t] = job'[t]]
  BY OwnTypes, OpAt DEF Base, Fits, Control
<1>2. cache[job[t].c] \in Inode
  BY <1>1, Typed
<1>3. PICK i \in Inode : i = cache[job[t].c]
  BY <1>2
<1>4. log' = [log EXCEPT ![i] = @ \cup {job[t].q}]
  BY <1>3 DEF WriteLog
<1>5. PICK rest \in {{}, wal[i] \cup {job[t].q}} : wal' = [wal EXCEPT ![i] = rest]
  BY <1>3 DEF WriteLog
<1>6. log' \in [Inode -> SUBSET Query] /\ wal' \in [Inode -> SUBSET Query]
  BY <1>1, <1>4, <1>5, Typed
<1>7. Yield(t) /\ pc' = [pc EXCEPT ![t] = pc'[t]]
  BY DEF WriteLog, Goto, Base, Control
<1> QED
  BY <1>1, <1>6, <1>7, YieldSound, Typed

\* Looking the collection up in the cache, hit or miss.
LEMMA LookSound ==
  ASSUME Base, NEW t \in Thread, SearchHit(t) \/ LogHit(t) \/ Miss(t) \/ LookAgain(t)
  PROVE  Sound(t)
<1>1. UNCHANGED <<dir, hasDb, catalog, cache, boot, archive, past>>
      /\ pc[t] \in {"look", "loaded"} /\ access[t] # Free
  BY DEF SearchHit, LogHit, Miss, LookAgain, At, disk, store
<1>2. home' \in [Query -> Coll \cup {None}] /\ past' \subseteq Watch
      /\ archive' = archive /\ rows' = rows
  BY <1>1, Typed DEF catalog
<1>3. CASE SearchHit(t)
  <2>1. CASE issued = Query
    BY <1>1, <1>2, <1>3, <2>1, EndStill DEF SearchHit, disk
  <2>2. CASE issued # Query
    <3>1. PICK q \in Query \ issued :
            /\ Yield(t) /\ UNCHANGED pc
            /\ issued' = issued \cup {q}
            /\ job' = [job EXCEPT ![t].op = "log", ![t].q = q, ![t].try = 0]
      BY <1>3, <2>2 DEF SearchHit
    <3>2. PICK j : j = [job[t] EXCEPT !.op = "log", !.q = q, !.try = 0]
      OBVIOUS
    <3>3. job' = [job EXCEPT ![t] = job'[t]] /\ job'[t].op = "log"
      <4>1. job' = [job EXCEPT ![t] = j] /\ j.op = "log"
        BY <3>1, <3>2 DEF Base, Control, JobType
      <4> QED
        BY <4>1 DEF Base, Control
    <3>4. pc' = [pc EXCEPT ![t] = pc'[t]]
      BY <3>1 DEF Base, Control
    <3>5. /\ log' \in [Inode -> SUBSET Query] /\ wal' \in [Inode -> SUBSET Query]
          /\ issued' \subseteq Query
      BY <1>3, <3>1, Typed DEF SearchHit, disk
    <3> QED
      BY <1>1, <3>1, <3>3, <3>4, <3>5, YieldSound
  <2> QED
    BY <2>1, <2>2
<1>4. CASE LogHit(t)
  BY <1>1, <1>4, WriteLogSound DEF LogHit, At
<1>5. CASE Miss(t)
  <2>1. UNCHANGED <<disk, issued>>
    BY <1>5 DEF Miss, store
  <2>2. CASE End(t)
    BY <1>1, <1>2, <2>1, <2>2, EndStill
  <2>3. CASE Yield(t) /\ Goto(t, "mkdir") /\ UNCHANGED job
    <3>1. pc' = [pc EXCEPT ![t] = pc'[t]] /\ job' = [job EXCEPT ![t] = job'[t]]
      BY <2>3 DEF Goto, Base, Control
    <3>2. job'[t].op \in {"search", "log"}
      BY <1>5, <2>3, OpAt DEF Miss, At, Base
    <3>3. /\ log' \in [Inode -> SUBSET Query] /\ wal' \in [Inode -> SUBSET Query]
          /\ issued' \subseteq Query
      BY <2>1, Typed DEF disk
    <3> QED
      BY <1>1, <2>3, <3>1, <3>2, <3>3, YieldSound
  <2> QED
    BY <1>5, <2>2, <2>3 DEF Miss
<1>6. CASE LookAgain(t)
  <2>1. job[t].op \in {"search", "log"} /\ pc[t] = "loaded" /\ issued' = issued
    BY <1>6 DEF LookAgain, At
  <2>2. CASE WriteLog(t) /\ UNCHANGED job /\ job[t].op = "log"
    <3>1. cache[job[t].c] # None
      BY <1>1, <2>1 DEF Base, Stage, Target
    <3> QED
      BY <1>1, <2>1, <2>2, <3>1, WriteLogSound
  <2>3. CASE /\ Yield(t) /\ Goto(t, "look") /\ job' = [job EXCEPT ![t].try = @ + 1]
             /\ UNCHANGED <<log, wal>>
    <3>1. PICK j : j = [job[t] EXCEPT !.try = @ + 1]
      OBVIOUS
    <3>2. job' = [job EXCEPT ![t] = job'[t]] /\ job'[t].op = job[t].op
      <4>1. job' = [job EXCEPT ![t] = j] /\ j.op = job[t].op
        BY <2>3, <3>1 DEF Base, Control, JobType
      <4> QED
        BY <4>1 DEF Base, Control
    <3>3. pc' = [pc EXCEPT ![t] = pc'[t]]
      BY <2>3 DEF Goto, Base, Control
    <3>4. /\ log' \in [Inode -> SUBSET Query] /\ wal' \in [Inode -> SUBSET Query]
          /\ issued' \subseteq Query
      BY <2>1, <2>3, Typed
    <3> QED
      BY <1>1, <2>1, <2>3, <3>2, <3>3, <3>4, YieldSound
  <2> QED
    BY <1>6, <2>2, <2>3 DEF LookAgain
<1> QED
  BY <1>3, <1>4, <1>5, <1>6

-----------------------------------------------------------------------------
(* The steps that change directories, handles and rows.                    *)

\* A step that changes rows of collections t owns, and nothing else.
LEMMA RowsDisk ==
  ASSUME Base, NEW t \in Thread, InCatalog(t, pc[t]), pc[t] \in WriteSteps,
         rows' \subseteq Coll, home' = home,
         \A c \in Coll \ {job[t].c, job[t].d} : c \in rows' <=> c \in rows,
         Step(t, pc'[t]) \/ End(t)
  PROVE  Disk' /\ Local(t)
<1>1. UNCHANGED <<disk, home, cache, boot, archive, issued, past>> /\ access[t] # Free
  BY DEF InCatalog, At
<1>2. /\ \A u \in Thread \ {t} : access'[u] = access[u] /\ pc'[u] = pc[u] /\ job'[u] = job[u]
      /\ \A u \in Thread : job'[u].op = "restore" => job[u].op = "restore"
  <2>1. CASE End(t)
    BY <2>1, EndStage
  <2>2. CASE Step(t, pc'[t])
    BY <2>2, StepKeeps
  <2> QED
    BY <2>1, <2>2
<1>3. DiskType' /\ HandlesLive' /\ DirsDiffer' /\ ArchiveThere'
  BY <1>1, <1>2 DEF Base, Disk, DiskType, HandlesLive, DirsDiffer, ArchiveThere, disk
<1>4. \A c \in Coll : t \in WritersOf(c) \/ Untouched(c)
  BY <1>1, Owns DEF Base, Untouched, Stored, disk
<1> QED
  BY <1>1, <1>2, <1>3, <1>4 DEF Disk, Local, boot

\* A collection is registered, unregistered, or registered under its new name.
LEMMA RowsSound ==
  ASSUME Base, NEW t \in Thread, Register(t) \/ Unregister(t) \/ RenameRow(t) PROVE Sound(t)
<1>1. /\ InCatalog(t, pc[t]) /\ pc[t] \in {"register", "unregister", "rename_row"}
      /\ access[t] # Free /\ catOpen /\ home' = home
      /\ UNCHANGED <<disk, cache, boot>>
  BY DEF Register, Unregister, RenameRow, InCatalog, At
<1>2. /\ job[t].c \in Coll /\ job[t].d \in Coll
      /\ job[t].op = "rename" => job[t].c # job[t].d
  BY <1>1, OpAt DEF Base
<1>3. rows' \subseteq Coll /\ \A c \in Coll \ {job[t].c, job[t].d} : c \in rows' <=> c \in rows
  BY <1>2, Typed DEF Register, Unregister, RenameRow
<1>4. Step(t, pc'[t]) \/ End(t)
  <2>1. \/ End(t) \/ Step(t, "rename_row") \/ Step(t, "purge_homes") \/ Step(t, "rename_homes")
    BY DEF Register, Unregister, RenameRow
  <2> QED
    BY <2>1, StepKeeps
<1>5. Disk' /\ Local(t)
  BY <1>1, <1>3, <1>4, RowsDisk DEF WriteSteps
<1>6. Stage(t)'
  <2>1. CASE End(t)
    BY <2>1, EndStage
  <2>2. CASE Register(t) /\ Step(t, "rename_row") /\ job[t].op = "rename"
    <3>1. /\ job' = job /\ dir' = dir /\ cache' = cache /\ catOpen' = catOpen
          /\ pc'[t] = "rename_row" /\ access' = access /\ Target(t)' = Target(t)
      BY <1>1, <2>2, StepKeeps DEF disk, boot
    <3>2. pc[t] = "register" /\ rows' = rows \cup {job[t].c}
      BY <2>2 DEF Register, InCatalog, At
    <3> QED
      BY <1>1, <1>2, <2>2, <3>1, <3>2 DEF Base, Stage
  <2>3. CASE Unregister(t) /\ Step(t, "purge_homes")
    <3>1. /\ job' = job /\ dir' = dir /\ cache' = cache
          /\ pc'[t] = "purge_homes" /\ access' = access
      BY <1>1, <2>3, StepKeeps DEF disk
    <3>2. pc[t] = "unregister" /\ job[t].op # "rename"
      BY <2>3, OpAt DEF Unregister, InCatalog, At, Base
    <3> QED
      BY <1>1, <3>1, <3>2 DEF Base, Stage
  <2>4. CASE RenameRow(t) /\ Step(t, "rename_homes")
    <3>1. /\ job' = job /\ dir' = dir /\ cache' = cache
          /\ pc'[t] = "rename_homes" /\ access' = access /\ Target(t)' = Target(t)
      BY <1>1, <2>4, StepKeeps DEF disk
    <3>2. pc[t] = "rename_row"
      BY <2>4 DEF RenameRow, InCatalog, At
    <3> QED
      BY <1>1, <3>1, <3>2 DEF Base, Stage
  <2> QED
    BY <2>1, <2>2, <2>3, <2>4 DEF Register, Unregister, RenameRow
<1> QED
  BY <1>5, <1>6 DEF Sound

\* Collection c gets a new directory, with or without a meta.db.
LEMMA NewDir ==
  ASSUME Base, NEW c \in Coll, cache[c] = None,
         dir' = [dir EXCEPT ![c] = Fresh], cache' = cache,
         hasDb' = hasDb \cup {Fresh} \/ hasDb' = hasDb \ {Fresh}
  PROVE  /\ dir' \in [Coll -> Inode \cup {None}] /\ hasDb' \subseteq Inode
         /\ HandlesLive' /\ DirsDiffer' /\ dir'[c] # None
         /\ \A e \in Coll \ {c} : dir'[e] = dir[e] /\ (Stored(e)' <=> Stored(e))
<1>1. Fresh \in Inode /\ \A e \in Coll : dir[e] # Fresh /\ cache[e] # Fresh
  BY FreshIsNew, Typed DEF Base, Disk
<1>2. PICK f \in Inode : f = Fresh
  BY <1>1
<1>3. f # None
  BY StoreAssumption
<1>4. dir \in [Coll -> Inode \cup {None}] /\ hasDb \subseteq Inode
  BY Typed
<1>5. dir' = [dir EXCEPT ![c] = f] /\ hasDb' \in {hasDb \cup {f}, hasDb \ {f}}
      /\ \A e \in Coll : dir[e] # f /\ cache[e] # f
  BY <1>1, <1>2
<1>6. /\ dir' \in [Coll -> Inode \cup {None}] /\ hasDb' \subseteq Inode
      /\ dir'[c] = f /\ \A e \in Coll \ {c} : dir'[e] = dir[e]
  BY <1>4, <1>5
<1>7. HandlesLive'
  BY <1>4, <1>5, <1>6 DEF Base, Disk, HandlesLive
<1>8. DirsDiffer'
  BY <1>3, <1>5, <1>6 DEF Base, Disk, DirsDiffer
<1>9. \A e \in Coll \ {c} : Stored(e)' <=> Stored(e)
  BY <1>3, <1>5, <1>6 DEF Stored
<1> QED
  BY <1>3, <1>6, <1>7, <1>8, <1>9

\* A piece of the directory of a collection without handles is removed.
LEMMA ErasePiece ==
  ASSUME Base, NEW c \in Coll, cache[c] = None, EraseFrom(c), cache' = cache
  PROVE  /\ dir' \in [Coll -> Inode \cup {None}] /\ hasDb' \subseteq Inode
         /\ log' \in [Inode -> SUBSET Query] /\ wal' \in [Inode -> SUBSET Query]
         /\ HandlesLive' /\ DirsDiffer'
         /\ \A e \in Coll \ {c} : dir'[e] = dir[e] /\ (Stored(e)' <=> Stored(e))
<1>1. /\ dir \in [Coll -> Inode \cup {None}] /\ hasDb \subseteq Inode
      /\ log \in [Inode -> SUBSET Query] /\ wal \in [Inode -> SUBSET Query]
      /\ HandlesLive /\ DirsDiffer
  BY Typed DEF Base, Disk
<1>2. CASE Stored(c)
  <2>1. /\ hasDb' = hasDb \ {dir[c]} /\ dir' = dir
        /\ log' = [log EXCEPT ![dir[c]] = {}] /\ wal' = [wal EXCEPT ![dir[c]] = {}]
    BY <1>2 DEF EraseFrom
  <2>2. dir[c] # None /\ dir[c] \in Inode
    BY <1>1, <1>2 DEF Stored
  <2>3. \A e \in Coll \ {c} : dir[e] # dir[c]
    BY <1>1, <2>2 DEF DirsDiffer
  <2>4. HandlesLive' /\ DirsDiffer'
    BY <1>1, <2>1, <2>3 DEF HandlesLive, DirsDiffer
  <2>5. \A e \in Coll \ {c} : Stored(e)' <=> Stored(e)
    BY <2>1, <2>3 DEF Stored
  <2> QED
    BY <1>1, <2>1, <2>2, <2>4, <2>5
<1>3. CASE ~Stored(c)
  <2>1. dir' = [dir EXCEPT ![c] = None] /\ UNCHANGED <<hasDb, log, wal>>
    BY <1>3 DEF EraseFrom
  <2>2. \A e \in Coll \ {c} : dir'[e] = dir[e]
    BY <1>1, <2>1
  <2>3. dir'[c] = None
    BY <1>1, <2>1
  <2>4. HandlesLive' /\ DirsDiffer'
    BY <1>1, <2>1, <2>2, <2>3 DEF HandlesLive, DirsDiffer
  <2>5. \A e \in Coll \ {c} : Stored(e)' <=> Stored(e)
    BY <2>1, <2>2 DEF Stored
  <2> QED
    BY <1>1, <2>1, <2>2, <2>4, <2>5
<1> QED
  BY <1>2, <1>3

\* The handles of some collections are closed.
LEMMA Close ==
  ASSUME Base, NEW cs \in SUBSET Coll, CloseHandles(cs), dir' = dir, hasDb' = hasDb
  PROVE  /\ cache' \in [Coll -> Inode \cup {None}] /\ wal' \in [Inode -> SUBSET Query]
         /\ HandlesLive' /\ DirsDiffer'
         /\ \A c \in cs : cache'[c] = None
         /\ \A c \in Coll \ cs : cache'[c] = cache[c]
<1>1. /\ cache \in [Coll -> Inode \cup {None}] /\ wal \in [Inode -> SUBSET Query]
      /\ HandlesLive /\ DirsDiffer
  BY Typed DEF Base, Disk
<1>2. /\ cache' = [c \in Coll |-> IF c \in cs THEN None ELSE cache[c]]
      /\ wal' = [i \in Inode |-> IF \E c \in cs : cache[c] = i THEN {} ELSE wal[i]]
  BY DEF CloseHandles
<1>3. cache' \in [Coll -> Inode \cup {None}] /\ wal' \in [Inode -> SUBSET Query]
  BY <1>1, <1>2
<1>4. HandlesLive' /\ DirsDiffer'
  BY <1>1, <1>2 DEF HandlesLive, DirsDiffer
<1> QED
  BY <1>2, <1>3, <1>4

\* What a step on to p has to show that changes the directory or the handle of
\* collections that t owns.
LEMMA OwnerSound ==
  ASSUME Base, NEW t \in Thread, access[t] # Free,
         access' = access, \A u \in Thread \ {t} : pc'[u] = pc[u] /\ job'[u] = job[u],
         job'[t].op = job[t].op,
         UNCHANGED <<archive, issued, past>>,
         dir' \in [Coll -> Inode \cup {None}], hasDb' \subseteq Inode,
         log' \in [Inode -> SUBSET Query], wal' \in [Inode -> SUBSET Query],
         cache' \in [Coll -> Inode \cup {None}],
         rows' \subseteq Coll, home' \in [Query -> Coll \cup {None}],
         HandlesLive', DirsDiffer', Stage(t)',
         \A c \in Coll : t \in WritersOf(c) \/ Untouched(c),
         access[t] # Whole => (catOpen <=> catOpen')
  PROVE  Sound(t)
<1>1. DiskType'
  BY Typed DEF DiskType
<1>2. ArchiveThere'
  BY DEF Base, Disk, ArchiveThere
<1> QED
  BY <1>1, <1>2 DEF Sound, Disk, Local

\* A collection is loaded: its directory is made, then its handles are opened.
LEMMA LoadSound == ASSUME Base, NEW t \in Thread, MkDir(t) \/ Open(t) PROVE Sound(t)
<1>1. /\ pc[t] \in {"mkdir", "open"} /\ access[t] # Free /\ catOpen' = catOpen
      /\ UNCHANGED <<catalog, archive, issued, past>>
  BY DEF MkDir, Open, At, boot
<1>2. PICK c \in Coll : c = Target(t)
  BY <1>1, Owns DEF Base, WriteSteps
<1>3. t \in WritersOf(c) /\ job[t].c \in Coll /\ job[t].d \in Coll
  BY <1>1, <1>2, Owns DEF Base, WriteSteps
<1>4. /\ dir \in [Coll -> Inode \cup {None}] /\ hasDb \subseteq Inode
      /\ log \in [Inode -> SUBSET Query] /\ wal \in [Inode -> SUBSET Query]
      /\ cache \in [Coll -> Inode \cup {None}] /\ rows' \subseteq Coll
      /\ home' \in [Query -> Coll \cup {None}] /\ HandlesLive /\ DirsDiffer
      /\ rows' = rows
  BY <1>1, Typed DEF Base, Disk, catalog
<1>5. job[t].op = "rename" <=> job[t].c # job[t].d
  BY <1>1, OpAt DEF Base
<1>6. CASE MkDir(t)
  <2>1. /\ pc[t] = "mkdir" /\ cache' = cache
        /\ Step(t, "loaded") \/ Step(t, "open")
    BY <1>6 DEF MkDir, At
  <2>2. /\ \A u \in Thread \ {t} : pc'[u] = pc[u] /\ job'[u] = job[u]
        /\ access' = access /\ job' = job /\ Target(t)' = c
    BY <1>2, <2>1, StepKeeps
  <2>3. CASE cache[c] # None
    <3>1. UNCHANGED disk /\ Step(t, "loaded")
      BY <1>2, <1>6, <2>3 DEF MkDir
    <3>2. pc'[t] = "loaded"
      BY <3>1, StepKeeps
    <3>3. Stage(t)'
      BY <1>1, <1>2, <1>4, <2>1, <2>2, <2>3, <3>1, <3>2 DEF Base, Stage, disk
    <3>4. \A e \in Coll : Untouched(e)
      BY <1>4, <2>1, <3>1 DEF Untouched, Stored, disk
    <3>5. HandlesLive' /\ DirsDiffer'
      BY <1>4, <2>1, <3>1 DEF HandlesLive, DirsDiffer, disk
    <3> QED
      BY <1>1, <1>4, <2>1, <2>2, <3>1, <3>3, <3>4, <3>5, OwnerSound DEF disk
  <2>4. CASE cache[c] = None /\ dir[c] # None
    <3>1. UNCHANGED disk /\ Step(t, "open")
      BY <1>2, <1>6, <2>4 DEF MkDir
    <3>2. pc'[t] = "open"
      BY <3>1, StepKeeps
    <3>3. Stage(t)'
      BY <1>1, <1>2, <1>4, <2>1, <2>2, <2>4, <3>1, <3>2 DEF Base, Stage, disk
    <3>4. \A e \in Coll : Untouched(e)
      BY <1>4, <2>1, <3>1 DEF Untouched, Stored, disk
    <3>5. HandlesLive' /\ DirsDiffer'
      BY <1>4, <2>1, <3>1 DEF HandlesLive, DirsDiffer, disk
    <3> QED
      BY <1>1, <1>4, <2>1, <2>2, <3>1, <3>3, <3>4, <3>5, OwnerSound DEF disk
  <2>5. CASE cache[c] = None /\ dir[c] = None
    <3>1. /\ dir' = [dir EXCEPT ![c] = Fresh] /\ hasDb' = hasDb \ {Fresh}
          /\ log' = [log EXCEPT ![Fresh] = {}] /\ wal' = [wal EXCEPT ![Fresh] = {}]
          /\ Step(t, "open")
      BY <1>2, <1>6, <2>5 DEF MkDir
    <3>2. pc'[t] = "open"
      BY <3>1, StepKeeps
    <3>3. /\ dir' \in [Coll -> Inode \cup {None}] /\ hasDb' \subseteq Inode
          /\ HandlesLive' /\ DirsDiffer' /\ dir'[c] # None
          /\ \A e \in Coll \ {c} : dir'[e] = dir[e] /\ (Stored(e)' <=> Stored(e))
      BY <2>1, <2>5, <3>1, NewDir
    <3>4. log' \in [Inode -> SUBSET Query] /\ wal' \in [Inode -> SUBSET Query]
      BY <1>4, <3>1
    <3>5. job[t].op # "rename"
      BY <1>1, <1>2, <2>1, <2>5 DEF Base, Stage, Target
    <3>6. Stage(t)'
      BY <2>1, <2>2, <2>5, <3>2, <3>3, <3>5 DEF Stage
    <3>7. \A e \in Coll : t \in WritersOf(e) \/ Untouched(e)
      BY <1>3, <1>4, <2>1, <3>3 DEF Untouched
    <3> QED
      BY <1>1, <1>4, <2>1, <2>2, <3>3, <3>4, <3>6, <3>7, OwnerSound
  <2> QED
    BY <2>3, <2>4, <2>5
<1>7. CASE Open(t)
  <2>1. /\ pc[t] = "open" /\ Step(t, "loaded") /\ UNCHANGED <<dir, log, wal>>
        /\ hasDb' = hasDb \cup {dir[c]} /\ cache' = [cache EXCEPT ![c] = dir[c]]
    BY <1>2, <1>7 DEF Open, At
  <2>2. /\ \A u \in Thread \ {t} : pc'[u] = pc[u] /\ job'[u] = job[u]
        /\ access' = access /\ job' = job /\ Target(t)' = c /\ pc'[t] = "loaded"
    BY <1>2, <2>1, StepKeeps
  <2>3. dir[c] # None /\ dir[c] \in Inode
    BY <1>1, <1>2, <1>4, <2>1 DEF Base, Stage
  <2>4. \A e \in Coll \ {c} : dir[e] # dir[c]
    BY <1>4, <2>3 DEF DirsDiffer
  <2>5. /\ hasDb' \subseteq Inode /\ cache' \in [Coll -> Inode \cup {None}]
        /\ dir' \in [Coll -> Inode \cup {None}]
    BY <1>4, <2>1, <2>3
  <2>6. HandlesLive' /\ DirsDiffer'
    BY <1>4, <2>1, <2>3 DEF HandlesLive, DirsDiffer
  <2>7. \A e \in Coll : t \in WritersOf(e) \/ Untouched(e)
    BY <1>3, <1>4, <2>1, <2>4 DEF Untouched, Stored
  <2>8. cache'[c] # None
    BY <1>4, <2>1, <2>3
  <2>9. Stage(t)'
    BY <1>1, <1>2, <1>4, <2>1, <2>2, <2>8 DEF Base, Stage
  <2> QED
    BY <1>1, <1>4, <2>1, <2>2, <2>5, <2>6, <2>7, <2>9, OwnerSound
<1> QED
  BY <1>6, <1>7

\* The handles of the collection are closed before its directory goes or moves.
LEMMA DropSound == ASSUME Base, NEW t \in Thread, DropCache(t) \/ CloseOld(t) PROVE Sound(t)
<1>1. /\ pc[t] \in {"drop_cache", "close_old"} /\ access[t] # Free
      /\ CloseHandles({job[t].c})
      /\ Step(t, "erase") \/ Step(t, "move_dir")
      /\ UNCHANGED <<dir, hasDb, log, catalog, boot, archive, issued, past>>
  BY DEF DropCache, CloseOld, At
<1>2. PICK c \in Coll : c = job[t].c
  BY <1>1, OpAt DEF Base
<1>3. t \in WritersOf(c)
  BY <1>1, <1>2, Owns DEF Base, WriteSteps
<1>4. /\ cache' \in [Coll -> Inode \cup {None}] /\ wal' \in [Inode -> SUBSET Query]
      /\ HandlesLive' /\ DirsDiffer' /\ cache'[c] = None
      /\ \A e \in Coll \ {c} : cache'[e] = cache[e]
  <2>1. {c} \in SUBSET Coll /\ CloseHandles({c})
    BY <1>1, <1>2 DEF CloseHandles
  <2> QED
    BY <1>1, <2>1, Close
<1>5. /\ \A u \in Thread \ {t} : pc'[u] = pc[u] /\ job'[u] = job[u]
      /\ access' = access /\ job' = job
  BY <1>1, StepKeeps
<1>6. Stage(t)'
  <2>1. CASE DropCache(t)
    <3>1. Step(t, "erase") /\ pc[t] = "drop_cache"
      BY <2>1 DEF DropCache, At
    <3>2. pc'[t] = "erase" /\ job[t].op # "rename"
      BY <3>1, StepKeeps, OpAt DEF Base
    <3> QED
      BY <1>2, <1>4, <1>5, <3>2 DEF Stage
  <2>2. CASE CloseOld(t)
    <3>1. Step(t, "move_dir") /\ pc[t] = "close_old"
      BY <2>2 DEF CloseOld, At
    <3>2. pc'[t] = "move_dir" /\ job[t].op = "rename"
      BY <3>1, StepKeeps, OpAt DEF Base
    <3> QED
      BY <1>1, <1>2, <1>4, <1>5, <3>1, <3>2 DEF Base, Stage, catalog, boot
  <2> QED
    BY <2>1, <2>2
<1>7. \A e \in Coll : t \in WritersOf(e) \/ Untouched(e)
  BY <1>1, <1>3, <1>4 DEF Untouched, Stored, catalog
<1>8. /\ dir' \in [Coll -> Inode \cup {None}] /\ hasDb' \subseteq Inode
      /\ log' \in [Inode -> SUBSET Query]
      /\ rows' \subseteq Coll /\ home' \in [Query -> Coll \cup {None}]
  BY <1>1, Typed DEF catalog
<1> QED
  BY <1>1, <1>4, <1>5, <1>6, <1>7, <1>8, OwnerSound DEF boot

\* A directory is erased piece by piece.
LEMMA EraseSound == ASSUME Base, NEW t \in Thread, Erase(t) PROVE Sound(t)
<1>1. /\ pc[t] = "erase" /\ access[t] # Free
      /\ UNCHANGED <<access, job, catalog, cache, boot, archive, issued, past>>
  BY DEF Erase, At
<1>2. PICK c \in Coll : c = job[t].c
  BY <1>1, OpAt DEF Base
<1>3. /\ t \in WritersOf(c) /\ cache[c] = None /\ job[t].op # "rename"
  BY <1>1, <1>2, Owns, OpAt DEF Base, WriteSteps, Stage
<1>4. /\ cache' \in [Coll -> Inode \cup {None}] /\ HandlesLive /\ DirsDiffer
      /\ rows' \subseteq Coll /\ home' \in [Query -> Coll \cup {None}]
      /\ rows' = rows /\ cache' = cache
  BY <1>1, Typed DEF Base, Disk, catalog
<1>5. CASE dir[c] # None
  <2>1. EraseFrom(c) /\ pc' = pc
    BY <1>2, <1>5 DEF Erase
  <2>2. Stage(t)'
    BY <1>1, <1>2, <1>3, <1>4, <2>1 DEF Stage
  <2>3. /\ dir' \in [Coll -> Inode \cup {None}] /\ hasDb' \subseteq Inode
        /\ log' \in [Inode -> SUBSET Query] /\ wal' \in [Inode -> SUBSET Query]
        /\ HandlesLive' /\ DirsDiffer'
        /\ \A e \in Coll \ {c} : dir'[e] = dir[e] /\ (Stored(e)' <=> Stored(e))
    BY <1>3, <1>4, <2>1, ErasePiece
  <2>4. \A e \in Coll : t \in WritersOf(e) \/ Untouched(e)
    BY <1>3, <1>4, <2>3 DEF Untouched
  <2> QED
    BY <1>1, <1>4, <2>1, <2>2, <2>3, <2>4, OwnerSound DEF boot
<1>6. CASE dir[c] = None
  <2>1. Step(t, "unregister") /\ UNCHANGED disk
    BY <1>1, <1>2, <1>6 DEF Erase, Step
  <2>2. pc'[t] = "unregister"
    BY <2>1, StepKeeps
  <2>3. Stage(t)'
    BY <1>1, <1>2, <1>3, <1>4, <1>6, <2>1, <2>2 DEF Stage, disk
  <2> QED
    BY <1>1, <2>1, <2>3, StepStill
<1> QED
  BY <1>5, <1>6

\* The directory of a collection moves to the new name.
LEMMA MoveDirSound == ASSUME Base, NEW t \in Thread, MoveDir(t) PROVE Sound(t)
<1>1. /\ pc[t] = "move_dir" /\ access[t] # Free /\ Step(t, "mkdir")
      /\ dir' = [dir EXCEPT ![job[t].d] = dir[job[t].c], ![job[t].c] = None]
      /\ UNCHANGED <<hasDb, log, wal, catalog, cache, boot, archive, issued, past>>
  BY DEF MoveDir, At
<1>2. /\ job[t].op = "rename" /\ job[t].c \in Coll /\ job[t].d \in Coll
      /\ job[t].c # job[t].d
  BY <1>1, OpAt DEF Base
<1>3. PICK c \in Coll, d \in Coll : c = job[t].c /\ d = job[t].d
  BY <1>2
<1>4. /\ t \in WritersOf(c) /\ t \in WritersOf(d)
  BY <1>1, <1>3, Owns DEF Base, WriteSteps
<1>5. /\ dir[c] # None /\ dir[d] = None /\ cache[c] = None /\ catOpen /\ d \notin rows
  BY <1>1, <1>2, <1>3 DEF Base, Stage
<1>6. /\ dir \in [Coll -> Inode \cup {None}] /\ cache \in [Coll -> Inode \cup {None}]
      /\ HandlesLive /\ DirsDiffer /\ rows' = rows /\ cache' = cache /\ hasDb' = hasDb
      /\ dir' = [dir EXCEPT ![d] = dir[c], ![c] = None]
  BY <1>1, <1>3, Typed DEF Base, Disk, catalog
<1>7. cache[d] = None
  BY <1>5, <1>6 DEF HandlesLive
<1>8. /\ dir' \in [Coll -> Inode \cup {None}] /\ dir'[c] = None /\ dir'[d] = dir[c]
      /\ \A e \in Coll \ {c, d} : dir'[e] = dir[e]
  BY <1>2, <1>3, <1>6
<1>9. HandlesLive' /\ DirsDiffer'
  BY <1>5, <1>6, <1>7, <1>8 DEF HandlesLive, DirsDiffer
<1>10. /\ \A u \in Thread \ {t} : pc'[u] = pc[u] /\ job'[u] = job[u]
       /\ access' = access /\ job' = job /\ pc'[t] = "mkdir"
  BY <1>1, StepKeeps
<1>11. Stage(t)'
  BY <1>1, <1>3, <1>5, <1>6, <1>8, <1>10 DEF Stage, boot
<1>12. \A e \in Coll : t \in WritersOf(e) \/ Untouched(e)
  BY <1>4, <1>6, <1>8 DEF Untouched, Stored
<1>13. /\ hasDb' \subseteq Inode
       /\ log' \in [Inode -> SUBSET Query] /\ wal' \in [Inode -> SUBSET Query]
       /\ cache' \in [Coll -> Inode \cup {None}]
       /\ rows' \subseteq Coll /\ home' \in [Query -> Coll \cup {None}]
  BY <1>1, Typed DEF catalog
<1> QED
  BY <1>1, <1>8, <1>9, <1>10, <1>11, <1>12, <1>13, OwnerSound DEF boot

\* A dump or a restore closes everything, and finds it closed as it goes on.
LEMMA WholeSound ==
  ASSUME Base, NEW t \in Thread, FlushCaches(t) \/ Wipe(t) \/ Place(t) PROVE Sound(t)
<1>1. /\ pc[t] \in {"flush", "wipe", "place"} /\ access[t] # Free
      /\ UNCHANGED <<guard, issued, archive>>
  BY DEF FlushCaches, Wipe, Place, At, boot
<1>2. /\ access[t] = Whole /\ \A c \in Coll : t \in WritersOf(c)
      /\ guard = None
  BY <1>1, OwnsAll DEF Base
<1>3. /\ job[t].op \in {"dump", "restore"} /\ job[t] \in JobType
  BY <1>1, OpAt, OwnTypes DEF Base
<1>4. ASSUME NEW todo, job' = [job EXCEPT ![t].todo = todo],
             access' = access, pc' = [pc EXCEPT ![t] = pc'[t]],
             pc'[t] \in {"zip", "wipe", "place"}, past' = past, ~catOpen',
             dir' \in [Coll -> Inode \cup {None}], hasDb' \subseteq Inode,
             log' \in [Inode -> SUBSET Query], wal' \in [Inode -> SUBSET Query],
             cache' \in [Coll -> Inode \cup {None}],
             rows' \subseteq Coll, home' \in [Query -> Coll \cup {None}],
             HandlesLive', DirsDiffer', \A c \in Coll : cache'[c] = None
      PROVE  Sound(t)
  <2>1. job'[t].op = job[t].op
    BY <1>3, <1>4 DEF JobType, Base, Control
  <2>2. \A u \in Thread \ {t} : pc'[u] = pc[u] /\ job'[u] = job[u]
    BY <1>4 DEF Base, Control
  <2>3. Stage(t)'
    BY <1>1, <1>2, <1>3, <1>4, <2>1 DEF Stage
  <2> QED
    BY <1>1, <1>2, <1>4, <2>1, <2>2, <2>3, OwnerSound
<1>5. /\ dir \in [Coll -> Inode \cup {None}] /\ hasDb \subseteq Inode
      /\ log \in [Inode -> SUBSET Query] /\ wal \in [Inode -> SUBSET Query]
      /\ cache \in [Coll -> Inode \cup {None}]
      /\ rows \subseteq Coll /\ home \in [Query -> Coll \cup {None}]
      /\ HandlesLive /\ DirsDiffer
  BY Typed DEF Base, Disk
<1>6. CASE FlushCaches(t)
  <2>1. /\ CloseHandles(Coll) /\ catOpen' = FALSE
        /\ pc' = [pc EXCEPT ![t] = IF job[t].op = "dump" THEN "zip" ELSE "wipe"]
        /\ job' = [job EXCEPT ![t].todo = Entry]
        /\ UNCHANGED <<access, dir, hasDb, log, catalog, past>>
    BY <1>6 DEF FlushCaches, Goto
  <2>2. pc' = [pc EXCEPT ![t] = pc'[t]] /\ pc'[t] \in {"zip", "wipe"}
    BY <2>1 DEF Base, Control
  <2>3. Coll \in SUBSET Coll /\ UNCHANGED <<dir, hasDb, log, rows, home>>
    BY <2>1 DEF catalog
  <2>4. /\ cache' \in [Coll -> Inode \cup {None}] /\ wal' \in [Inode -> SUBSET Query]
        /\ HandlesLive' /\ DirsDiffer' /\ \A c \in Coll : cache'[c] = None
    BY <2>1, <2>3, Close
  <2> QED
    BY <1>4, <1>5, <2>1, <2>2, <2>3, <2>4
<1>7. ASSUME pc[t] \in {"wipe", "place"}
      PROVE  (\A c \in Coll : cache[c] = None) /\ ~catOpen
  BY <1>1, <1>7 DEF Base, Stage
<1>8. job = [job EXCEPT ![t].todo = job[t].todo] /\ pc = [pc EXCEPT ![t] = pc[t]]
  <2>1. job[t] = [job[t] EXCEPT !.todo = job[t].todo]
    BY <1>3 DEF JobType
  <2> QED
    BY <2>1 DEF Base, Control
<1>9. ASSUME NEW c \in Coll, EraseFrom(c), cache' = cache, cache[c] = None
      PROVE  /\ dir' \in [Coll -> Inode \cup {None}] /\ hasDb' \subseteq Inode
             /\ log' \in [Inode -> SUBSET Query] /\ wal' \in [Inode -> SUBSET Query]
             /\ HandlesLive' /\ DirsDiffer'
  BY <1>9, ErasePiece
<1>10. CASE Wipe(t)
  <2>1. /\ pc[t] = "wipe" /\ UNCHANGED <<access, cache, boot, archive, past>>
        /\ (\A c \in Coll : cache[c] = None) /\ ~catOpen
    BY <1>7, <1>10 DEF Wipe, At
  <2>2. \/ \E c \in job[t].todo \ {"catalog"} :
             /\ EraseFrom(c) /\ UNCHANGED <<job, pc, catalog>>
        \/ \E c : job' = [job EXCEPT ![t].todo = @ \ {c}] /\ UNCHANGED <<disk, pc, catalog>>
        \/ /\ rows' = {} /\ home' = [q \in Query |-> None]
           /\ job' = [job EXCEPT ![t].todo = @ \ {"catalog"}] /\ UNCHANGED <<disk, pc>>
        \/ /\ job' = [job EXCEPT ![t].todo = Entry] /\ Goto(t, "place")
           /\ UNCHANGED <<disk, catalog>>
    BY <1>10 DEF Wipe
  <2>3. ~catOpen' /\ \A c \in Coll : cache'[c] = None
    BY <2>1 DEF boot
  <2>4. CASE \E c \in job[t].todo \ {"catalog"} : EraseFrom(c) /\ UNCHANGED <<job, pc, catalog>>
    <3>1. PICK c \in Coll : EraseFrom(c) /\ UNCHANGED <<job, pc, catalog>>
      BY <1>3, <2>4 DEF JobType, Entry
    <3>2. PICK todo : todo = job[t].todo
      OBVIOUS
    <3>3. job' = [job EXCEPT ![t].todo = todo] /\ pc' = [pc EXCEPT ![t] = pc'[t]]
      BY <1>8, <3>1, <3>2
    <3>4. /\ dir' \in [Coll -> Inode \cup {None}] /\ hasDb' \subseteq Inode
          /\ log' \in [Inode -> SUBSET Query] /\ wal' \in [Inode -> SUBSET Query]
          /\ HandlesLive' /\ DirsDiffer'
      BY <1>9, <2>1, <3>1
    <3> QED
      BY <1>4, <1>5, <2>1, <2>3, <3>1, <3>3, <3>4 DEF catalog
  <2>5. ASSUME NEW todo, job' = [job EXCEPT ![t].todo = todo], UNCHANGED disk,
               pc' = [pc EXCEPT ![t] = pc'[t]], pc'[t] \in {"zip", "wipe", "place"},
               rows' \subseteq Coll, home' \in [Query -> Coll \cup {None}]
        PROVE  Sound(t)
    <3>1. HandlesLive' /\ DirsDiffer'
      BY <1>5, <2>1, <2>5 DEF HandlesLive, DirsDiffer, disk
    <3> QED
      BY <1>4, <1>5, <2>1, <2>3, <2>5, <3>1 DEF disk
  <2>6. CASE \E c : job' = [job EXCEPT ![t].todo = @ \ {c}] /\ UNCHANGED <<disk, pc, catalog>>
    <3>1. PICK todo : job' = [job EXCEPT ![t].todo = todo] /\ UNCHANGED <<disk, pc, catalog>>
      BY <2>6
    <3> QED
      BY <1>5, <1>8, <2>1, <2>5, <3>1 DEF catalog
  <2>7. CASE /\ rows' = {} /\ home' = [q \in Query |-> None]
             /\ job' = [job EXCEPT ![t].todo = @ \ {"catalog"}] /\ UNCHANGED <<disk, pc>>
    <3>1. PICK todo : todo = job[t].todo \ {"catalog"}
      OBVIOUS
    <3>2. job' = [job EXCEPT ![t].todo = todo]
      BY <2>7, <3>1
    <3> QED
      BY <1>8, <2>1, <2>5, <2>7, <3>2
  <2>8. CASE /\ job' = [job EXCEPT ![t].todo = Entry] /\ Goto(t, "place")
             /\ UNCHANGED <<disk, catalog>>
    <3>1. pc' = [pc EXCEPT ![t] = pc'[t]] /\ pc'[t] = "place"
      BY <2>8 DEF Goto, Base, Control
    <3> QED
      BY <1>5, <2>5, <2>8, <3>1 DEF catalog
  <2> QED
    BY <2>2, <2>4, <2>6, <2>7, <2>8
<1>11. CASE Place(t)
  <2>1. /\ pc[t] = "place" /\ UNCHANGED <<cache, boot, archive, issued>>
        /\ (\A c \in Coll : cache[c] = None) /\ ~catOpen
    BY <1>7, <1>11 DEF Place, At
  <2>2. archive \in ArchiveType
    BY <2>1, OpAt DEF Base, Disk, ArchiveThere
  <2>3. ~catOpen' /\ \A c \in Coll : cache'[c] = None
    BY <2>1 DEF boot
  <2>4. ASSUME NEW c \in Coll, PlaceDir(c), job' = [job EXCEPT ![t].todo = @ \ {c}],
               UNCHANGED <<access, pc, catalog, past>>
        PROVE  Sound(t)
    <3>1. PICK todo : todo = job[t].todo \ {c}
      OBVIOUS
    <3>2. job' = [job EXCEPT ![t].todo = todo] /\ pc' = [pc EXCEPT ![t] = pc'[t]]
      BY <1>8, <2>4, <3>1
    <3>3. CASE c \notin archive.dirs
      <4>1. UNCHANGED disk
        BY <2>4, <3>3 DEF PlaceDir
      <4>2. HandlesLive' /\ DirsDiffer'
        BY <1>5, <2>1, <4>1 DEF HandlesLive, DirsDiffer, disk
      <4> QED
        BY <1>4, <1>5, <2>1, <2>3, <2>4, <3>2, <4>1, <4>2 DEF disk, catalog
    <3>4. CASE c \in archive.dirs
      <4>1. /\ dir' = [dir EXCEPT ![c] = Fresh]
            /\ hasDb' = hasDb \cup {Fresh} \/ hasDb' = hasDb \ {Fresh}
            /\ log' = [log EXCEPT ![Fresh] = archive.logs[c]]
            /\ wal' = [wal EXCEPT ![Fresh] = {}]
        BY <2>4, <3>4 DEF PlaceDir
      <4>2. archive.logs[c] \in SUBSET Query
        BY <2>2 DEF ArchiveType
      <4>3. log' \in [Inode -> SUBSET Query] /\ wal' \in [Inode -> SUBSET Query]
        BY <1>5, <4>1, <4>2
      <4>4. /\ dir' \in [Coll -> Inode \cup {None}] /\ hasDb' \subseteq Inode
            /\ HandlesLive' /\ DirsDiffer'
        BY <2>1, <4>1, NewDir
      <4> QED
        BY <1>4, <1>5, <2>1, <2>3, <2>4, <3>2, <4>3, <4>4 DEF catalog
    <3> QED
      BY <3>3, <3>4
  <2>5. ASSUME rows' = archive.rows, home' = archive.home,
               job' = [job EXCEPT ![t].todo = @ \ {"catalog"}],
               UNCHANGED <<access, pc, disk, past>>
        PROVE  Sound(t)
    <3>1. PICK todo : todo = job[t].todo \ {"catalog"}
      OBVIOUS
    <3>2. job' = [job EXCEPT ![t].todo = todo] /\ pc' = [pc EXCEPT ![t] = pc'[t]]
      BY <1>8, <2>5, <3>1
    <3>3. rows' \subseteq Coll /\ home' \in [Query -> Coll \cup {None}]
      BY <2>2, <2>5 DEF ArchiveType
    <3>4. HandlesLive' /\ DirsDiffer'
      BY <1>5, <2>1, <2>5 DEF HandlesLive, DirsDiffer, disk
    <3> QED
      BY <1>4, <1>5, <2>1, <2>3, <2>5, <3>2, <3>3, <3>4 DEF disk
  <2>6. ASSUME End(t), Happened("doubt"), UNCHANGED <<disk, catalog>> PROVE Sound(t)
    <3>1. past' \subseteq Watch
      BY <2>6, Typed DEF Happened
    <3>2. UNCHANGED <<disk, rows, cache, boot, issued, archive, home>>
      BY <2>1, <2>6 DEF catalog
    <3> QED
      BY <1>5, <2>6, <3>1, <3>2, EndStill
  <2>7. job[t].todo \ {"catalog"} \subseteq Coll
    BY <1>3 DEF JobType, Entry
  <2> QED
    BY <1>11, <2>4, <2>5, <2>6, <2>7 DEF Place
<1> QED
  BY <1>6, <1>10, <1>11

\* Every step of a thread is sound.
LEMMA ServeSound == ASSUME Base, NEW t \in Thread, Serve(t) PROVE Sound(t)
BY BeginSound, EnterSound, OpenCatalogSound, PlainEndSound, CheckSound, LookSound, RowsSound,
   LoadSound, DropSound, EraseSound, MoveDirSound, WholeSound DEF Serve

\* The bootstrap and the crash, which belong to no request.
LEMMA BaseElse == ASSUME Base, Boot \/ ScanDir \/ Reconcile \/ Crash PROVE Base'
<1>1. Control'
  BY BootControl, ScanControl, CrashControl DEF Base
<1>2. /\ dir' = dir /\ hasDb' = hasDb /\ log' = log /\ wal' = wal /\ home' = home
      /\ archive' = archive /\ issued' = issued
      /\ rows' \subseteq Coll /\ past' \subseteq Watch
  BY Typed DEF Boot, ScanDir, Reconcile, Crash, Scanning, Happened, disk, catalog, Base, Control,
               BootOK
<1>3. CASE Crash
  <2>1. /\ cache' = [c \in Coll |-> None] /\ job' = [t \in Thread |-> NoJob]
        /\ access' = [t \in Thread |-> Free]
    BY <1>3 DEF Crash
  <2>2. cache' \in [Coll -> Inode \cup {None}] /\ \A c \in Coll : cache'[c] = None
    BY <2>1
  <2>3. Disk'
    BY <1>2, <2>1, <2>2, Typed DEF Base, Disk, DiskType, HandlesLive, DirsDiffer, ArchiveThere,
                                   NoJob
  <2> QED
    BY <1>1, <2>1, <2>3 DEF Base, Stage
<1>4. ASSUME UNCHANGED <<access, pc, job, cache>> PROVE Disk'
  BY <1>2, <1>4, Typed DEF Base, Disk, DiskType, HandlesLive, DirsDiffer, ArchiveThere
<1>5. CASE Boot
  <2>1. /\ UNCHANGED <<access, pc, job, cache>> /\ ~up
    BY <1>5 DEF Boot
  <2>2. \A t \in Thread : access'[t] = Free
    BY <2>1, HasNeed DEF Base
  <2> QED
    BY <1>1, <1>4, <2>1, <2>2 DEF Base, Stage
<1>6. CASE ScanDir
  <2>1. /\ UNCHANGED <<access, pc, job, cache, rows, catOpen, guard>>
    BY <1>6 DEF ScanDir, catalog
  <2>2. ASSUME NEW t \in Thread PROVE Stage(t)'
    BY <1>2, <2>1, <2>2 DEF Base, Stage, Target
  <2> QED
    BY <1>1, <1>4, <2>1, <2>2 DEF Base
<1>7. CASE Reconcile
  <2>1. /\ UNCHANGED <<access, pc, job, cache>> /\ guard # None /\ catOpen' = TRUE
    BY <1>7 DEF Reconcile
  <2>2. ~catOpen
    BY <2>1 DEF Base, Control, BootOK
  <2>3. ASSUME NEW t \in Thread PROVE Stage(t)'
    BY <1>2, <2>1, <2>2, <2>3 DEF Base, Stage, Target
  <2> QED
    BY <1>1, <1>4, <2>1, <2>3 DEF Base
<1> QED
  BY <1>3, <1>5, <1>6, <1>7

\* The inductive invariant.
LEMMA BaseNext == Base /\ [Next]_vars => Base'
<1> SUFFICES ASSUME Base, [Next]_vars PROVE Base'
  OBVIOUS
<1>1. Control'
  BY ControlNext DEF Base
<1>2. ASSUME NEW t \in Thread, Serve(t) PROVE Base'
  <2>1. Sound(t)
    BY <1>2, ServeSound
  <2>2. ASSUME NEW u \in Thread PROVE Stage(u)'
    BY <2>1, OthersStage DEF Sound
  <2> QED
    BY <1>1, <2>1, <2>2 DEF Base, Sound
<1>3. CASE UNCHANGED vars
  <2>1. Disk'
    BY <1>3 DEF vars, store, disk, catalog, boot, Base, Disk, DiskType, HandlesLive, DirsDiffer,
                ArchiveThere
  <2>2. ASSUME NEW t \in Thread PROVE Stage(t)'
    BY <1>3, <2>2 DEF vars, store, disk, catalog, boot, Base, Stage, Target
  <2> QED
    BY <1>1, <2>1, <2>2 DEF Base
<1> QED
  BY <1>2, <1>3, BaseElse DEF Next

\* It holds at the start.
LEMMA BaseInit == Init => Base
<1> SUFFICES ASSUME Init PROVE Base
  OBVIOUS
<1>1. /\ access = [t \in Thread |-> Free] /\ pc = [t \in Thread |-> "idle"]
      /\ job = [t \in Thread |-> NoJob]
      /\ catOpen = FALSE /\ guard = None /\ up = FALSE
      /\ scan = [todo |-> {}, found |-> {}]
  BY DEF Init, AccessInit
<1>2. Free \in AccessType /\ NoJob \in JobType /\ "idle" \in Label
  BY DEF Free, AccessType, NoJob, JobType, Label, Tries
<1>3. Fits(Free, "idle", NoJob)
  BY DEF Fits, StepsOf, NoJob, Waiting
<1>4. Exclusion
  BY <1>1, FreeIsCompatible DEF Exclusion
<1>5. BootOK
  BY <1>1, StoreAssumption DEF BootOK
<1>6. Control
  BY <1>1, <1>2, <1>3, <1>4, <1>5 DEF Control
<1>7. DiskType
  BY DEF Init, DiskType
<1>8. HandlesLive /\ DirsDiffer /\ ArchiveThere
  BY DEF Init, HandlesLive, DirsDiffer, ArchiveThere, NoJob
<1>9. \A t \in Thread : Stage(t)
  BY <1>1 DEF Stage
<1> QED
  BY <1>6, <1>7, <1>8, <1>9 DEF Base, Disk

\* Base is an invariant.
LEMMA BaseAlways == Spec => []Base
<1>1. Base /\ [Next]_vars => Base'
  BY BaseNext
<1> QED
  BY <1>1, BaseInit, PTL DEF Spec

-----------------------------------------------------------------------------
(* What follows at once.                                                   *)

\* Every variable keeps its type, and no two requests conflict in the data
\* directory: pave.stores.local's jobs, directories, catalog and caches.
THEOREM StoreTypes == Spec => []TypeOK
<1>1. Base => TypeOK
  BY DEF Base, Control, BootOK, Disk, DiskType, TypeOK, AccessTypeOK, Label, JobType
<1> QED
  BY <1>1, BaseAlways, PTL

\* Whoever reads or writes through _emb and _dbs reaches the files of the
\* collection it names, for any number of threads, collections and inodes and
\* for every interleaving of requests, bootstraps and crashes.
THEOREM CachedHandlesAreLive == Spec => []CacheIsLive
<1>1. Base => CacheIsLive
  BY StoreAssumption DEF Base, Disk, HandlesLive, DiskType, CacheIsLive, Stored
<1> QED
  BY <1>1, BaseAlways, PTL

\* A rename that has passed its checks finds the old row and no new one when it
\* comes to rename the row, after the directory has moved.
THEOREM RenamesDoNotCollide == Spec => []RenameNeverCollides
<1>1. ASSUME Base PROVE RenameNeverCollides
  <2>1. SUFFICES ASSUME NEW t \in Thread, pc[t] = "rename_row"
                 PROVE  job[t].c \in rows /\ job[t].d \notin rows
    BY DEF RenameNeverCollides
  <2>2. job[t].op = "rename"
    BY <1>1, <2>1, OpAt DEF Base
  <2>3. access[t] # Free
    BY <1>1, <2>1, OwnTypes DEF Base, Fits, Waiting
  <2> QED
    BY <1>1, <2>1, <2>2, <2>3 DEF Base, Stage
<1> QED
  BY <1>1, BaseAlways, PTL

-----------------------------------------------------------------------------
(* Logged queries.                                                         *)

\* Query q is in the log of some collection.
Logged(q) == \E d \in Coll : q \in LogOf(d)

\* A step that leaves directories alone and takes nothing out of a log.
LEMMA LogGrows ==
  ASSUME Base, dir' = dir, \A i \in Inode : log[i] \subseteq log'[i],
         NEW c \in Coll, NEW q \in LogOf(c)
  PROVE  Logged(q)'
<1>1. dir[c] # None /\ dir[c] \in Inode /\ q \in log[dir[c]]
  BY Typed DEF LogOf
<1>2. q \in LogOf(c)'
  BY <1>1 DEF LogOf
<1> QED
  BY <1>2 DEF Logged

\* A collection that gets a directory takes none of the others' logs.
LEMMA NewLog ==
  ASSUME Base, NEW c \in Coll, dir' = [dir EXCEPT ![c] = Fresh],
         NEW some, log' = [log EXCEPT ![Fresh] = some],
         NEW e \in Coll \ {c}, NEW q \in LogOf(e)
  PROVE  Logged(q)'
<1>1. /\ Fresh \in Inode /\ dir[e] # Fresh /\ dir[e] # None /\ dir[e] \in Inode
      /\ q \in log[dir[e]]
  BY FreshIsNew, Typed DEF Base, Disk, LogOf
<1>2. dir'[e] = dir[e] /\ log'[dir[e]] = log[dir[e]]
  BY <1>1, Typed
<1>3. q \in LogOf(e)'
  BY <1>1, <1>2 DEF LogOf
<1> QED
  BY <1>3 DEF Logged

\* A request that writes a query to a log takes nothing out of it.
LEMMA WriteKeepsLog ==
  ASSUME Base, NEW t \in Thread, WriteLog(t), job[t].c \in Coll, cache[job[t].c] # None
  PROVE  \A i \in Inode : log[i] \subseteq log'[i]
<1>1. PICK i \in Inode : i = cache[job[t].c]
  BY Typed
<1>2. log' = [log EXCEPT ![i] = @ \cup {job[t].q}]
  BY <1>1 DEF WriteLog
<1> QED
  BY <1>2, Typed

\* What a step of t does to the rows of the logs.
LEMMA ServeKeepsLog ==
  ASSUME Base, NEW t \in Thread, Serve(t), NEW c \in Coll, NEW q \in LogOf(c)
  PROVE  Logged(q)' \/ (t \in WritersOf(c) /\ job[t].op \in {"delete", "restore"})
<1>1. dir[c] # None /\ dir[c] \in Inode /\ q \in log[dir[c]]
  BY Typed DEF LogOf
<1>2. ASSUME dir' = dir, log' = log PROVE Logged(q)'
  BY <1>2, LogGrows
<1>3. CASE \/ Begin(t) \/ Enter(t) \/ OpenCatalog(t) \/ List(t) \/ Loaded(t) \/ Register(t)
           \/ Unregister(t) \/ PurgeHomes(t) \/ CheckDir(t) \/ CheckRow(t) \/ RenameRow(t)
           \/ RenameHomes(t) \/ SearchHit(t) \/ Miss(t) \/ PutHome(t) \/ Zip(t)
           \/ CatalogFails(t)
  <2>1. CASE Begin(t) \/ OpenCatalog(t) \/ SearchHit(t) \/ Zip(t) \/ CatalogFails(t)
    BY <1>2, <2>1 DEF Begin, OpenCatalog, SearchHit, Zip, CatalogFails, disk
  <2>2. CASE Enter(t) \/ Loaded(t) \/ CheckDir(t) \/ Miss(t)
    BY <1>2, <2>2 DEF Enter, Loaded, CheckDir, Miss, store, disk
  <2>3. CASE \/ List(t) \/ Register(t) \/ Unregister(t) \/ PurgeHomes(t) \/ CheckRow(t)
             \/ RenameRow(t) \/ RenameHomes(t) \/ PutHome(t)
    BY <1>2, <2>3 DEF List, Register, Unregister, PurgeHomes, CheckRow, RenameRow, RenameHomes,
                      PutHome, InCatalog, disk
  <2> QED
    BY <1>3, <2>1, <2>2, <2>3
<1>4. CASE Open(t) \/ DropCache(t) \/ CloseOld(t) \/ FlushCaches(t)
  BY <1>2, <1>4 DEF Open, DropCache, CloseOld, FlushCaches
<1>5. CASE LogHit(t) \/ LookAgain(t)
  <2>1. dir' = dir /\ access[t] # Free /\ pc[t] \in {"look", "loaded"}
    BY <1>5 DEF LogHit, LookAgain, At
  <2>2. job[t].c \in Coll
    BY <2>1, OpAt DEF Base
  <2>3. log' = log \/ (WriteLog(t) /\ cache[job[t].c] # None)
    <3>1. CASE LogHit(t)
      BY <3>1 DEF LogHit
    <3>2. CASE LookAgain(t)
      <4>1. job[t].op \in {"search", "log"} /\ pc[t] = "loaded"
        BY <3>2 DEF LookAgain, At
      <4>2. cache[job[t].c] # None
        BY <2>1, <4>1 DEF Base, Stage, Target
      <4> QED
        BY <3>2, <4>2 DEF LookAgain
    <3> QED
      BY <1>5, <3>1, <3>2
  <2>4. CASE log' = log
    BY <1>2, <2>1, <2>4
  <2>5. CASE WriteLog(t) /\ cache[job[t].c] # None
    <3>1. \A i \in Inode : log[i] \subseteq log'[i]
      BY <2>2, <2>5, WriteKeepsLog
    <3> QED
      BY <2>1, <3>1, LogGrows
  <2> QED
    BY <2>3, <2>4, <2>5
<1>6. CASE MkDir(t)
  <2>1. PICK d \in Coll : d = Target(t)
    BY <1>6, Owns DEF MkDir, At, Base, WriteSteps
  <2>2. CASE UNCHANGED disk
    BY <1>2, <2>2 DEF disk
  <2>3. CASE dir[d] = None /\ dir' = [dir EXCEPT ![d] = Fresh] /\ log' = [log EXCEPT ![Fresh] = {}]
    BY <1>1, <2>3, NewLog
  <2> QED
    BY <1>6, <2>1, <2>2, <2>3 DEF MkDir
<1>7. CASE Erase(t)
  <2>1. access[t] # Free /\ pc[t] = "erase"
    BY <1>7 DEF Erase, At
  <2>2. job[t].op = "delete" /\ t \in WritersOf(job[t].c) /\ job[t].c \in Coll
    BY <2>1, OpAt, Owns DEF Base, WriteSteps
  <2>3. CASE job[t].c = c
    BY <2>2, <2>3
  <2>4. CASE job[t].c # c
    <3>1. PICK d \in Coll : d = job[t].c
      BY <2>2
    <3>2. UNCHANGED disk \/ EraseFrom(d)
      BY <1>7, <3>1 DEF Erase
    <3>3. CASE UNCHANGED disk
      BY <1>2, <3>3 DEF disk
    <3>4. CASE EraseFrom(d)
      <4>1. dir'[c] = dir[c] /\ log'[dir[c]] = log[dir[c]]
        <5>1. CASE Stored(d)
          <6>1. log' = [log EXCEPT ![dir[d]] = {}] /\ dir' = dir
            BY <3>4, <5>1 DEF EraseFrom
          <6>2. dir[d] # dir[c]
            BY <1>1, <2>4, <3>1 DEF Base, Disk, DirsDiffer
          <6> QED
            BY <1>1, <6>1, <6>2, Typed
        <5>2. CASE ~Stored(d)
          <6>1. log' = log /\ dir' = [dir EXCEPT ![d] = None]
            BY <3>4, <5>2 DEF EraseFrom
          <6> QED
            BY <2>4, <3>1, <6>1, Typed
        <5> QED
          BY <5>1, <5>2
      <4>2. q \in LogOf(c)'
        BY <1>1, <4>1 DEF LogOf
      <4> QED
        BY <4>2 DEF Logged
    <3> QED
      BY <3>2, <3>3, <3>4
  <2> QED
    BY <2>3, <2>4
<1>8. CASE MoveDir(t)
  <2>1. /\ access[t] # Free /\ pc[t] = "move_dir" /\ log' = log
        /\ dir' = [dir EXCEPT ![job[t].d] = dir[job[t].c], ![job[t].c] = None]
    BY <1>8 DEF MoveDir, At
  <2>2. job[t].op = "rename" /\ job[t].c # job[t].d /\ job[t].d \in Coll /\ job[t].c \in Coll
    BY <2>1, OpAt DEF Base
  <2>3. dir[job[t].d] = None
    BY <2>1, <2>2 DEF Base, Stage
  <2>4. c # job[t].d
    BY <1>1, <2>3
  <2>5. CASE c = job[t].c
    <3>1. PICK d \in Coll : d = job[t].d
      BY <2>2
    <3>2. dir'[d] = dir[c]
      BY <2>1, <2>2, <2>5, <3>1, Typed
    <3>3. q \in LogOf(d)'
      BY <1>1, <2>1, <3>2 DEF LogOf
    <3> QED
      BY <3>3 DEF Logged
  <2>6. CASE c # job[t].c
    <3>1. dir'[c] = dir[c]
      BY <2>1, <2>4, <2>6, Typed
    <3>2. q \in LogOf(c)'
      BY <1>1, <2>1, <3>1 DEF LogOf
    <3> QED
      BY <3>2 DEF Logged
  <2> QED
    BY <2>5, <2>6
<1>9. CASE Wipe(t) \/ Place(t)
  <2>1. access[t] # Free /\ pc[t] \in {"wipe", "place"}
    BY <1>9 DEF Wipe, Place, At
  <2> QED
    BY <2>1, OwnsAll, OpAt DEF Base
<1> QED
  BY <1>3, <1>4, <1>5, <1>6, <1>7, <1>8, <1>9 DEF Serve

\* A logged query is lost only to a delete or a restore of the directory that
\* holds it: renames, reloads, reopened catalogs and crashes, however they are
\* interleaved, keep it in the query_log of some collection.
THEOREM LoggedQueriesSurvive == Spec => LogRowsSurvive
<1>1. ASSUME Base, [Next]_vars, NEW c \in Coll, NEW q \in Query,
             q \in LogOf(c), \A d \in Coll : q \notin LogOf(d)'
      PROVE  \E t \in WritersOf(c) : job[t].op \in {"delete", "restore"}
  <2>1. ~Logged(q)'
    BY <1>1 DEF Logged
  <2>2. CASE dir' = dir /\ log' = log
    <3>1. Logged(q)'
      BY <1>1, <2>2, LogGrows
    <3> QED
      BY <2>1, <3>1
  <2>3. CASE Boot \/ ScanDir \/ Reconcile \/ Crash
    BY <2>2, <2>3 DEF Boot, ScanDir, Reconcile, Crash, disk
  <2>4. CASE UNCHANGED vars
    BY <2>2, <2>4 DEF vars, store, disk
  <2>5. CASE \E t \in Thread : Serve(t)
    BY <1>1, <2>1, <2>5, ServeKeepsLog
  <2> QED
    BY <1>1, <2>3, <2>4, <2>5 DEF Next
<1>2. Base /\ [Next]_vars =>
        [\A c \in Coll, q \in Query :
           q \in LogOf(c) /\ (\A d \in Coll : q \notin LogOf(d)') =>
             \E t \in WritersOf(c) : job[t].op \in {"delete", "restore"}]_vars
  BY <1>1
<1> QED
  BY <1>2, BaseAlways, PTL DEF Spec, LogRowsSurvive

-----------------------------------------------------------------------------
(* The -wal files.                                                         *)

\* Rows that are only in a -wal belong to a collection with an open handle.
Flushed == "crash" \notin past => \A c \in Coll : cache[c] = None => WalOf(c) = {}

\* What is to be shown of the step of a thread that may disturb them.
LEMMA FlushedStep ==
  ASSUME Base, NEW t \in Thread, Serve(t),
         \A c \in Coll : cache[c] = None => WalOf(c) = {},
         NEW c \in Coll, cache'[c] = None
  PROVE  WalOf(c)' = {}
<1>1. /\ dir \in [Coll -> Inode \cup {None}] /\ cache \in [Coll -> Inode \cup {None}]
      /\ wal \in [Inode -> SUBSET Query] /\ HandlesLive /\ DirsDiffer
  BY Typed DEF Base, Disk
<1>2. ASSUME dir'[c] = dir[c], dir[c] # None => wal'[dir[c]] = wal[dir[c]], cache[c] = None
      PROVE  WalOf(c)' = {}
  BY <1>2 DEF WalOf
<1>3. CASE \/ Begin(t) \/ Enter(t) \/ OpenCatalog(t) \/ List(t) \/ Loaded(t) \/ Register(t)
           \/ Unregister(t) \/ PurgeHomes(t) \/ CheckDir(t) \/ CheckRow(t) \/ RenameRow(t)
           \/ RenameHomes(t) \/ SearchHit(t) \/ Miss(t) \/ PutHome(t) \/ Zip(t)
           \/ CatalogFails(t)
  <2>1. CASE Begin(t) \/ OpenCatalog(t) \/ SearchHit(t) \/ Zip(t) \/ CatalogFails(t)
    BY <1>2, <2>1 DEF Begin, OpenCatalog, SearchHit, Zip, CatalogFails, disk
  <2>2. CASE Enter(t) \/ Loaded(t) \/ CheckDir(t) \/ Miss(t)
    BY <1>2, <2>2 DEF Enter, Loaded, CheckDir, Miss, store, disk
  <2>3. CASE \/ List(t) \/ Register(t) \/ Unregister(t) \/ PurgeHomes(t) \/ CheckRow(t)
             \/ RenameRow(t) \/ RenameHomes(t) \/ PutHome(t)
    BY <1>2, <2>3 DEF List, Register, Unregister, PurgeHomes, CheckRow, RenameRow, RenameHomes,
                      PutHome, InCatalog, disk
  <2> QED
    BY <1>3, <2>1, <2>2, <2>3
<1>4. ASSUME NEW cs \in SUBSET Coll, CloseHandles(cs), dir' = dir PROVE WalOf(c)' = {}
  <2>1. /\ cache' = [e \in Coll |-> IF e \in cs THEN None ELSE cache[e]]
        /\ wal' = [i \in Inode |-> IF \E e \in cs : cache[e] = i THEN {} ELSE wal[i]]
    BY <1>4 DEF CloseHandles
  <2>2. CASE cache[c] = None
    <3>1. dir[c] # None => wal[dir[c]] = {} /\ dir[c] \in Inode
      BY <1>1, <2>2 DEF WalOf
    <3> QED
      BY <1>4, <2>1, <3>1 DEF WalOf
  <2>3. CASE cache[c] # None
    <3>1. c \in cs /\ cache[c] = dir[c] /\ dir[c] \in Inode
      BY <1>1, <2>1, <2>3 DEF HandlesLive
    <3> QED
      BY <1>4, <2>1, <3>1 DEF WalOf
  <2> QED
    BY <2>2, <2>3
<1>5. CASE DropCache(t) \/ CloseOld(t) \/ FlushCaches(t)
  <2>1. CASE FlushCaches(t)
    <3>1. CloseHandles(Coll) /\ dir' = dir
      BY <2>1 DEF FlushCaches
    <3> QED
      BY <1>4, <3>1
  <2>2. CASE DropCache(t) \/ CloseOld(t)
    <3>1. /\ pc[t] \in {"drop_cache", "close_old"} /\ dir' = dir
          /\ CloseHandles({job[t].c})
      BY <2>2 DEF DropCache, CloseOld, At
    <3>2. PICK d \in Coll : d = job[t].c
      BY <3>1, OpAt DEF Base
    <3>3. CloseHandles({d}) /\ {d} \in SUBSET Coll
      BY <3>1, <3>2 DEF CloseHandles
    <3> QED
      BY <1>4, <3>1, <3>3
  <2> QED
    BY <1>5, <2>1, <2>2
<1>6. ASSUME NEW d \in Coll, dir' = [dir EXCEPT ![d] = Fresh], wal' = [wal EXCEPT ![Fresh] = {}],
             cache' = cache
      PROVE  WalOf(c)' = {}
  <2>1. Fresh \in Inode /\ \A e \in Coll : dir[e] # Fresh
    BY <1>1, FreshIsNew
  <2>2. Fresh # None
    BY <2>1, StoreAssumption
  <2>3. CASE c = d
    <3>1. dir'[c] = Fresh /\ wal'[Fresh] = {}
      BY <1>1, <1>6, <2>1, <2>3
    <3>2. wal'[dir'[c]] = {}
      BY <3>1
    <3> QED
      BY <3>2 DEF WalOf
  <2>4. CASE c # d
    <3>1. dir'[c] = dir[c] /\ (dir[c] # None => wal'[dir[c]] = wal[dir[c]])
      BY <1>1, <1>6, <2>1, <2>4
    <3> QED
      BY <1>2, <1>6, <3>1
  <2> QED
    BY <2>3, <2>4
<1>7. CASE MkDir(t)
  <2>1. PICK d \in Coll : d = Target(t)
    BY <1>7, Owns DEF MkDir, At, Base, WriteSteps
  <2>2. cache' = cache
    BY <1>7 DEF MkDir
  <2>3. CASE UNCHANGED disk
    BY <1>2, <2>2, <2>3 DEF disk
  <2>4. CASE dir' = [dir EXCEPT ![d] = Fresh] /\ wal' = [wal EXCEPT ![Fresh] = {}]
    BY <1>6, <2>2, <2>4
  <2> QED
    BY <1>7, <2>1, <2>3, <2>4 DEF MkDir
<1>8. CASE Open(t)
  <2>1. PICK d \in Coll : d = Target(t)
    BY <1>8, Owns DEF Open, At, Base, WriteSteps
  <2>2. /\ cache' = [cache EXCEPT ![d] = dir[d]] /\ UNCHANGED <<dir, wal>>
        /\ pc[t] = "open" /\ access[t] # Free
    BY <1>8, <2>1 DEF Open, At
  <2>3. dir[d] # None
    BY <2>1, <2>2 DEF Base, Stage
  <2>4. cache[c] = None
    BY <1>1, <2>2, <2>3
  <2> QED
    BY <1>2, <2>2, <2>4
<1>9. ASSUME NEW d \in Coll, EraseFrom(d), cache' = cache PROVE WalOf(c)' = {}
  <2>1. CASE Stored(d)
    <3>1. wal' = [wal EXCEPT ![dir[d]] = {}] /\ dir' = dir
      BY <1>9, <2>1 DEF EraseFrom
    <3>2. dir[c] # None => wal[dir[c]] = {} /\ dir[c] \in Inode
      BY <1>1, <1>9 DEF WalOf
    <3>3. dir[c] # None => wal'[dir[c]] = {}
      BY <1>1, <3>1, <3>2
    <3> QED
      BY <3>1, <3>3 DEF WalOf
  <2>2. CASE ~Stored(d)
    <3>1. wal' = wal /\ dir' = [dir EXCEPT ![d] = None]
      BY <1>9, <2>2 DEF EraseFrom
    <3>2. dir'[c] = None \/ dir'[c] = dir[c]
      BY <1>1, <3>1
    <3>3. WalOf(c) = {}
      BY <1>9
    <3> QED
      BY <3>1, <3>2, <3>3 DEF WalOf
  <2> QED
    BY <2>1, <2>2
<1>10. CASE Erase(t)
  <2>1. PICK d \in Coll : d = job[t].c
    BY <1>10, OpAt DEF Erase, At, Base
  <2>2. cache' = cache /\ (EraseFrom(d) \/ UNCHANGED disk)
    BY <1>10, <2>1 DEF Erase
  <2> QED
    BY <1>2, <1>9, <2>2 DEF disk
<1>11. CASE MoveDir(t)
  <2>1. /\ access[t] # Free /\ pc[t] = "move_dir" /\ wal' = wal /\ cache' = cache
        /\ dir' = [dir EXCEPT ![job[t].d] = dir[job[t].c], ![job[t].c] = None]
    BY <1>11 DEF MoveDir, At
  <2>2. job[t].op = "rename" /\ job[t].d \in Coll /\ job[t].c \in Coll
    BY <2>1, OpAt DEF Base
  <2>3. PICK a \in Coll, d \in Coll : a = job[t].c /\ d = job[t].d
    BY <2>2
  <2>4. cache[a] = None /\ dir' = [dir EXCEPT ![d] = dir[a], ![a] = None]
    BY <2>1, <2>2, <2>3 DEF Base, Stage
  <2>5. dir'[c] \in {dir[a], dir[c], None}
    BY <1>1, <2>4
  <2>6. WalOf(a) = {} /\ WalOf(c) = {}
    BY <2>1, <2>4
  <2> QED
    BY <2>1, <2>5, <2>6 DEF WalOf
<1>12. CASE LogHit(t) \/ LookAgain(t)
  <2>1. /\ dir' = dir /\ cache' = cache /\ access[t] # Free /\ pc[t] \in {"look", "loaded"}
    BY <1>12 DEF LogHit, LookAgain, At
  <2>2. PICK d \in Coll : d = job[t].c
    BY <2>1, OpAt DEF Base
  <2>3. wal' = wal \/ (WriteLog(t) /\ cache[d] # None)
    <3>1. CASE LogHit(t)
      BY <2>2, <3>1 DEF LogHit
    <3>2. CASE LookAgain(t)
      <4>1. job[t].op \in {"search", "log"} /\ pc[t] = "loaded"
        BY <3>2 DEF LookAgain, At
      <4>2. cache[d] # None
        BY <2>1, <2>2, <4>1 DEF Base, Stage, Target
      <4> QED
        BY <3>2, <4>2 DEF LookAgain
    <3> QED
      BY <1>12, <3>1, <3>2
  <2>4. CASE wal' = wal
    BY <1>2, <2>1, <2>4
  <2>5. CASE WriteLog(t) /\ cache[d] # None
    <3>1. PICK i \in Inode : i = cache[d]
      BY <1>1, <2>5
    <3>2. \E rest \in {{}, wal[i] \cup {job[t].q}} : wal' = [wal EXCEPT ![i] = rest]
      BY <2>2, <2>5, <3>1 DEF WriteLog
    <3>3. cache[d] = dir[d] /\ c # d
      BY <1>1, <2>1, <2>5 DEF HandlesLive
    <3>4. dir[c] # None => dir[c] # i
      BY <1>1, <3>1, <3>3 DEF DirsDiffer
    <3>5. dir[c] # None => wal'[dir[c]] = wal[dir[c]]
      BY <1>1, <3>2, <3>4
    <3> QED
      BY <1>2, <2>1, <3>5
  <2> QED
    BY <2>3, <2>4, <2>5
<1>13. CASE Wipe(t)
  <2>1. /\ cache' = cache /\ access[t] # Free /\ pc[t] = "wipe"
    BY <1>13 DEF Wipe, At
  <2>2. job[t].todo \ {"catalog"} \subseteq Coll
    BY OwnTypes DEF Base, JobType, Entry
  <2>3. UNCHANGED disk \/ \E d \in Coll : EraseFrom(d)
    BY <1>13, <2>2 DEF Wipe
  <2> QED
    BY <1>2, <1>9, <2>1, <2>3 DEF disk
<1>14. CASE Place(t)
  <2>1. /\ cache' = cache /\ access[t] # Free /\ pc[t] = "place"
    BY <1>14 DEF Place, At
  <2>2. job[t].todo \ {"catalog"} \subseteq Coll
    BY OwnTypes DEF Base, JobType, Entry
  <2>3. UNCHANGED disk \/ \E d \in Coll : PlaceDir(d)
    BY <1>14, <2>2 DEF Place
  <2>4. CASE \E d \in Coll : PlaceDir(d)
    <3>1. PICK d \in Coll : PlaceDir(d)
      BY <2>4
    <3>2. UNCHANGED disk \/ (dir' = [dir EXCEPT ![d] = Fresh] /\ wal' = [wal EXCEPT ![Fresh] = {}])
      BY <3>1 DEF PlaceDir
    <3> QED
      BY <1>2, <1>6, <2>1, <3>2 DEF disk
  <2> QED
    BY <1>2, <2>1, <2>3, <2>4 DEF disk
<1> QED
  BY <1>3, <1>5, <1>7, <1>8, <1>10, <1>11, <1>12, <1>13, <1>14 DEF Serve

\* The steps that keep catalog and disk in step with each other.
Orderly(t) ==
  \/ Begin(t) \/ Enter(t) \/ List(t)
  \/ MkDir(t) \/ Open(t) \/ Loaded(t) \/ Register(t)
  \/ DropCache(t) \/ Erase(t) \/ Unregister(t) \/ PurgeHomes(t)
  \/ CheckDir(t) \/ CheckRow(t) \/ CloseOld(t) \/ MoveDir(t)
  \/ RenameRow(t) \/ RenameHomes(t)
  \/ SearchHit(t) \/ LogHit(t) \/ Miss(t) \/ LookAgain(t) \/ PutHome(t)
  \/ FlushCaches(t) \/ Zip(t)

\* They leave the bootstrap alone and no doubt behind; only a dump or a restore
\* closes the catalog, before it removes anything.
LEMMA OrderlyKeeps ==
  ASSUME Base, NEW t \in Thread, Orderly(t)
  PROVE  /\ guard' = guard /\ up' = up /\ scan' = scan
         /\ past' = past \/ past' = past \cup ({"overlap"} \cap Watch)
         /\ pc[t] \notin {"wipe", "place"}
         /\ (catOpen' <=> catOpen) \/ FlushCaches(t)
<1>1. CASE Begin(t)
  BY <1>1 DEF Begin, Happened, boot
<1>2. CASE Enter(t)
  <2>1. UNCHANGED <<guard, up, scan, past, catOpen>> /\ access[t] = Free
    BY <1>2 DEF Enter, Grant, store, boot
  <2>2. pc[t] \notin {"wipe", "place"}
    BY <2>1, OwnTypes DEF Base, Fits, Waiting
  <2> QED
    BY <2>1, <2>2
<1>3. CASE Loaded(t) \/ CheckDir(t) \/ Miss(t)
  BY <1>3 DEF Loaded, CheckDir, Miss, At, store, boot
<1>7. CASE SearchHit(t) \/ Zip(t)
  <2>1. UNCHANGED <<boot, past>> /\ pc[t] \in {"look", "zip"}
    <3>1. CASE SearchHit(t)
      BY <3>1 DEF SearchHit, At
    <3>2. CASE Zip(t)
      BY <3>2 DEF Zip, At
    <3> QED
      BY <1>7, <3>1, <3>2
  <2> QED
    BY <2>1 DEF boot
<1>4. CASE \/ List(t) \/ Register(t) \/ Unregister(t) \/ PurgeHomes(t) \/ CheckRow(t)
           \/ RenameRow(t) \/ RenameHomes(t) \/ PutHome(t)
  BY <1>4 DEF List, Register, Unregister, PurgeHomes, CheckRow, RenameRow, RenameHomes,
              PutHome, InCatalog, At, boot
<1>5. CASE \/ MkDir(t) \/ Open(t) \/ DropCache(t) \/ Erase(t) \/ CloseOld(t) \/ MoveDir(t)
           \/ LogHit(t) \/ LookAgain(t)
  BY <1>5 DEF MkDir, Open, DropCache, Erase, CloseOld, MoveDir, LogHit, LookAgain, At, boot
<1>6. CASE FlushCaches(t)
  <2>1. UNCHANGED <<guard, up, scan, past>> /\ pc[t] = "flush"
    BY <1>6 DEF FlushCaches, At
  <2> QED
    BY <1>6, <2>1
<1> QED
  BY <1>1, <1>2, <1>3, <1>4, <1>5, <1>6, <1>7 DEF Orderly

\* A crash and an overlap are not forgotten.
LEMMA Remembered ==
  ASSUME Base, [Next]_vars, NEW e \in {"crash", "overlap"}, e \in past
  PROVE  e \in past'
<1>1. CASE Boot \/ ScanDir \/ Reconcile \/ Crash
  BY <1>1 DEF Boot, Scanning, ScanDir, Reconcile, Crash, Happened
<1>2. CASE UNCHANGED vars
  BY <1>2 DEF vars, store
<1>3. CASE \E t \in Thread : Serve(t)
  <2>1. PICK t \in Thread : Serve(t)
    BY <1>3
  <2>2. CASE OpenCatalog(t)
    BY <2>2 DEF OpenCatalog, Scanning
  <2>3. CASE CatalogFails(t) \/ Wipe(t) \/ Place(t)
    BY <2>3 DEF CatalogFails, Wipe, Place, Happened
  <2>4. CASE Orderly(t)
    BY <2>4, OrderlyKeeps
  <2> QED
    BY <2>1, <2>2, <2>3, <2>4 DEF Serve, Orderly
<1> QED
  BY <1>1, <1>2, <1>3 DEF Next

\* Without handles on it, a collection has no -wal, until the process dies.
LEMMA FlushedNext ==
  ASSUME "crash" \in Watch \/ "crash" \notin Faults, Base, Flushed, [Next]_vars
  PROVE  Flushed'
<1> SUFFICES ASSUME "crash" \notin past', NEW c \in Coll, cache'[c] = None
             PROVE  WalOf(c)' = {}
  BY DEF Flushed
<1>1. "crash" \notin past
  BY Remembered
<1>2. \A e \in Coll : cache[e] = None => WalOf(e) = {}
  BY <1>1 DEF Flushed
<1>3. CASE \E t \in Thread : Serve(t)
  BY <1>2, <1>3, FlushedStep
<1>4. CASE Boot \/ ScanDir \/ Reconcile
  BY <1>2, <1>4 DEF Boot, ScanDir, Reconcile, disk, WalOf
<1>5. CASE Crash
  BY <1>5 DEF Crash, Happened
<1>6. CASE UNCHANGED vars
  BY <1>2, <1>6 DEF vars, store, disk, WalOf
<1> QED
  BY <1>3, <1>4, <1>5, <1>6 DEF Next

\* A dump misses no committed row: when it reads the files none is left in a
\* -wal that stays out of the archive, unless the process has died before. (A
\* model in which it can die has to remember that it did.)
THEOREM DumpsMissNothing ==
  ASSUME "crash" \in Watch \/ "crash" \notin Faults
  PROVE  Spec => []DumpIsComplete
<1>1. Init => Flushed
  BY DEF Init, Flushed, WalOf
<1>2. Base /\ Flushed /\ [Next]_vars => Flushed'
  BY FlushedNext
<1>3. ASSUME Base, Flushed PROVE DumpIsComplete
  <2> SUFFICES ASSUME NEW t \in Thread, pc[t] = "zip", "crash" \notin past, NEW c \in Coll
               PROVE  WalOf(c) = {}
    BY DEF DumpIsComplete
  <2>1. access[t] # Free
    BY <1>3, OwnTypes DEF Base, Fits, Waiting
  <2>2. cache[c] = None
    BY <1>3, <2>1 DEF Base, Stage
  <2> QED
    BY <1>3, <2>2 DEF Flushed
<1> QED
  BY <1>1, <1>2, <1>3, BaseAlways, PTL DEF Spec

-----------------------------------------------------------------------------
(* The catalog and the disk.                                               *)

\* t is taking collection c off the disk; the row of c is still to go.
Removing(t, c) ==
  /\ access[t] # Free /\ job[t].c = c
  /\ \/ pc[t] \in {"erase", "unregister"}
     \/ job[t].op = "rename" /\ pc[t] \in {"mkdir", "open", "loaded", "register", "rename_row"}

\* A row of c is explained.
Explained(c) == Stored(c) \/ \E t \in Thread : Removing(t, c)

\* No statement failed and no archive came back since the last reconciliation.
Doubtless == "doubt" \in Watch /\ "doubt" \notin past
\* No statement can have failed that is still to be noticed.
Unfailed == "catalog" \notin Faults \/ Doubtless

\* A restore has begun to replace files.
Restoring == \E t \in Thread : pc[t] \in {"wipe", "place"}

\* The rows may be relied on: the catalog is open, or was closed by a dump.
Trusted == Unfailed /\ (catOpen \/ (Doubtless /\ up /\ guard = None /\ ~Restoring))

\* Every row is explained, and so is what a bootstrap has found so far.
Agree ==
  /\ Trusted => \A c \in rows : Explained(c)
  /\ guard # None /\ Unfailed => \A c \in scan.found : Explained(c)

\* t is putting collection c on the disk; the row of c is still to come.
Adding(t, c) ==
  /\ access[t] # Free /\ Target(t) = c
  /\ \/ pc[t] \in {"loaded", "register"}
     \/ job[t].op = "rename" /\ pc[t] \in {"mkdir", "open", "rename_row"}

\* Who removes or adds a collection is its writer.
LEMMA ChangersOwn ==
  ASSUME Control, NEW t \in Thread, NEW c \in Coll, Removing(t, c) \/ Adding(t, c)
  PROVE  t \in WritersOf(c)
<1>1. access[t] # Free /\ pc[t] \in WriteSteps /\ (job[t].c = c \/ Target(t) = c)
  BY DEF Removing, Adding, WriteSteps
<1> QED
  BY <1>1, Owns

\* The collections of others are explained, or listed, as they were.
LEMMA OthersAgree ==
  ASSUME Base, NEW t \in Thread, Local(t), NEW c \in Coll, t \notin WritersOf(c)
  PROVE  /\ Explained(c) => Explained(c)'
         /\ (\E u \in Thread : Adding(u, c)) => \E u \in Thread : Adding(u, c)'
         /\ (Stored(c)' <=> Stored(c)) /\ (c \in rows' <=> c \in rows)
<1>1. Untouched(c)
  BY DEF Local
<1>2. ASSUME NEW u \in Thread, Removing(u, c) PROVE Removing(u, c)'
  <2>1. u # t
    BY <1>2, ChangersOwn DEF Base
  <2> QED
    BY <1>2, <2>1 DEF Local, Removing
<1>3. ASSUME NEW u \in Thread, Adding(u, c) PROVE Adding(u, c)'
  <2>1. u # t
    BY <1>3, ChangersOwn DEF Base
  <2> QED
    BY <1>3, <2>1 DEF Local, Adding, Target
<1> QED
  BY <1>1, <1>2, <1>3 DEF Explained, Untouched

\* A step of its own writer leaves a collection explained, or removes its row.
LEMMA OwnExplained ==
  ASSUME Base, NEW t \in Thread, Orderly(t), NEW c \in Coll, t \in WritersOf(c), Explained(c)
  PROVE  Explained(c)' \/ (c \notin rows' /\ guard' = None)
<1>1. access[t] # Free
  BY DEF WritersOf, Free
<1>2. Stored(c) \/ Removing(t, c)
  <2>1. ASSUME NEW u \in Thread, Removing(u, c) PROVE u = t
    BY <2>1, ChangersOwn, OwnerAlone DEF Base
  <2> QED
    BY <2>1 DEF Explained
<1>3. /\ dir \in [Coll -> Inode \cup {None}] /\ hasDb \subseteq Inode
      /\ cache \in [Coll -> Inode \cup {None}] /\ HandlesLive /\ DirsDiffer
  BY Typed DEF Base, Disk
<1>4. CASE Begin(t) \/ Enter(t)
  <2>1. access[t] = Free
    <3>1. CASE Begin(t)
      BY <3>1, HasNeed DEF Begin, Base
    <3>2. CASE Enter(t)
      BY <3>2 DEF Enter, Grant
    <3> QED
      BY <1>4, <3>1, <3>2
  <2> QED
    BY <1>1, <2>1
<1>5. ASSUME dir' = dir, hasDb' = hasDb, Stored(c) PROVE Explained(c)'
  BY <1>5 DEF Explained, Stored
<1>6. CASE \/ List(t) \/ PutHome(t) \/ SearchHit(t) \/ LogHit(t) \/ Miss(t) \/ CheckDir(t)
           \/ CheckRow(t) \/ DropCache(t) \/ CloseOld(t) \/ PurgeHomes(t) \/ RenameHomes(t)
           \/ FlushCaches(t) \/ Zip(t)
  <2>1. /\ dir' = dir /\ hasDb' = hasDb
        /\ pc[t] \notin {"erase", "unregister", "mkdir", "open", "loaded", "register",
                         "rename_row"}
    <3>1. CASE List(t) \/ PutHome(t) \/ CheckRow(t) \/ PurgeHomes(t) \/ RenameHomes(t)
      BY <3>1 DEF List, PutHome, CheckRow, PurgeHomes, RenameHomes, InCatalog, At, disk
    <3>2. CASE SearchHit(t) \/ LogHit(t) \/ Miss(t) \/ CheckDir(t) \/ Zip(t)
      BY <3>2 DEF SearchHit, LogHit, Miss, CheckDir, Zip, At, disk, store
    <3>3. CASE DropCache(t) \/ CloseOld(t) \/ FlushCaches(t)
      BY <3>3 DEF DropCache, CloseOld, FlushCaches, At
    <3> QED
      BY <1>6, <3>1, <3>2, <3>3
  <2>2. ~Removing(t, c)
    BY <2>1 DEF Removing
  <2> QED
    BY <1>2, <1>5, <2>1, <2>2
<1>7. ASSUME NEW p \in {"open", "loaded", "register", "rename_row"}, Step(t, p),
             job[t].op = "rename", Removing(t, c)
      PROVE  Explained(c)'
  <2>1. access'[t] = access[t] /\ job'[t] = job[t] /\ pc'[t] = p
    BY <1>7, StepKeeps
  <2>2. Removing(t, c)'
    BY <1>1, <1>7, <2>1 DEF Removing
  <2> QED
    BY <2>2 DEF Explained
<1>8. ASSUME Removing(t, c), pc[t] \in {"mkdir", "open", "loaded", "register"}
      PROVE  job[t].op = "rename" /\ job[t].c = c
  BY <1>8 DEF Removing
<1>9. CASE MkDir(t) \/ Open(t)
  <2>1. /\ pc[t] \in {"mkdir", "open"}
        /\ Step(t, "open") \/ Step(t, "loaded")
    BY <1>9 DEF MkDir, Open, At
  <2>2. PICK d \in Coll : d = Target(t)
    BY <1>1, <2>1, Owns DEF Base, WriteSteps
  <2>3. CASE Removing(t, c)
    BY <1>7, <1>8, <2>1, <2>3
  <2>4. CASE Stored(c) /\ MkDir(t)
    <3>1. CASE UNCHANGED disk
      BY <1>5, <2>4, <3>1 DEF disk
    <3>2. CASE dir[d] = None /\ cache[d] = None /\ dir' = [dir EXCEPT ![d] = Fresh]
               /\ hasDb' = hasDb \ {Fresh} /\ cache' = cache
      <4>1. c # d
        BY <2>4, <3>2 DEF Stored
      <4>2. Stored(c)'
        BY <2>4, <3>2, <4>1, NewDir
      <4> QED
        BY <4>2 DEF Explained
    <3> QED
      BY <2>2, <2>4, <3>1, <3>2 DEF MkDir
  <2>5. CASE Stored(c) /\ Open(t)
    <3>1. dir' = dir /\ hasDb \subseteq hasDb'
      BY <2>5 DEF Open
    <3>2. Stored(c)'
      BY <2>5, <3>1 DEF Stored
    <3> QED
      BY <3>2 DEF Explained
  <2> QED
    BY <1>2, <1>9, <2>3, <2>4, <2>5
<1>10. CASE Loaded(t) \/ LookAgain(t) \/ Register(t)
  <2>1. /\ dir' = dir /\ hasDb' = hasDb /\ pc[t] \in {"loaded", "register"}
    BY <1>10 DEF Loaded, LookAgain, Register, InCatalog, At, disk, store
  <2>2. job[t].op = "rename" => Step(t, "register") \/ Step(t, "rename_row")
    BY <1>10 DEF Loaded, LookAgain, Register
  <2> QED
    BY <1>2, <1>5, <1>7, <1>8, <2>1, <2>2
<1>11. CASE Erase(t)
  <2>1. /\ pc[t] = "erase" /\ UNCHANGED <<access, job>>
        /\ pc' = pc \/ pc' = [pc EXCEPT ![t] = "unregister"]
    BY <1>11 DEF Erase, At, Goto
  <2>2. job[t].op = "delete" /\ job[t].c = job[t].d
    BY <2>1, OpAt DEF Base
  <2>3. c = job[t].c
    BY <1>1, <2>1, <2>2, Owns DEF Base, WriteSteps
  <2>4. pc'[t] \in {"erase", "unregister"}
    BY <2>1 DEF Base, Control
  <2>5. Removing(t, c)'
    BY <1>1, <2>1, <2>3, <2>4 DEF Removing
  <2> QED
    BY <2>5 DEF Explained
<1>12. ASSUME catOpen, guard' = guard PROVE guard' = None
  BY <1>12 DEF Base, Control, BootOK
<1>13. CASE Unregister(t)
  <2>1. /\ pc[t] = "unregister" /\ rows' = rows \ {job[t].c} /\ catOpen /\ guard' = guard
    BY <1>13 DEF Unregister, InCatalog, At, boot
  <2>2. job[t].op = "delete" /\ job[t].c = job[t].d
    BY <2>1, OpAt DEF Base
  <2>3. c = job[t].c
    BY <1>1, <2>1, <2>2, Owns DEF Base, WriteSteps
  <2> QED
    BY <1>12, <2>1, <2>3
<1>14. CASE MoveDir(t)
  <2>1. pc[t] = "move_dir" /\ Step(t, "mkdir")
    BY <1>14 DEF MoveDir, At
  <2>2. job[t].op = "rename" /\ c \in {job[t].c, job[t].d}
    BY <1>1, <2>1, OpAt, Owns DEF Base, WriteSteps
  <2>3. dir[job[t].d] = None
    BY <1>1, <2>1, <2>2 DEF Base, Stage
  <2>4. ~Removing(t, c)
    BY <2>1 DEF Removing
  <2>5. c = job[t].c
    BY <1>2, <2>2, <2>3, <2>4 DEF Stored
  <2>6. access'[t] = access[t] /\ job'[t] = job[t] /\ pc'[t] = "mkdir"
    BY <2>1, StepKeeps
  <2>7. Removing(t, c)'
    BY <1>1, <2>2, <2>5, <2>6 DEF Removing
  <2> QED
    BY <2>7 DEF Explained
<1>15. CASE RenameRow(t)
  <2>1. /\ pc[t] = "rename_row" /\ catOpen /\ guard' = guard /\ dir' = dir /\ hasDb' = hasDb
    BY <1>15 DEF RenameRow, InCatalog, At, boot, disk
  <2>2. /\ job[t].op = "rename" /\ c \in {job[t].c, job[t].d} /\ job[t].c # job[t].d
    BY <1>1, <2>1, OpAt, Owns DEF Base, WriteSteps
  <2>3. job[t].c \in rows /\ job[t].d \notin rows
    BY <1>1, <2>1, <2>2 DEF Base, Stage
  <2>4. rows' = (rows \ {job[t].c}) \cup {job[t].d}
    BY <1>15, <2>3 DEF RenameRow
  <2>5. CASE c = job[t].c
    BY <1>12, <2>1, <2>2, <2>4, <2>5
  <2>6. CASE c = job[t].d
    <3>1. ~Removing(t, c)
      BY <2>2, <2>6 DEF Removing
    <3> QED
      BY <1>2, <1>5, <2>1, <3>1
  <2> QED
    BY <2>2, <2>5, <2>6
<1> QED
  BY <1>4, <1>6, <1>9, <1>10, <1>11, <1>13, <1>14, <1>15 DEF Orderly

\* A new row is explained.
LEMMA NewRowExplained ==
  ASSUME Base, NEW t \in Thread, Orderly(t), NEW c \in rows' \ rows
  PROVE  c \in Coll /\ Explained(c)'
<1>1. Register(t) \/ RenameRow(t)
  <2>1. CASE \/ Begin(t) \/ SearchHit(t) \/ Zip(t) \/ MkDir(t) \/ Open(t) \/ DropCache(t)
             \/ Erase(t) \/ CloseOld(t) \/ MoveDir(t) \/ LogHit(t) \/ LookAgain(t)
             \/ FlushCaches(t)
    BY <2>1 DEF Begin, SearchHit, Zip, MkDir, Open, DropCache, Erase, CloseOld, MoveDir, LogHit,
                LookAgain, FlushCaches, catalog
  <2>2. CASE Enter(t) \/ Loaded(t) \/ CheckDir(t) \/ Miss(t)
    BY <2>2 DEF Enter, Loaded, CheckDir, Miss, store, catalog
  <2>3. CASE \/ List(t) \/ Unregister(t) \/ PurgeHomes(t) \/ CheckRow(t) \/ RenameHomes(t)
             \/ PutHome(t)
    BY <2>3 DEF List, Unregister, PurgeHomes, CheckRow, RenameHomes, PutHome, catalog
  <2> QED
    BY <2>1, <2>2, <2>3 DEF Orderly
<1>2. /\ access[t] # Free /\ dir' = dir /\ hasDb' = hasDb /\ pc[t] \in {"register", "rename_row"}
  BY <1>1 DEF Register, RenameRow, InCatalog, At, disk
<1>3. /\ cache[Target(t)] # None /\ Target(t) \in Coll
      /\ job[t].c \in Coll /\ job[t].d \in Coll
  BY <1>2, Owns DEF Base, Stage, WriteSteps
<1>4. Stored(Target(t))
  <2>1. PICK d \in Coll : d = Target(t)
    BY <1>3
  <2>2. Stored(d)
    BY <1>3, <2>1, Typed, StoreAssumption DEF Base, Disk, HandlesLive, Stored
  <2> QED
    BY <2>1, <2>2 DEF Stored
<1>5. CASE Register(t)
  <2>1. c = job[t].c /\ pc[t] = "register"
    BY <1>5 DEF Register, InCatalog, At
  <2>2. CASE job[t].op = "rename"
    <3>1. Step(t, "rename_row")
      BY <1>5, <2>2 DEF Register
    <3>2. access'[t] = access[t] /\ job'[t] = job[t] /\ pc'[t] = "rename_row"
      BY <3>1, StepKeeps
    <3>3. Removing(t, c)'
      BY <1>2, <2>1, <2>2, <3>2 DEF Removing
    <3> QED
      BY <1>3, <2>1, <3>3 DEF Explained
  <2>3. CASE job[t].op # "rename"
    <3>1. Stored(c)
      BY <1>4, <2>1, <2>3 DEF Target, Stored
    <3>2. Stored(c)'
      BY <1>2, <3>1 DEF Stored
    <3> QED
      BY <1>3, <2>1, <3>2 DEF Explained
  <2> QED
    BY <2>2, <2>3
<1>6. CASE RenameRow(t)
  <2>1. c = job[t].d /\ job[t].op = "rename"
    BY <1>2, <1>6, OpAt DEF RenameRow, InCatalog, At, Base
  <2>2. Stored(c)
    BY <1>4, <2>1 DEF Target, Stored
  <2>3. Stored(c)'
    BY <1>2, <2>2 DEF Stored
  <2> QED
    BY <1>3, <2>1, <2>3 DEF Explained
<1> QED
  BY <1>1, <1>5, <1>6

\* The history, the guard and the scan, as far as trust in the catalog goes.
LEMMA TrustedStep ==
  ASSUME Base, NEW t \in Thread, Serve(t)
  PROVE  /\ Trusted' => Orderly(t) /\ Trusted
         /\ guard' # None /\ Unfailed' =>
              \/ scan' = [todo |-> Coll, found |-> {}]
              \/ Orderly(t) /\ guard # None /\ Unfailed /\ scan' = scan
<1>1. CASE OpenCatalog(t)
  <2>1. guard' = t /\ catOpen' = catOpen /\ ~catOpen /\ scan' = [todo |-> Coll, found |-> {}]
    BY <1>1 DEF OpenCatalog, Scanning
  <2>2. t # None
    BY StoreAssumption
  <2> QED
    BY <2>1, <2>2 DEF Trusted
<1>2. CASE CatalogFails(t)
  <2>1. "catalog" \in Faults /\ ("doubt" \in Watch => "doubt" \in past')
    BY <1>2 DEF CatalogFails, Happened
  <2> QED
    BY <2>1 DEF Trusted, Unfailed, Doubtless
<1>3. CASE Wipe(t) \/ Place(t)
  <2>1. pc[t] \in {"wipe", "place"} /\ access[t] # Free /\ UNCHANGED <<guard, catOpen>>
    BY <1>3 DEF Wipe, Place, At, boot
  <2>2. guard = None /\ ~catOpen
    BY <2>1 DEF Base, Stage
  <2>3. ~Trusted'
    <3>1. CASE pc' = pc \/ Goto(t, "place")
      <4>1. pc'[t] \in {"wipe", "place"}
        BY <2>1, <3>1 DEF Goto, Base, Control
      <4>2. Restoring'
        BY <4>1 DEF Restoring
      <4> QED
        BY <2>1, <2>2, <4>2 DEF Trusted
    <3>2. CASE Happened("doubt")
      <4>1. "doubt" \in Watch => "doubt" \in past'
        BY <3>2 DEF Happened
      <4> QED
        BY <2>1, <2>2, <4>1 DEF Trusted, Doubtless
    <3> QED
      BY <1>3, <3>1, <3>2 DEF Wipe, Place
  <2> QED
    BY <2>1, <2>2, <2>3
<1>4. CASE Orderly(t)
  <2>1. "doubt" \in past' <=> "doubt" \in past
    BY <1>4, OrderlyKeeps
  <2>2. Unfailed' = Unfailed /\ Doubtless' = Doubtless
    BY <2>1 DEF Unfailed, Doubtless
  <2>3. guard' = guard /\ up' = up /\ scan' = scan /\ pc[t] \notin {"wipe", "place"}
        /\ (~(catOpen' <=> catOpen) => FlushCaches(t))
    BY <1>4, OrderlyKeeps
  <2>4. ASSUME Trusted' PROVE Trusted
    <3>1. CASE catOpen' <=> catOpen
      <4>1. ~Restoring' => ~Restoring
        <5>1. \A u \in Thread \ {t} : pc'[u] = pc[u]
          BY ServeSound DEF Sound, Local
        <5> QED
          BY <2>3, <5>1 DEF Restoring
      <4> QED
        BY <2>2, <2>3, <2>4, <3>1, <4>1 DEF Trusted
    <3>2. CASE ~(catOpen' <=> catOpen)
      <4>1. FlushCaches(t)
        BY <2>3, <3>2
      <4>2. pc[t] = "flush" /\ access[t] # Free /\ ~catOpen'
        BY <4>1 DEF FlushCaches, At
      <4>3. \A u \in Thread \ {t} : access[u] = Free
        BY <4>2, OwnsAll DEF Base
      <4>4. \A u \in Thread \ {t} : pc[u] \notin {"wipe", "place"}
        BY <4>3, OwnTypes DEF Base, Fits, Waiting
      <4>5. ~Restoring
        BY <4>2, <4>4 DEF Restoring
      <4> QED
        BY <2>2, <2>3, <2>4, <4>2, <4>5 DEF Trusted
    <3> QED
      BY <3>1, <3>2
  <2> QED
    BY <1>4, <2>2, <2>3, <2>4
<1> QED
  BY <1>1, <1>2, <1>3, <1>4 DEF Serve, Orderly

\* Rows, and what a bootstrap has found, stay explained.
LEMMA AgreeNext ==
  ASSUME Base, Agree, [Next]_vars PROVE Agree'
<1>1. BootOK /\ rows \subseteq Coll
  BY Typed DEF Base, Control
<1>2. CASE \E t \in Thread : Serve(t)
  <2>1. PICK t \in Thread : Serve(t)
    BY <1>2
  <2>2. Local(t)
    BY <2>1, ServeSound DEF Sound
  <2>3. ASSUME NEW c \in Coll, Orderly(t), Explained(c)
        PROVE  Explained(c)' \/ (c \notin rows' /\ guard' = None)
    <3>1. CASE t \in WritersOf(c)
      BY <2>3, <3>1, OwnExplained
    <3>2. CASE t \notin WritersOf(c)
      BY <2>2, <2>3, <3>2, OthersAgree
    <3> QED
      BY <3>1, <3>2
  <2>4. ASSUME Trusted', NEW c \in rows' PROVE Explained(c)'
    <3>1. Orderly(t) /\ Trusted
      BY <2>1, <2>4, TrustedStep
    <3>2. CASE c \in rows
      <4>1. c \in Coll /\ Explained(c)
        BY <1>1, <3>1, <3>2 DEF Agree
      <4> QED
        BY <2>3, <2>4, <3>1, <4>1
    <3>3. CASE c \notin rows
      BY <2>4, <3>1, <3>3, NewRowExplained
    <3> QED
      BY <3>2, <3>3
  <2>5. ASSUME guard' # None, Unfailed', NEW c \in scan'.found PROVE Explained(c)'
    <3>1. CASE scan' = [todo |-> Coll, found |-> {}]
      BY <2>5, <3>1
    <3>2. CASE Orderly(t) /\ guard # None /\ Unfailed /\ scan' = scan
      <4>1. c \in Coll /\ Explained(c)
        BY <1>1, <2>5, <3>2 DEF Agree, BootOK
      <4> QED
        BY <2>3, <2>5, <3>2, <4>1
    <3> QED
      BY <2>1, <2>5, <3>1, <3>2, TrustedStep
  <2> QED
    BY <2>4, <2>5 DEF Agree
<1>3. ASSUME UNCHANGED <<access, pc, job, dir, hasDb>>, NEW c, Explained(c) PROVE Explained(c)'
  BY <1>3 DEF Explained, Removing, Stored
<1>4. CASE Boot
  <2>1. guard' # None /\ ~catOpen' /\ scan'.found = {}
    BY <1>1, <1>4, StoreAssumption DEF Boot, Scanning, BootOK
  <2> QED
    BY <2>1 DEF Agree, Trusted
<1>5. CASE ScanDir
  <2>1. /\ UNCHANGED <<access, pc, job, dir, hasDb, guard, catOpen, past>> /\ guard # None
        /\ \E c \in scan.todo :
             scan' = [todo |-> scan.todo \ {c},
                      found |-> IF Stored(c) THEN scan.found \cup {c} ELSE scan.found]
    BY <1>5 DEF ScanDir, disk
  <2>2. ~Trusted'
    BY <1>1, <2>1 DEF BootOK, Trusted
  <2>3. ASSUME Unfailed', NEW c \in scan'.found PROVE Explained(c)'
    <3>1. Unfailed
      BY <2>1, <2>3 DEF Unfailed, Doubtless
    <3>2. c \in scan.found \/ Stored(c)
      BY <2>1, <2>3
    <3>3. Explained(c)
      BY <2>1, <3>1, <3>2 DEF Agree, Explained
    <3> QED
      BY <1>3, <2>1, <3>3
  <2> QED
    BY <2>2, <2>3 DEF Agree
<1>6. CASE Reconcile
  <2>1. /\ UNCHANGED <<access, pc, job, dir, hasDb, past>> /\ guard # None /\ guard' = None
        /\ rows' = (rows \cup (scan.found \ rows)) \ (rows \ scan.found)
    BY <1>6 DEF Reconcile, disk
  <2>2. ASSUME Trusted', NEW c \in rows' PROVE Explained(c)'
    <3>1. Unfailed /\ c \in scan.found
      BY <2>1, <2>2 DEF Trusted, Unfailed, Doubtless
    <3>2. Explained(c)
      BY <2>1, <3>1 DEF Agree
    <3> QED
      BY <1>3, <2>1, <3>2
  <2> QED
    BY <2>1, <2>2 DEF Agree
<1>7. CASE Crash
  <2>1. guard' = None /\ ~catOpen' /\ ~up'
    BY <1>7 DEF Crash
  <2> QED
    BY <2>1 DEF Agree, Trusted
<1>8. CASE UNCHANGED vars
  BY <1>8 DEF vars, store, disk, catalog, boot, Agree, Trusted, Unfailed, Doubtless, Restoring,
              Explained, Removing, Stored
<1> QED
  BY <1>2, <1>4, <1>5, <1>6, <1>7, <1>8 DEF Next

\* As long as no catalog statement fails for good, a collection the catalog lists
\* has its directory and its meta.db, unless it is being changed: neither the
\* bootstrap that reopens the catalog among creates, deletes and renames, nor a
\* crash between the disk and the catalog, leaves a listed collection without.
THEOREM ListedIsOnDisk ==
  ASSUME "catalog" \notin Faults
  PROVE  Spec => []RegisteredIsOnDisk
<1>1. Init => Agree
  BY DEF Init, Agree
<1>2. Base /\ Agree /\ [Next]_vars => Agree'
  BY AgreeNext
<1>3. ASSUME Base, Agree PROVE RegisteredIsOnDisk
  <2> SUFFICES ASSUME NEW c \in rows, catOpen, WritersOf(c) = {} PROVE Stored(c)
    BY DEF RegisteredIsOnDisk
  <2>1. Trusted
    BY DEF Trusted, Unfailed
  <2>2. c \in Coll /\ Explained(c)
    BY <1>3, <2>1, Typed DEF Agree
  <2>3. \A t \in Thread : ~Removing(t, c)
    BY <1>3, <2>2, ChangersOwn DEF Base
  <2> QED
    BY <2>2, <2>3 DEF Explained
<1> QED
  BY <1>1, <1>2, <1>3, BaseAlways, PTL DEF Spec

-----------------------------------------------------------------------------
(* Nothing on disk is missing from the catalog.                            *)

\* Every collection on disk has its row or will get it, and so has every one a
\* bootstrap has come past.
AllListed ==
  /\ Trusted => \A c \in Coll : Stored(c) => c \in rows \/ \E t \in Thread : Adding(t, c)
  /\ guard # None /\ Unfailed =>
       \A c \in Coll \ scan.todo :
         Stored(c) => c \in scan.found \/ \E t \in Thread : Adding(t, c)

\* ArchiveConsistent, as it is kept.
ArchiveOK == archive # None /\ archive.sure => archive.rows = archive.dbs

\* No request of an instance without ingest, purge and search leaves a
\* collection on disk that it does not register.
LEMMA OwnListed ==
  ASSUME Base, Ops \cap {"ingest", "purge", "search"} = {},
         NEW t \in Thread, Orderly(t), NEW c \in Coll, t \in WritersOf(c),
         \E u \in Thread : Adding(u, c)
  PROVE  (\E u \in Thread : Adding(u, c)') \/ (c \in rows' /\ guard' = None)
<1>1. Adding(t, c) /\ access[t] # Free
  <2>1. ASSUME NEW u \in Thread, Adding(u, c) PROVE u = t
    BY <2>1, ChangersOwn, OwnerAlone DEF Base
  <2> QED
    BY <2>1 DEF Adding
<1>2. /\ Target(t) = c
      /\ \/ pc[t] \in {"loaded", "register"}
         \/ job[t].op = "rename" /\ pc[t] \in {"mkdir", "open", "rename_row"}
  BY <1>1 DEF Adding
<1>3. job[t].op \in {"create", "rename"}
  <2>1. /\ job[t].op \in {"create", "ingest", "purge", "rename", "search", "log"}
        /\ job[t].op \in Ops \cup {"none", "log"} /\ (job[t].op = "log" => "search" \in Ops)
    BY <1>2, OpAt, OwnTypes DEF Base, Fits
  <2> QED
    BY <2>1
<1>4. ASSUME NEW p \in {"open", "loaded", "register", "rename_row"}, Step(t, p),
             p \in {"loaded", "register"} \/ job[t].op = "rename"
      PROVE  \E u \in Thread : Adding(u, c)'
  <2>1. access'[t] = access[t] /\ job'[t] = job[t] /\ pc'[t] = p /\ Target(t)' = Target(t)
    BY <1>4, StepKeeps
  <2>2. Adding(t, c)'
    BY <1>1, <1>2, <1>4, <2>1 DEF Adding
  <2> QED
    BY <2>2
<1>5. ASSUME catOpen, guard' = guard PROVE guard' = None
  BY <1>5 DEF Base, Control, BootOK
<1>6. CASE MkDir(t) \/ Open(t)
  <2>1. /\ pc[t] \in {"mkdir", "open"}
        /\ Step(t, "open") \/ Step(t, "loaded")
    BY <1>6 DEF MkDir, Open, At
  <2>2. job[t].op = "rename"
    BY <1>2, <2>1
  <2> QED
    BY <1>4, <2>1, <2>2
<1>7. CASE Loaded(t)
  <2>1. Step(t, "register")
    BY <1>3, <1>7 DEF Loaded
  <2> QED
    BY <1>4, <2>1
<1>8. CASE Register(t)
  <2>1. rows' = rows \cup {job[t].c} /\ catOpen /\ guard' = guard
    BY <1>8 DEF Register, InCatalog, boot
  <2>2. CASE job[t].op = "rename"
    <3>1. Step(t, "rename_row")
      BY <1>8, <2>2 DEF Register
    <3> QED
      BY <1>4, <2>2, <3>1
  <2>3. CASE job[t].op # "rename"
    <3>1. c = job[t].c
      BY <1>2, <2>3 DEF Target
    <3> QED
      BY <1>5, <2>1, <3>1
  <2> QED
    BY <2>2, <2>3
<1>9. CASE RenameRow(t)
  <2>1. /\ pc[t] = "rename_row" /\ catOpen /\ guard' = guard
    BY <1>9 DEF RenameRow, InCatalog, At, boot
  <2>2. job[t].op = "rename" /\ c = job[t].d
    BY <1>2, <2>1, OpAt DEF Base, Target
  <2>3. job[t].c \in rows /\ job[t].d \notin rows
    BY <1>1, <2>1, <2>2 DEF Base, Stage
  <2>4. c \in rows'
    BY <1>9, <2>2, <2>3 DEF RenameRow
  <2> QED
    BY <1>5, <2>1, <2>4
<1>10. ~(\/ Begin(t) \/ Enter(t))
  <2>1. Begin(t) => pc[t] = "idle"
    BY DEF Begin
  <2>2. Enter(t) => access[t] = Free
    BY DEF Enter, Grant
  <2> QED
    BY <1>1, <1>2, <2>1, <2>2
<1>11. ~(\/ List(t) \/ DropCache(t) \/ Erase(t) \/ Unregister(t) \/ PurgeHomes(t) \/ CheckDir(t)
         \/ CheckRow(t) \/ CloseOld(t) \/ MoveDir(t) \/ RenameHomes(t) \/ SearchHit(t)
         \/ LogHit(t) \/ Miss(t) \/ PutHome(t) \/ FlushCaches(t) \/ Zip(t))
  <2>1. /\ List(t) \/ CheckRow(t) \/ Unregister(t) \/ PurgeHomes(t) \/ RenameHomes(t)
             \/ PutHome(t)
           => pc[t] \in {"list", "check_row", "unregister", "purge_homes", "rename_homes",
                         "put_home"}
    BY DEF List, CheckRow, Unregister, PurgeHomes, RenameHomes, PutHome, InCatalog, At
  <2>2. /\ DropCache(t) \/ Erase(t) \/ CheckDir(t) \/ CloseOld(t) \/ MoveDir(t) \/ FlushCaches(t)
             \/ Zip(t)
           => pc[t] \in {"drop_cache", "erase", "check_dir", "close_old", "move_dir", "flush",
                         "zip"}
    BY DEF DropCache, Erase, CheckDir, CloseOld, MoveDir, FlushCaches, Zip, At
  <2>3. SearchHit(t) \/ LogHit(t) \/ Miss(t) => pc[t] = "look"
    BY DEF SearchHit, LogHit, Miss, At
  <2> QED
    BY <1>2, <2>1, <2>2, <2>3
<1>12. ~LookAgain(t)
  BY <1>3 DEF LookAgain
<1> QED
  BY <1>6, <1>7, <1>8, <1>9, <1>10, <1>11, <1>12 DEF Orderly

\* Who puts a collection on disk is about to register it.
LEMMA NewDirListed ==
  ASSUME Base, NEW t \in Thread, Orderly(t), NEW c \in Coll, ~Stored(c), Stored(c)'
  PROVE  \E u \in Thread : Adding(u, c)'
<1>1. /\ dir \in [Coll -> Inode \cup {None}] /\ hasDb \subseteq Inode
      /\ cache \in [Coll -> Inode \cup {None}]
  BY Typed
<1>2. t \in WritersOf(c)
  BY ServeSound DEF Sound, Local, Untouched, Serve, Orderly
<1>3. access[t] # Free
  BY <1>2 DEF WritersOf, Free
<1>4. CASE \/ Begin(t) \/ Enter(t) \/ List(t) \/ Loaded(t) \/ Register(t) \/ DropCache(t)
           \/ Unregister(t) \/ PurgeHomes(t) \/ CheckDir(t) \/ CheckRow(t) \/ CloseOld(t)
           \/ RenameRow(t) \/ RenameHomes(t) \/ SearchHit(t) \/ LogHit(t) \/ Miss(t)
           \/ LookAgain(t) \/ PutHome(t) \/ FlushCaches(t) \/ Zip(t)
  <2>1. dir' = dir /\ hasDb' = hasDb
    <3>1. CASE Begin(t) \/ SearchHit(t) \/ Zip(t) \/ Enter(t) \/ Loaded(t) \/ CheckDir(t) \/ Miss(t)
      BY <3>1 DEF Begin, SearchHit, Zip, Enter, Loaded, CheckDir, Miss, store, disk
    <3>2. CASE \/ List(t) \/ Register(t) \/ Unregister(t) \/ PurgeHomes(t) \/ CheckRow(t)
               \/ RenameRow(t) \/ RenameHomes(t) \/ PutHome(t)
      BY <3>2 DEF List, Register, Unregister, PurgeHomes, CheckRow, RenameRow, RenameHomes,
                  PutHome, InCatalog, disk
    <3>3. CASE DropCache(t) \/ CloseOld(t) \/ LogHit(t) \/ LookAgain(t) \/ FlushCaches(t)
      BY <3>3 DEF DropCache, CloseOld, LogHit, LookAgain, FlushCaches
    <3> QED
      BY <1>4, <3>1, <3>2, <3>3
  <2> QED
    BY <2>1 DEF Stored
<1>5. CASE MkDir(t)
  <2>1. PICK d \in Coll : d = Target(t)
    BY <1>5, Owns DEF MkDir, At, Base, WriteSteps
  <2>2. CASE UNCHANGED disk
    BY <2>2 DEF disk, Stored
  <2>3. CASE dir' = [dir EXCEPT ![d] = Fresh] /\ hasDb' = hasDb \ {Fresh}
    BY <1>1, <2>3 DEF Stored
  <2> QED
    BY <1>5, <2>1, <2>2, <2>3 DEF MkDir
<1>6. CASE Erase(t)
  <2>1. PICK d \in Coll : d = job[t].c
    BY <1>6, OpAt DEF Erase, At, Base
  <2>2. CASE UNCHANGED disk
    BY <2>2 DEF disk, Stored
  <2>3. CASE EraseFrom(d)
    <3>1. hasDb' \subseteq hasDb /\ (dir' = dir \/ dir' = [dir EXCEPT ![d] = None])
      BY <2>3 DEF EraseFrom
    <3> QED
      BY <1>1, <3>1 DEF Stored
  <2> QED
    BY <1>6, <2>1, <2>2, <2>3 DEF Erase
<1>7. CASE Open(t)
  <2>1. pc[t] = "open" /\ Step(t, "loaded") /\ dir' = dir /\ hasDb' = hasDb \cup {dir[Target(t)]}
    BY <1>7 DEF Open, At
  <2>2. PICK d \in Coll : d = Target(t)
    BY <1>3, <2>1, Owns DEF Base, WriteSteps
  <2>3. dir[c] = dir[d] /\ dir[c] # None
    BY <2>1, <2>2 DEF Stored
  <2>4. c = d
    BY <2>3 DEF Base, Disk, DirsDiffer
  <2>5. access'[t] = access[t] /\ pc'[t] = "loaded" /\ Target(t)' = Target(t)
    BY <2>1, StepKeeps
  <2>6. Adding(t, c)'
    BY <1>3, <2>2, <2>4, <2>5 DEF Adding
  <2> QED
    BY <2>6
<1>8. CASE MoveDir(t)
  <2>1. pc[t] = "move_dir" /\ Step(t, "mkdir") /\ hasDb' = hasDb
        /\ dir' = [dir EXCEPT ![job[t].d] = dir[job[t].c], ![job[t].c] = None]
    BY <1>8 DEF MoveDir, At
  <2>2. job[t].op = "rename"
    BY <2>1, OpAt DEF Base
  <2>3. c = job[t].d
    BY <1>1, <2>1 DEF Stored
  <2>4. access'[t] = access[t] /\ pc'[t] = "mkdir" /\ job'[t] = job[t]
    BY <2>1, StepKeeps
  <2>5. Adding(t, c)'
    BY <1>3, <2>2, <2>3, <2>4 DEF Adding, Target
  <2> QED
    BY <2>5
<1> QED
  BY <1>4, <1>5, <1>6, <1>7, <1>8 DEF Orderly

\* Only a collection without a directory loses its row.
LEMMA RowGone ==
  ASSUME Base, NEW t \in Thread, Orderly(t), NEW c \in rows \ rows'
  PROVE  ~Stored(c)'
<1>1. Unregister(t) \/ RenameRow(t)
  <2>1. CASE \/ Begin(t) \/ SearchHit(t) \/ Zip(t) \/ MkDir(t) \/ Open(t) \/ DropCache(t)
             \/ Erase(t) \/ CloseOld(t) \/ MoveDir(t) \/ LogHit(t) \/ LookAgain(t)
             \/ FlushCaches(t)
    BY <2>1 DEF Begin, SearchHit, Zip, MkDir, Open, DropCache, Erase, CloseOld, MoveDir, LogHit,
                LookAgain, FlushCaches, catalog
  <2>2. CASE Enter(t) \/ Loaded(t) \/ CheckDir(t) \/ Miss(t)
    BY <2>2 DEF Enter, Loaded, CheckDir, Miss, store, catalog
  <2>3. CASE \/ List(t) \/ Register(t) \/ PurgeHomes(t) \/ CheckRow(t) \/ RenameHomes(t)
             \/ PutHome(t)
    BY <2>3 DEF List, Register, PurgeHomes, CheckRow, RenameHomes, PutHome, catalog
  <2> QED
    BY <2>1, <2>2, <2>3 DEF Orderly
<1>2. /\ access[t] # Free /\ dir' = dir /\ pc[t] \in {"unregister", "rename_row"}
  BY <1>1 DEF Unregister, RenameRow, InCatalog, At, disk
<1>3. c = job[t].c
  BY <1>1 DEF Unregister, RenameRow
<1>4. pc[t] = "rename_row" => job[t].op = "rename"
  BY OpAt DEF Base
<1>5. dir[c] = None
  BY <1>2, <1>3, <1>4 DEF Base, Stage
<1> QED
  BY <1>2, <1>5 DEF Stored

\* What is on disk stays listed, and what a bootstrap has scanned stays found.
LEMMA AllListedNext ==
  ASSUME Base, AllListed, Ops \cap {"ingest", "purge", "search"} = {}, [Next]_vars
  PROVE  AllListed'
<1>1. BootOK
  BY DEF Base, Control
<1>2. CASE \E t \in Thread : Serve(t)
  <2>1. PICK t \in Thread : Serve(t)
    BY <1>2
  <2>2. Local(t)
    BY <2>1, ServeSound DEF Sound
  <2>3. ASSUME Orderly(t), NEW c \in Coll, \E u \in Thread : Adding(u, c)
        PROVE  (\E u \in Thread : Adding(u, c)') \/ (c \in rows' /\ guard' = None)
    <3>1. CASE t \in WritersOf(c)
      BY <2>3, <3>1, OwnListed
    <3>2. CASE t \notin WritersOf(c)
      BY <2>2, <2>3, <3>2, OthersAgree
    <3> QED
      BY <3>1, <3>2
  <2>4. ASSUME Trusted', NEW c \in Coll, Stored(c)'
        PROVE  c \in rows' \/ \E u \in Thread : Adding(u, c)'
    <3>1. Orderly(t) /\ Trusted
      BY <2>1, <2>4, TrustedStep
    <3>2. CASE ~Stored(c)
      BY <2>4, <3>1, <3>2, NewDirListed
    <3>3. CASE Stored(c) /\ c \in rows
      BY <2>4, <3>1, <3>3, RowGone
    <3>4. CASE Stored(c) /\ c \notin rows
      <4>1. \E u \in Thread : Adding(u, c)
        BY <3>1, <3>4 DEF AllListed
      <4> QED
        BY <2>3, <3>1, <4>1
    <3> QED
      BY <3>2, <3>3, <3>4
  <2>5. ASSUME guard' # None, Unfailed', NEW c \in Coll \ scan'.todo, Stored(c)'
        PROVE  c \in scan'.found \/ \E u \in Thread : Adding(u, c)'
    <3>1. CASE scan' = [todo |-> Coll, found |-> {}]
      BY <2>5, <3>1
    <3>2. CASE Orderly(t) /\ guard # None /\ Unfailed /\ scan' = scan
      <4>1. CASE ~Stored(c)
        BY <2>5, <3>2, <4>1, NewDirListed
      <4>2. CASE Stored(c) /\ c \notin scan.found
        <5>1. \E u \in Thread : Adding(u, c)
          BY <2>5, <3>2, <4>2 DEF AllListed
        <5> QED
          BY <2>3, <2>5, <3>2, <5>1
      <4> QED
        BY <3>2, <4>1, <4>2
    <3> QED
      BY <2>1, <2>5, <3>1, <3>2, TrustedStep
  <2> QED
    BY <2>4, <2>5 DEF AllListed
<1>3. ASSUME UNCHANGED <<access, pc, job>>, NEW c, \E u \in Thread : Adding(u, c)
      PROVE  \E u \in Thread : Adding(u, c)'
  BY <1>3 DEF Adding, Target
<1>4. CASE Boot
  <2>1. guard' # None /\ ~catOpen' /\ scan'.todo = Coll
    BY <1>1, <1>4, StoreAssumption DEF Boot, Scanning, BootOK
  <2> QED
    BY <2>1 DEF AllListed, Trusted
<1>5. CASE ScanDir
  <2>1. /\ UNCHANGED <<access, pc, job, dir, hasDb, guard, catOpen, past>> /\ guard # None
        /\ \E c \in scan.todo :
             scan' = [todo |-> scan.todo \ {c},
                      found |-> IF Stored(c) THEN scan.found \cup {c} ELSE scan.found]
    BY <1>5 DEF ScanDir, disk
  <2>2. ~Trusted'
    BY <1>1, <2>1 DEF BootOK, Trusted
  <2>3. ASSUME Unfailed', NEW c \in Coll \ scan'.todo, Stored(c)'
        PROVE  c \in scan'.found \/ \E u \in Thread : Adding(u, c)'
    <3>1. Unfailed /\ Stored(c)
      BY <2>1, <2>3 DEF Unfailed, Doubtless, Stored
    <3>2. c \notin scan.todo \/ c \in scan'.found
      BY <2>1, <2>3, <3>1
    <3>3. scan.found \subseteq scan'.found
      BY <2>1
    <3>4. c \in scan'.found \/ \E u \in Thread : Adding(u, c)
      BY <2>1, <3>1, <3>2, <3>3 DEF AllListed
    <3> QED
      BY <1>3, <2>1, <3>4
  <2> QED
    BY <2>2, <2>3 DEF AllListed
<1>6. CASE Reconcile
  <2>1. /\ UNCHANGED <<access, pc, job, dir, hasDb, past>> /\ guard # None /\ guard' = None
        /\ rows' = (rows \cup (scan.found \ rows)) \ (rows \ scan.found) /\ scan.todo = {}
    BY <1>6 DEF Reconcile, disk
  <2>2. ASSUME Trusted', NEW c \in Coll, Stored(c)'
        PROVE  c \in rows' \/ \E u \in Thread : Adding(u, c)'
    <3>1. Unfailed /\ Stored(c)
      BY <2>1, <2>2 DEF Trusted, Unfailed, Doubtless, Stored
    <3>2. c \in scan.found \/ \E u \in Thread : Adding(u, c)
      BY <2>1, <3>1 DEF AllListed
    <3> QED
      BY <1>3, <2>1, <3>2
  <2> QED
    BY <2>1, <2>2 DEF AllListed
<1>7. CASE Crash
  <2>1. guard' = None /\ ~catOpen' /\ ~up'
    BY <1>7 DEF Crash
  <2> QED
    BY <2>1 DEF AllListed, Trusted
<1>8. CASE UNCHANGED vars
  BY <1>8 DEF vars, store, disk, catalog, boot, AllListed, Trusted, Unfailed, Doubtless, Restoring,
              Adding, Target, Stored
<1> QED
  BY <1>2, <1>4, <1>5, <1>6, <1>7, <1>8 DEF Next

\* What is on disk is listed, in every state.
LEMMA AllListedAlways ==
  ASSUME Ops \cap {"ingest", "purge", "search"} = {}
  PROVE  Spec => []AllListed
<1>1. Init => AllListed
  BY DEF Init, AllListed, Stored
<1>2. Base /\ AllListed /\ [Next]_vars => AllListed'
  BY AllListedNext
<1> QED
  BY <1>1, <1>2, BaseAlways, PTL DEF Spec

\* Reopening the catalog heals what failed statements, crashes and restores left
\* behind: from then on it lists every collection on disk that is not being
\* changed, although other requests go on meanwhile. (The requests that make a
\* directory and end without registering it, ingests and searches among them, are
\* left out; the history has to remember the statements that failed.)
THEOREM DiskIsListed ==
  ASSUME Ops \cap {"ingest", "purge", "search"} = {}, "doubt" \in Watch
  PROVE  Spec => []OnDiskIsRegistered
<1>1. ASSUME Base, AllListed PROVE OnDiskIsRegistered
  <2> SUFFICES ASSUME "doubt" \notin past, NEW c \in Coll, catOpen, WritersOf(c) = {}, Stored(c)
               PROVE  c \in rows
    BY DEF OnDiskIsRegistered
  <2>1. Trusted
    BY DEF Trusted, Unfailed, Doubtless
  <2>2. \A t \in Thread : ~Adding(t, c)
    BY <1>1, ChangersOwn DEF Base
  <2> QED
    BY <1>1, <2>1, <2>2 DEF AllListed
<1> QED
  BY <1>1, BaseAlways, AllListedAlways, PTL

\* An archive of which no doubt is noted agrees with itself: it lists exactly the
\* collections whose meta.db it holds, although the dump ran among creates,
\* deletes, renames, crashes and failing statements.
THEOREM ArchivesAgree ==
  ASSUME Ops \cap {"ingest", "purge", "search"} = {}, "doubt" \in Watch
  PROVE  Spec => []ArchiveConsistent
<1>1. Init => Agree /\ ArchiveOK
  BY DEF Init, Agree, ArchiveOK
<1>2. ASSUME Base, Agree, AllListed, ArchiveOK, [Next]_vars PROVE ArchiveOK'
  <2>1. CASE UNCHANGED archive
    BY <1>2, <2>1 DEF ArchiveOK
  <2>2. ASSUME NEW t \in Thread, Zip(t) PROVE ArchiveOK'
    <3>1. /\ pc[t] = "zip" /\ access[t] # Free
          /\ archive' = IF "restore" \notin Ops THEN None
                        ELSE [dirs |-> {c \in Coll : dir[c] # None},
                              dbs |-> {c \in Coll : Stored(c)},
                              logs |-> [c \in Coll |-> LogOf(c) \ WalOf(c)],
                              rows |-> rows, home |-> home, sure |-> "doubt" \notin past]
      BY <2>2 DEF Zip, At
    <3>2. CASE "restore" \notin Ops
      BY <3>1, <3>2 DEF ArchiveOK
    <3>3. CASE "restore" \in Ops
      <4>1. archive'.sure = ("doubt" \notin past) /\ archive'.rows = rows
            /\ archive'.dbs = {c \in Coll : Stored(c)}
        BY <3>1, <3>3
      <4>2. ASSUME "doubt" \notin past PROVE rows = {c \in Coll : Stored(c)}
        <5>1. guard = None /\ up /\ \A u \in Thread \ {t} : access[u] = Free
          BY <1>2, <3>1, OwnsAll, HasNeed DEF Base
        <5>2. ~Restoring
          BY <1>2, <3>1, <5>1, OwnTypes DEF Restoring, Base, Fits, Waiting
        <5>3. Trusted
          BY <4>2, <5>1, <5>2 DEF Trusted, Unfailed, Doubtless
        <5>4. ASSUME NEW c \in Coll, NEW u \in Thread PROVE ~Removing(u, c) /\ ~Adding(u, c)
          BY <3>1, <5>1 DEF Removing, Adding
        <5> QED
          BY <1>2, <5>3, <5>4, Typed DEF Agree, AllListed, Explained
      <4> QED
        BY <4>1, <4>2 DEF ArchiveOK
    <3> QED
      BY <3>2, <3>3
  <2>3. ASSUME NEW t \in Thread, Serve(t), ~Zip(t) PROVE UNCHANGED archive
    <3>1. CASE \/ Begin(t) \/ SearchHit(t) \/ MkDir(t) \/ Open(t) \/ DropCache(t) \/ OpenCatalog(t)
               \/ Erase(t) \/ CloseOld(t) \/ MoveDir(t) \/ LogHit(t) \/ LookAgain(t)
               \/ FlushCaches(t) \/ Wipe(t) \/ Place(t) \/ CatalogFails(t)
      BY <3>1 DEF Begin, SearchHit, MkDir, Open, DropCache, OpenCatalog, Erase, CloseOld, MoveDir,
                  LogHit, LookAgain, FlushCaches, Wipe, Place, CatalogFails
    <3>2. CASE Enter(t) \/ Loaded(t) \/ CheckDir(t) \/ Miss(t)
      BY <3>2 DEF Enter, Loaded, CheckDir, Miss, store
    <3>3. CASE \/ List(t) \/ Register(t) \/ Unregister(t) \/ PurgeHomes(t) \/ CheckRow(t)
               \/ RenameRow(t) \/ RenameHomes(t) \/ PutHome(t)
      BY <3>3 DEF List, Register, Unregister, PurgeHomes, CheckRow, RenameRow, RenameHomes,
                  PutHome, InCatalog
    <3> QED
      BY <2>3, <3>1, <3>2, <3>3 DEF Serve
  <2>4. CASE Boot \/ ScanDir \/ Reconcile \/ Crash
    BY <2>1, <2>4 DEF Boot, ScanDir, Reconcile, Crash
  <2>5. CASE UNCHANGED vars
    BY <2>1, <2>5 DEF vars, store
  <2> QED
    BY <1>2, <2>1, <2>2, <2>3, <2>4, <2>5 DEF Next
<1>3. Base /\ Agree /\ [Next]_vars => Agree'
  BY AgreeNext
<1>4. ArchiveOK => ArchiveConsistent
  BY DEF ArchiveOK, ArchiveConsistent
<1> QED
  BY <1>1, <1>2, <1>3, <1>4, BaseAlways, AllListedAlways, PTL DEF Spec

-----------------------------------------------------------------------------
(* Requests in sequence: query homes.                                      *)

\* So far no two requests overlapped and the process did not die.
Calm == "overlap" \notin past /\ "crash" \notin past

\* One request at a time.
Alone == \A t, u \in Thread : t # u => pc[t] = "idle" \/ pc[u] = "idle"

\* The home of q is where q was logged.
Resolves(q) == home[q] # None => q \in LogOf(home[q])

\* The home of q is about to go, or to follow the directory, or all is replaced.
Excused(t, q) ==
  \/ pc[t] \in {"erase", "unregister", "purge_homes"} /\ home[q] = job[t].c
  \/ /\ job[t].op = "rename" /\ home[q] = job[t].c /\ q \in LogOf(job[t].d)
     /\ pc[t] \in {"mkdir", "open", "loaded", "register", "rename_row", "rename_homes"}
  \/ pc[t] \in {"wipe", "place"}

\* Every home resolves, or is excused by the request at work.
Homes == \A q \in Query : Resolves(q) \/ \E t \in Thread : Excused(t, q)

\* A home is written after its query was logged.
Writing == \A t \in Thread : pc[t] = "put_home" => job[t].q \in LogOf(job[t].c)

\* What a restore has put back is what the archive holds.
Placing ==
  \A t \in Thread : pc[t] = "place" =>
    /\ \A c \in archive.dirs \ job[t].todo : LogOf(c) = archive.logs[c]
    /\ "catalog" \notin job[t].todo => home = archive.home

\* The homes in the archive resolve in the logs of the archive.
ArchiveResolves ==
  \A q \in Query : archive.home[q] # None =>
    archive.home[q] \in archive.dirs /\ q \in archive.logs[archive.home[q]]

\* Homes, logs and the archive agree as long as requests come one at a time.
InOrder ==
  Calm => /\ Alone /\ Homes /\ Writing /\ Placing
          /\ archive # None => ArchiveResolves
          /\ \A t \in Thread : job[t].op = "restore" => ArchiveResolves

\* What InOrder says where t is the only thread that may be at work.
AtWork(t) ==
  /\ \A q \in Query : Resolves(q) \/ Excused(t, q)
  /\ pc[t] = "put_home" => job[t].q \in LogOf(job[t].c)
  /\ pc[t] = "place" =>
       /\ \A c \in archive.dirs \ job[t].todo : LogOf(c) = archive.logs[c]
       /\ "catalog" \notin job[t].todo => home = archive.home
  /\ archive # None \/ job[t].op = "restore" => ArchiveResolves

\* With the others idle, InOrder is about t, before a step
LEMMA ToWork ==
  ASSUME Base, InOrder, Calm, NEW t \in Thread, \A u \in Thread \ {t} : pc[u] = "idle"
  PROVE  AtWork(t) /\ \A u \in Thread \ {t} : job[u] = NoJob
<1>1. \A u \in Thread \ {t} : job[u] = NoJob
  BY OwnTypes DEF Base, Fits
<1>2. ASSUME NEW q \in Query PROVE Resolves(q) \/ Excused(t, q)
  <2>1. \A u \in Thread \ {t} : ~Excused(u, q)
    BY <1>1 DEF Excused, NoJob
  <2> QED
    BY <2>1 DEF InOrder, Homes
<1> QED
  BY <1>1, <1>2 DEF InOrder, AtWork, Writing, Placing

\* and after it.
LEMMA FromWork ==
  ASSUME NEW t \in Thread, \A u \in Thread \ {t} : pc'[u] = "idle" /\ job'[u] = NoJob,
         AtWork(t)'
  PROVE  InOrder'
<1>1. \A u \in Thread \ {t} : pc'[u] \notin {"put_home", "place"} /\ job'[u].op # "restore"
  BY DEF NoJob
<1>2. Writing' /\ Placing'
  BY <1>1 DEF Writing, Placing, AtWork
<1>3. Homes' /\ Alone'
  BY DEF Homes, Alone, AtWork
<1>4. /\ archive' # None => ArchiveResolves'
      /\ \A u \in Thread : job'[u].op = "restore" => ArchiveResolves'
  BY <1>1 DEF AtWork
<1> QED
  BY <1>2, <1>3, <1>4 DEF InOrder

\* The steps at which nothing is excused.
LEMMA NoExcuse ==
  ASSUME NEW t \in Thread,
         pc[t] \notin {"erase", "unregister", "purge_homes", "wipe", "place"},
         job[t].op # "rename" \/ pc[t] \notin {"mkdir", "open", "loaded", "register",
                                               "rename_row", "rename_homes"},
         AtWork(t)
  PROVE  \A q \in Query : Resolves(q) /\ ~Excused(t, q)
BY DEF AtWork, Excused

\* The home of a query stays where it resolves, if its log does.
LEMMA ResolvesStill ==
  ASSUME Base, NEW q \in Query, home'[q] = home[q], Resolves(q),
         \A c \in Coll : home[q] = c => (q \in LogOf(c) => q \in LogOf(c)')
  PROVE  Resolves(q)'
<1>1. CASE home[q] = None
  BY <1>1 DEF Resolves
<1>2. CASE home[q] # None
  <2>1. PICK c \in Coll : c = home[q]
    BY <1>2, Typed
  <2>2. q \in LogOf(c)' /\ home'[q] = c
    BY <1>2, <2>1 DEF Resolves
  <2> QED
    BY <2>2 DEF Resolves, LogOf
<1> QED
  BY <1>1, <1>2

\* What is excused stays excused as delete, rename and restore go on.
LEMMA ExcuseStill ==
  ASSUME Base, NEW t \in Thread, UNCHANGED <<dir, log, home>>, NEW q \in Query, Excused(t, q),
         job'[t] = job[t],
         \/ pc'[t] = pc[t]
         \/ /\ job[t].op = "rename"
            /\ pc'[t] \in {"open", "loaded", "register", "rename_row", "rename_homes"}
         \/ job[t].op = "delete" /\ pc'[t] \in {"unregister", "purge_homes"}
  PROVE  Excused(t, q)'
<1>1. CASE pc[t] \in {"erase", "unregister", "purge_homes"} /\ home[q] = job[t].c
  <2>1. job[t].op = "delete"
    BY <1>1, OpAt DEF Base
  <2> QED
    BY <1>1, <2>1 DEF Excused
<1>2. CASE /\ job[t].op = "rename" /\ home[q] = job[t].c /\ q \in LogOf(job[t].d)
           /\ pc[t] \in {"mkdir", "open", "loaded", "register", "rename_row", "rename_homes"}
  <2>1. q \in LogOf(job[t].d)'
    BY <1>2 DEF LogOf
  <2>2. pc'[t] \in {"mkdir", "open", "loaded", "register", "rename_row", "rename_homes"}
    BY <1>2
  <2> QED
    BY <1>2, <2>1, <2>2 DEF Excused
<1>3. CASE pc[t] \in {"wipe", "place"}
  <2>1. job[t].op = "restore"
    BY <1>3, OpAt DEF Base
  <2> QED
    BY <1>3, <2>1 DEF Excused
<1> QED
  BY <1>1, <1>2, <1>3 DEF Excused

\* Steps that leave directories, logs, homes and the archive alone.
LEMMA Calmly ==
  ASSUME Base, NEW t \in Thread, AtWork(t), UNCHANGED <<dir, log, home, archive>>,
         pc'[t] \in {"put_home", "place"} => pc'[t] = pc[t] /\ job'[t] = job[t],
         job'[t].op = "restore" => job[t].op = "restore" \/ archive # None,
         \A q \in Query : Excused(t, q) => Excused(t, q)'
  PROVE  AtWork(t)'
<1>1. \A c : LogOf(c)' = LogOf(c)
  BY DEF LogOf
<1>2. \A q \in Query : Resolves(q)' \/ Excused(t, q)'
  BY <1>1, ResolvesStill DEF AtWork
<1>3. ASSUME pc'[t] = "put_home" PROVE job'[t].q \in LogOf(job[t].c)'
  BY <1>3 DEF AtWork, LogOf
<1>4. ASSUME pc'[t] = "place"
      PROVE  /\ \A c \in archive'.dirs \ job'[t].todo : LogOf(c)' = archive'.logs[c]
             /\ "catalog" \notin job'[t].todo => home' = archive'.home
  BY <1>1, <1>4 DEF AtWork
<1>5. archive' # None \/ job'[t].op = "restore" => ArchiveResolves'
  BY DEF AtWork, ArchiveResolves
<1> QED
  BY <1>2, <1>3, <1>4, <1>5 DEF AtWork

\* A request that is answered, at a step where nothing is excused.
LEMMA EndCalmly ==
  ASSUME Base, NEW t \in Thread, AtWork(t), UNCHANGED <<dir, log, home, archive>>, End(t),
         \A q \in Query : ~Excused(t, q)
  PROVE  AtWork(t)'
<1>1. pc'[t] = "idle" /\ job'[t] = NoJob
  BY DEF End, Base, Control
<1> QED
  BY <1>1, Calmly DEF NoJob

\* A step on, at which what is excused stays excused.
LEMMA StepCalmly ==
  ASSUME Base, NEW t \in Thread, AtWork(t), UNCHANGED <<dir, log, home, archive, job>>,
         NEW p \in Label \ {"put_home", "place"}, Goto(t, p),
         \/ \A q \in Query : ~Excused(t, q)
         \/ /\ job[t].op = "rename"
            /\ p \in {"open", "loaded", "register", "rename_row", "rename_homes"}
         \/ job[t].op = "delete" /\ p \in {"unregister", "purge_homes"}
  PROVE  AtWork(t)'
<1>1. pc'[t] = p /\ job'[t] = job[t]
  BY DEF Goto, Base, Control
<1>2. \A q \in Query : Excused(t, q) => Excused(t, q)'
  BY <1>1, ExcuseStill
<1> QED
  BY <1>1, <1>2, Calmly

\* The steps that change neither directories nor logs nor homes.
LEMMA CalmSteps ==
  ASSUME Base, NEW t \in Thread, AtWork(t),
         \/ Begin(t) \/ Enter(t) \/ OpenCatalog(t) \/ List(t) \/ Open(t) \/ Loaded(t)
         \/ Register(t) \/ DropCache(t) \/ Unregister(t) \/ CheckDir(t) \/ CheckRow(t)
         \/ CloseOld(t) \/ RenameRow(t) \/ SearchHit(t) \/ Miss(t) \/ FlushCaches(t)
  PROVE  AtWork(t)'
<1> USE DEF Label
<1>1. CASE Enter(t) \/ OpenCatalog(t)
  <2>1. UNCHANGED <<dir, log, home, archive, pc, job>>
    <3>1. CASE Enter(t)
      BY <3>1 DEF Enter, store, disk, catalog
    <3>2. CASE OpenCatalog(t)
      BY <3>2 DEF OpenCatalog, disk, catalog
    <3> QED
      BY <1>1, <3>1, <3>2
  <2>2. \A q \in Query : Excused(t, q) => Excused(t, q)'
    BY <2>1, ExcuseStill
  <2> QED
    BY <2>1, <2>2, Calmly
<1>2. CASE Begin(t)
  <2>1. PICK op \in Ops, c \in Coll, d \in Coll :
          /\ op = "restore" => archive # None
          /\ job' = [job EXCEPT ![t] = [NoJob EXCEPT !.op = op, !.c = c, !.d = d]]
          /\ pc' = [pc EXCEPT ![t] = FirstStep(op)]
    BY <1>2 DEF Begin, Goto
  <2>2. UNCHANGED <<dir, log, home, archive>> /\ pc[t] = "idle"
    BY <1>2 DEF Begin, disk, catalog
  <2>3. pc'[t] = FirstStep(op) /\ job'[t].op = op
    BY <2>1 DEF Base, Control, NoJob
  <2>4. FirstStep(op) \notin {"put_home", "place"}
    BY StoreAssumption DEF FirstStep
  <2>5. \A q \in Query : ~Excused(t, q)
    BY <2>2, NoExcuse, OpAt DEF Base
  <2> QED
    BY <2>1, <2>2, <2>3, <2>4, <2>5, Calmly
<1>3. CASE List(t) \/ CheckDir(t) \/ CheckRow(t) \/ CloseOld(t) \/ DropCache(t)
  <2>1. pc[t] \in {"list", "check_dir", "check_row", "close_old", "drop_cache"}
    BY <1>3 DEF List, CheckDir, CheckRow, CloseOld, DropCache, InCatalog, At
  <2>2. \A q \in Query : ~Excused(t, q)
    BY <2>1, NoExcuse
  <2>3. UNCHANGED <<dir, log, home, archive>>
    <3>1. CASE List(t) \/ CheckRow(t)
      BY <3>1 DEF List, CheckRow, InCatalog, disk, catalog
    <3>2. CASE CheckDir(t)
      BY <3>2 DEF CheckDir, store, disk, catalog
    <3>3. CASE CloseOld(t) \/ DropCache(t)
      BY <3>3 DEF CloseOld, DropCache, catalog
    <3> QED
      BY <1>3, <3>1, <3>2, <3>3
  <2>4. End(t) \/ Step(t, "check_row") \/ Step(t, "close_old") \/ Step(t, "move_dir")
        \/ Step(t, "erase")
    BY <1>3 DEF List, CheckDir, CheckRow, CloseOld, DropCache
  <2>5. CASE End(t)
    BY <2>2, <2>3, <2>5, EndCalmly
  <2>6. CASE \/ Step(t, "check_row") \/ Step(t, "close_old") \/ Step(t, "move_dir")
             \/ Step(t, "erase")
    <3>1. PICK p \in Label \ {"put_home", "place"} : Step(t, p)
      BY <2>6
    <3> QED
      BY <2>2, <2>3, <3>1, StepCalmly DEF Step
  <2> QED
    BY <2>4, <2>5, <2>6
<1>4. CASE Open(t) \/ Loaded(t) \/ Register(t)
  <2>1. access[t] # Free /\ pc[t] \in {"open", "loaded", "register"}
    BY <1>4 DEF Open, Loaded, Register, InCatalog, At
  <2>2. UNCHANGED <<dir, log, home, archive>>
    <3>1. CASE Open(t)
      BY <3>1 DEF Open, catalog
    <3>2. CASE Loaded(t)
      BY <3>2 DEF Loaded, store, disk, catalog
    <3>3. CASE Register(t)
      BY <3>3 DEF Register, InCatalog, disk
    <3> QED
      BY <1>4, <3>1, <3>2, <3>3
  <2>3. (job[t].op # "rename" /\ End(t)) \/ Step(t, "loaded") \/ Step(t, "register")
        \/ (job[t].op = "rename" /\ Step(t, "rename_row"))
    BY <1>4 DEF Open, Loaded, Register
  <2>4. job[t].op # "rename" => \A q \in Query : ~Excused(t, q)
    BY <2>1, NoExcuse
  <2>5. CASE job[t].op # "rename" /\ End(t)
    BY <2>2, <2>4, <2>5, EndCalmly
  <2>6. CASE \/ Step(t, "loaded") \/ Step(t, "register")
             \/ (job[t].op = "rename" /\ Step(t, "rename_row"))
    <3>1. PICK p \in {"loaded", "register", "rename_row"} : Step(t, p)
      BY <2>6
    <3> QED
      BY <2>2, <2>4, <3>1, StepCalmly DEF Step
  <2> QED
    BY <2>3, <2>5, <2>6
<1>5. CASE Unregister(t)
  <2>1. /\ pc[t] = "unregister" /\ Step(t, "purge_homes")
        /\ UNCHANGED <<dir, log, home, archive>>
    BY <1>5 DEF Unregister, InCatalog, At, disk
  <2>2. job[t].op = "delete"
    BY <2>1, OpAt DEF Base
  <2> QED
    BY <2>1, <2>2, StepCalmly DEF Step
<1>6. CASE RenameRow(t)
  <2>1. /\ pc[t] = "rename_row" /\ access[t] # Free
        /\ UNCHANGED <<dir, log, home, archive>>
    BY <1>6 DEF RenameRow, InCatalog, At, disk
  <2>2. job[t].op = "rename"
    BY <2>1, OpAt DEF Base
  <2>3. job[t].c \in rows /\ job[t].d \notin rows
    BY <2>1, <2>2 DEF Base, Stage
  <2>4. Step(t, "rename_homes")
    BY <1>6, <2>3 DEF RenameRow
  <2> QED
    BY <2>1, <2>2, <2>4, StepCalmly DEF Step
<1>7. CASE SearchHit(t) \/ Miss(t) \/ FlushCaches(t)
  <2>1. pc[t] \in {"look", "flush"} /\ UNCHANGED <<dir, log, home, archive>>
    <3>1. CASE SearchHit(t)
      BY <3>1 DEF SearchHit, At, disk, catalog
    <3>2. CASE Miss(t)
      BY <3>2 DEF Miss, At, store, disk, catalog
    <3>3. CASE FlushCaches(t)
      BY <3>3 DEF FlushCaches, At, catalog
    <3> QED
      BY <1>7, <3>1, <3>2, <3>3
  <2>2. \A q \in Query : ~Excused(t, q)
    BY <2>1, NoExcuse
  <2>3. CASE SearchHit(t)
    <3>1. End(t) \/ (pc' = pc /\ \E q \in Query : job' = [job EXCEPT ![t].op = "log", ![t].q = q,
                                                                     ![t].try = 0])
      BY <2>3 DEF SearchHit
    <3>2. CASE End(t)
      BY <2>1, <2>2, <3>2, EndCalmly
    <3>3. CASE pc' = pc /\ job'[t].op = "log"
      BY <2>1, <2>2, <2>3, <3>3, Calmly DEF SearchHit, At
    <3>4. (\E q \in Query : job' = [job EXCEPT ![t].op = "log", ![t].q = q, ![t].try = 0])
            => job'[t].op = "log"
      BY DEF Base, Control, JobType
    <3> QED
      BY <3>1, <3>2, <3>3, <3>4
  <2>4. CASE Miss(t)
    <3>1. End(t) \/ (Goto(t, "mkdir") /\ UNCHANGED job)
      BY <2>4 DEF Miss
    <3> QED
      BY <2>1, <2>2, <3>1, EndCalmly, StepCalmly
  <2>5. CASE FlushCaches(t)
    <3>1. /\ job' = [job EXCEPT ![t].todo = Entry]
          /\ pc' = [pc EXCEPT ![t] = IF job[t].op = "dump" THEN "zip" ELSE "wipe"]
      BY <2>5 DEF FlushCaches, Goto
    <3>2. job'[t].op = job[t].op /\ pc'[t] \in {"zip", "wipe"}
      BY <3>1 DEF Base, Control, JobType
    <3> QED
      BY <2>1, <2>2, <3>2, Calmly
  <2> QED
    BY <1>7, <2>3, <2>4, <2>5
<1> QED
  BY <1>1, <1>2, <1>3, <1>4, <1>5, <1>6, <1>7

\* Directories or logs change, homes do not, and nothing was excused.
LEMMA LogsMove ==
  ASSUME Base, NEW t \in Thread, AtWork(t), UNCHANGED <<home, archive>>, job'[t] = job[t],
         pc[t] # "idle", pc'[t] # "place",
         \A q \in Query : ~Excused(t, q),
         \A q \in Query, c \in Coll :
            home[q] = c /\ q \in LogOf(c) => q \in LogOf(c)' \/ Excused(t, q)',
         pc'[t] = "put_home" => \A c \in Coll : c = job[t].c => job[t].q \in LogOf(c)'
  PROVE  AtWork(t)'
<1>1. ASSUME NEW q \in Query PROVE Resolves(q)' \/ Excused(t, q)'
  <2>1. Resolves(q)
    BY DEF AtWork
  <2> QED
    BY <2>1, ResolvesStill
<1>2. ASSUME pc'[t] = "put_home" PROVE job'[t].q \in LogOf(job[t].c)'
  <2>1. PICK c \in Coll : c = job[t].c
    BY <1>2, OpAt DEF Base
  <2>2. job[t].q \in LogOf(c)'
    BY <1>2, <2>1
  <2> QED
    BY <2>1, <2>2 DEF LogOf
<1>3. archive' # None \/ job'[t].op = "restore" => ArchiveResolves'
  BY DEF AtWork, ArchiveResolves
<1> QED
  BY <1>1, <1>2, <1>3 DEF AtWork

\* A directory is made for a collection that had none.
LEMMA MkDirInOrder == ASSUME Base, NEW t \in Thread, AtWork(t), MkDir(t) PROVE AtWork(t)'
<1>1. PICK d \in Coll : d = Target(t)
  BY Owns DEF MkDir, At, Base, WriteSteps
<1>2. /\ UNCHANGED <<home, archive>> /\ pc[t] = "mkdir" /\ access[t] # Free
      /\ Step(t, "open") \/ Step(t, "loaded")
  BY DEF MkDir, At, catalog
<1>3. PICK p \in {"open", "loaded"} : Step(t, p)
  BY <1>2
<1>4. p \in Label \ {"put_home", "place"}
  BY DEF Label
<1>5. job[t].op # "rename" => \A q \in Query : ~Excused(t, q)
  BY <1>2, NoExcuse
<1>6. CASE UNCHANGED disk
  BY <1>2, <1>3, <1>4, <1>5, <1>6, StepCalmly DEF Step, disk
<1>7. CASE /\ dir[d] = None /\ dir' = [dir EXCEPT ![d] = Fresh]
           /\ log' = [log EXCEPT ![Fresh] = {}]
  <2>1. job[t].op # "rename"
    BY <1>1, <1>2, <1>7 DEF Base, Stage, Target
  <2>2. \A e \in Coll : dir[e] # Fresh
    BY FreshIsNew, Typed DEF Base, Disk
  <2>3. ASSUME NEW q \in Query, NEW e \in Coll, q \in LogOf(e) PROVE q \in LogOf(e)'
    <3>1. dir[e] # None /\ dir[e] \in Inode /\ e # d
      BY <1>7, <2>3, Typed DEF LogOf
    <3>2. dir'[e] = dir[e] /\ log'[dir[e]] = log[dir[e]]
      BY <1>7, <2>2, <3>1, Typed
    <3> QED
      BY <2>3, <3>1, <3>2 DEF LogOf
  <2>4. job'[t] = job[t] /\ pc'[t] = p
    BY <1>3 DEF Step, Goto, Base, Control
  <2> QED
    BY <1>2, <1>5, <2>1, <2>3, <2>4, LogsMove
<1> QED
  BY <1>1, <1>6, <1>7 DEF MkDir

\* A query is logged, and its home may be written.
LEMMA WriteInOrder ==
  ASSUME Base, NEW t \in Thread, AtWork(t), LogHit(t) \/ LookAgain(t) PROVE AtWork(t)'
<1>1. /\ dir' = dir /\ access[t] # Free /\ pc[t] \in {"look", "loaded"}
      /\ UNCHANGED <<home, archive>> /\ job[t].op \in {"search", "log"}
  BY DEF LogHit, LookAgain, At, catalog
<1>2. PICK c \in Coll : c = job[t].c
  BY <1>1, OpAt DEF Base
<1>3. \A q \in Query : ~Excused(t, q)
  BY <1>1, NoExcuse
<1>4. \/ WriteLog(t) /\ cache[c] # None /\ UNCHANGED job /\ job[t].op = "log"
      \/ /\ pc' = [pc EXCEPT ![t] = "look"] /\ log' = log
         /\ job' = [job EXCEPT ![t].try = @ + 1]
  <2>1. CASE LogHit(t)
    BY <1>2, <2>1 DEF LogHit
  <2>2. CASE LookAgain(t)
    <3>1. pc[t] = "loaded"
      BY <2>2 DEF LookAgain, At
    <3>2. cache[c] # None
      BY <1>1, <1>2, <3>1 DEF Base, Stage, Target
    <3> QED
      BY <2>2, <3>2 DEF LookAgain, Goto
  <2> QED
    BY <2>1, <2>2
<1>5. CASE /\ pc' = [pc EXCEPT ![t] = "look"] /\ log' = log
           /\ job' = [job EXCEPT ![t].try = @ + 1]
  <2>1. job'[t].op = job[t].op /\ pc'[t] = "look"
    BY <1>5 DEF Base, Control, JobType
  <2> QED
    BY <1>1, <1>3, <1>5, <2>1, Calmly
<1>6. CASE WriteLog(t) /\ cache[c] # None /\ UNCHANGED job /\ job[t].op = "log"
  <2>1. PICK i \in Inode : i = cache[c]
    BY <1>6, Typed
  <2>2. log' = [log EXCEPT ![i] = @ \cup {job[t].q}] /\ dir[c] = i
    BY <1>2, <1>6, <2>1 DEF WriteLog, Base, Disk, HandlesLive
  <2>3. i # None
    BY <1>6, <2>1
  <2>4. \A j \in Inode : log[j] \subseteq log'[j]
    BY <2>2, Typed
  <2>5. \A q \in Query, e \in Coll : q \in LogOf(e) => q \in LogOf(e)'
    BY <1>1, <2>4, Typed DEF LogOf
  <2>6. job[t].q \in LogOf(c)'
    BY <1>1, <2>2, <2>3, Typed DEF LogOf
  <2>7. pc'[t] = "put_home" /\ job'[t] = job[t]
    BY <1>6 DEF WriteLog, Goto, Base, Control
  <2> QED
    BY <1>1, <1>2, <1>3, <2>5, <2>6, <2>7, LogsMove
<1> QED
  BY <1>4, <1>5, <1>6

\* A directory takes its log along to the new name: its homes will follow.
LEMMA MoveInOrder == ASSUME Base, NEW t \in Thread, AtWork(t), MoveDir(t) PROVE AtWork(t)'
<1>1. /\ access[t] # Free /\ pc[t] = "move_dir" /\ log' = log /\ UNCHANGED <<home, archive>>
      /\ dir' = [dir EXCEPT ![job[t].d] = dir[job[t].c], ![job[t].c] = None]
      /\ Step(t, "mkdir")
  BY DEF MoveDir, At, catalog
<1>2. job[t].op = "rename" /\ job[t].c # job[t].d /\ job[t].d \in Coll /\ job[t].c \in Coll
  BY <1>1, OpAt DEF Base
<1>3. PICK c \in Coll, d \in Coll : c = job[t].c /\ d = job[t].d /\ c # d
  BY <1>2
<1>4. dir[d] = None
  BY <1>1, <1>2, <1>3 DEF Base, Stage
<1>5. /\ dir'[d] = dir[c]
      /\ \A e \in Coll \ {c, d} : dir'[e] = dir[e]
  BY <1>1, <1>3, Typed
<1>6. pc'[t] = "mkdir" /\ job'[t] = job[t]
  BY <1>1 DEF Step, Goto, Base, Control
<1>7. \A q \in Query : ~Excused(t, q)
  BY <1>1, NoExcuse
<1>8. ASSUME NEW q \in Query, NEW e \in Coll, home[q] = e, q \in LogOf(e)
      PROVE  q \in LogOf(e)' \/ Excused(t, q)'
  <2>1. CASE e = c
    <3>1. q \in LogOf(d)'
      BY <1>1, <1>5, <1>8, <2>1 DEF LogOf
    <3>2. q \in LogOf(job[t].d)'
      BY <1>3, <1>6, <3>1 DEF LogOf
    <3>3. job'[t].op = "rename" /\ home'[q] = job'[t].c
      BY <1>1, <1>2, <1>3, <1>6, <1>8, <2>1
    <3> QED
      BY <1>6, <3>2, <3>3 DEF Excused
  <2>2. CASE e # c
    <3>1. e # d
      BY <1>4, <1>8 DEF LogOf
    <3> QED
      BY <1>1, <1>5, <1>8, <2>2, <3>1 DEF LogOf
  <2> QED
    BY <2>1, <2>2
<1> QED
  BY <1>1, <1>6, <1>7, <1>8, LogsMove

\* What a delete or a restore removes of a collection the others keep.
LEMMA EraseSpares ==
  ASSUME Base, NEW d \in Coll, EraseFrom(d), NEW e \in Coll \ {d}
  PROVE  LogOf(e)' = LogOf(e)
<1>1. dir[e] # None => dir[e] \in Inode /\ dir[e] # dir[d]
  BY Typed DEF Base, Disk, DirsDiffer
<1>2. CASE Stored(d)
  BY <1>1, <1>2, Typed DEF EraseFrom, LogOf
<1>3. CASE ~Stored(d)
  BY <1>1, <1>3, Typed DEF EraseFrom, LogOf
<1> QED
  BY <1>2, <1>3

\* A delete removes the log first; the homes in it are excused till it ends.
LEMMA EraseInOrder == ASSUME Base, NEW t \in Thread, AtWork(t), Erase(t) PROVE AtWork(t)'
<1>1. /\ pc[t] = "erase" /\ UNCHANGED <<home, archive, job>>
  BY DEF Erase, At, catalog
<1>2. PICK d \in Coll : d = job[t].c
  BY <1>1, OpAt DEF Base
<1>3. job[t].op = "delete"
  BY <1>1, OpAt DEF Base
<1>4. CASE Goto(t, "unregister") /\ UNCHANGED disk
  BY <1>1, <1>3, <1>4, StepCalmly DEF Label, disk
<1>5. CASE EraseFrom(d) /\ UNCHANGED pc
  <2>1. ASSUME NEW q \in Query PROVE Resolves(q)' \/ Excused(t, q)'
    <3>1. CASE home[q] = d
      BY <1>1, <1>2, <1>5, <3>1 DEF Excused
    <3>2. CASE home[q] # d
      <4>1. Resolves(q)
        BY <1>1, <1>2, <3>2 DEF AtWork, Excused
      <4>2. \A e \in Coll : home[q] = e => LogOf(e)' = LogOf(e)
        BY <1>5, <3>2, EraseSpares
      <4> QED
        BY <1>1, <4>1, <4>2, ResolvesStill
    <3> QED
      BY <3>1, <3>2
  <2>2. archive' # None \/ job'[t].op = "restore" => ArchiveResolves'
    BY <1>1 DEF AtWork, ArchiveResolves
  <2> QED
    BY <1>1, <1>5, <2>1, <2>2 DEF AtWork
<1> QED
  BY <1>2, <1>4, <1>5 DEF Erase

\* The homes change, and the request ends.
LEMMA HomesInOrder ==
  ASSUME Base, NEW t \in Thread, AtWork(t), PurgeHomes(t) \/ RenameHomes(t) \/ PutHome(t)
  PROVE  AtWork(t)'
<1>1. /\ UNCHANGED <<dir, log, archive>> /\ End(t) /\ access[t] # Free
      /\ pc[t] \in {"purge_homes", "rename_homes", "put_home"}
  BY DEF PurgeHomes, RenameHomes, PutHome, InCatalog, At, disk
<1>2. pc'[t] = "idle" /\ job'[t] = NoJob
  BY <1>1 DEF End, Base, Control
<1>3. /\ job[t].c \in Coll /\ job[t].d \in Coll
      /\ pc[t] = "rename_homes" => job[t].op = "rename"
  BY <1>1, OpAt DEF Base
<1>4. PICK c \in Coll, d \in Coll : c = job[t].c /\ d = job[t].d
  BY <1>3
<1>5. \A e \in Coll : LogOf(e)' = LogOf(e)
  BY <1>1 DEF LogOf
<1>6. ASSUME NEW q \in Query, home'[q] = home[q], Resolves(q) PROVE Resolves(q)'
  BY <1>5, <1>6, ResolvesStill
<1>7. ASSUME NEW q \in Query PROVE Resolves(q)'
  <2>1. CASE PurgeHomes(t)
    <3>1. pc[t] = "purge_homes" /\ home' = [p \in Query |-> IF home[p] = c THEN None ELSE home[p]]
      BY <1>4, <2>1 DEF PurgeHomes, InCatalog, At
    <3>2. CASE home[q] = c
      BY <3>1, <3>2 DEF Resolves
    <3>3. CASE home[q] # c
      <4>1. Resolves(q)
        BY <1>4, <3>1, <3>3 DEF AtWork, Excused
      <4> QED
        BY <1>6, <3>1, <3>3, <4>1
    <3> QED
      BY <3>2, <3>3
  <2>2. CASE RenameHomes(t)
    <3>1. /\ pc[t] = "rename_homes"
          /\ home' = [p \in Query |-> IF home[p] = c THEN d ELSE home[p]]
      BY <1>4, <2>2 DEF RenameHomes, InCatalog, At
    <3>2. LogOf(c) = {} /\ job[t].op = "rename"
      BY <1>1, <1>3, <1>4, <3>1 DEF Base, Stage, LogOf
    <3>3. CASE home[q] = c
      <4>1. ~Resolves(q)
        BY <3>2, <3>3, StoreAssumption DEF Resolves
      <4>2. q \in LogOf(d)
        BY <1>4, <3>1, <4>1 DEF AtWork, Excused
      <4>3. home'[q] = d /\ q \in LogOf(d)'
        BY <1>5, <3>1, <3>3, <4>2
      <4> QED
        BY <4>3 DEF Resolves, LogOf
    <3>4. CASE home[q] # c
      <4>1. Resolves(q)
        BY <1>4, <3>1, <3>4 DEF AtWork, Excused
      <4> QED
        BY <1>6, <3>1, <3>4, <4>1
    <3> QED
      BY <3>3, <3>4
  <2>3. CASE PutHome(t)
    <3>1. pc[t] = "put_home" /\ home' = [home EXCEPT ![job[t].q] = c]
      BY <1>4, <2>3 DEF PutHome, InCatalog, At
    <3>2. Resolves(q)
      BY <3>1, NoExcuse
    <3>3. CASE q = job[t].q
      <4>1. home'[q] = c /\ q \in LogOf(c)'
        BY <1>4, <1>5, <3>1, <3>3, Typed DEF AtWork
      <4> QED
        BY <4>1 DEF Resolves, LogOf
    <3>4. CASE q # job[t].q
      <4>1. home'[q] = home[q]
        BY <3>1, <3>4, Typed
      <4> QED
        BY <1>6, <3>2, <4>1
    <3> QED
      BY <3>3, <3>4
  <2> QED
    BY <2>1, <2>2, <2>3
<1>8. archive' # None => ArchiveResolves'
  BY <1>1 DEF AtWork, ArchiveResolves
<1> QED
  BY <1>2, <1>7, <1>8 DEF AtWork, NoJob

\* An archive takes homes and logs as they are; no log has rows it leaves out.
LEMMA ZipInOrder ==
  ASSUME Base, Flushed, "crash" \notin past, NEW t \in Thread, AtWork(t), Zip(t)
  PROVE  AtWork(t)'
<1>1. /\ UNCHANGED <<dir, log, home>> /\ End(t) /\ access[t] # Free /\ pc[t] = "zip"
  BY DEF Zip, At, disk, catalog
<1>2. pc'[t] = "idle" /\ job'[t] = NoJob
  BY <1>1 DEF End, Base, Control
<1>3. \A q \in Query : Resolves(q)
  BY <1>1, NoExcuse, OpAt DEF Base
<1>4. \A c \in Coll : WalOf(c) = {}
  BY <1>1 DEF Base, Stage, Flushed
<1>5. \A q \in Query : Resolves(q)'
  BY <1>1, <1>3 DEF Resolves, LogOf
<1>6. ASSUME archive' # None PROVE ArchiveResolves'
  <2>1. archive' = [dirs |-> {c \in Coll : dir[c] # None},
                    dbs |-> {c \in Coll : Stored(c)},
                    logs |-> [c \in Coll |-> LogOf(c) \ WalOf(c)],
                    rows |-> rows, home |-> home, sure |-> "doubt" \notin past]
    BY <1>6 DEF Zip
  <2>2. /\ archive'.home = home /\ archive'.dirs = {c \in Coll : dir[c] # None}
        /\ \A c \in Coll : archive'.logs[c] = LogOf(c)
    BY <1>4, <2>1
  <2>3. ASSUME NEW q \in Query, home[q] # None
        PROVE  home[q] \in archive'.dirs /\ q \in archive'.logs[home[q]]
    <3>1. PICK c \in Coll : c = home[q]
      BY <2>3, Typed
    <3>2. q \in LogOf(c)
      BY <1>3, <2>3, <3>1 DEF Resolves
    <3> QED
      BY <2>2, <3>1, <3>2 DEF LogOf
  <2> QED
    BY <2>2, <2>3 DEF ArchiveResolves
<1> QED
  BY <1>2, <1>5, <1>6 DEF AtWork, NoJob

\* A restore first removes everything
LEMMA WipeInOrder == ASSUME Base, NEW t \in Thread, AtWork(t), Wipe(t) PROVE AtWork(t)'
<1>1. /\ pc[t] = "wipe" /\ access[t] # Free /\ archive' = archive
      /\ pc' = pc \/ (Goto(t, "place") /\ job' = [job EXCEPT ![t].todo = Entry])
  BY DEF Wipe, At
<1>2. job[t].op = "restore"
  BY <1>1, OpAt DEF Base
<1>3. archive \in ArchiveType
  BY <1>2 DEF Base, Disk, ArchiveThere
<1>4. CASE pc' = pc
  <2>1. \A q \in Query : Excused(t, q)'
    BY <1>1, <1>4 DEF Excused
  <2>2. ArchiveResolves'
    BY <1>1, <1>2 DEF AtWork, ArchiveResolves
  <2> QED
    BY <1>1, <1>4, <2>1, <2>2 DEF AtWork
<1>5. CASE Goto(t, "place") /\ job' = [job EXCEPT ![t].todo = Entry]
  <2>1. pc'[t] = "place" /\ job'[t].todo = Entry
    BY <1>5 DEF Goto, Base, Control, JobType
  <2>2. \A q \in Query : Excused(t, q)'
    BY <2>1 DEF Excused
  <2>3. archive'.dirs \ job'[t].todo = {} /\ "catalog" \in job'[t].todo
    BY <1>1, <1>3, <2>1 DEF ArchiveType, Entry
  <2>4. ArchiveResolves'
    BY <1>1, <1>2 DEF AtWork, ArchiveResolves
  <2> QED
    BY <2>1, <2>2, <2>3, <2>4 DEF AtWork
<1> QED
  BY <1>1, <1>4, <1>5

\* and then puts back, piece by piece, logs and homes that agree.
LEMMA PlaceInOrder == ASSUME Base, NEW t \in Thread, AtWork(t), Place(t) PROVE AtWork(t)'
<1>1. /\ pc[t] = "place" /\ access[t] # Free /\ archive' = archive
  BY DEF Place, At
<1>2. job[t].op = "restore"
  BY <1>1, OpAt DEF Base
<1>3. archive \in ArchiveType
  BY <1>2 DEF Base, Disk, ArchiveThere
<1>4. ArchiveResolves /\ ArchiveResolves'
  BY <1>1, <1>2 DEF AtWork, ArchiveResolves
<1>5. job[t].todo \ {"catalog"} \subseteq Coll
  BY OwnTypes DEF Base, JobType, Entry
<1>6. ASSUME pc' = pc PROVE \A q \in Query : Excused(t, q)'
  BY <1>1, <1>6 DEF Excused
<1>7. ASSUME NEW c \in job[t].todo \ {"catalog"}, PlaceDir(c), UNCHANGED <<pc, catalog>>,
             job' = [job EXCEPT ![t].todo = @ \ {c}]
      PROVE  AtWork(t)'
  <2>1. job'[t].todo = job[t].todo \ {c} /\ c \in Coll
    BY <1>5, <1>7 DEF Base, Control, JobType
  <2>2. ASSUME NEW e \in archive.dirs, e \notin job'[t].todo
        PROVE  LogOf(e)' = archive.logs[e]
    <3>1. e \in Coll
      BY <1>3, <2>2 DEF ArchiveType
    <3>2. CASE e = c
      <4>1. dir' = [dir EXCEPT ![c] = Fresh] /\ log' = [log EXCEPT ![Fresh] = archive.logs[c]]
        BY <1>7, <2>2, <3>2 DEF PlaceDir
      <4>2. Fresh \in Inode /\ Fresh # None
        BY FreshIsNew, Typed, StoreAssumption DEF Base, Disk
      <4>3. dir'[c] = Fresh /\ log'[Fresh] = archive.logs[c]
        BY <2>1, <4>1, <4>2, Typed
      <4> QED
        BY <3>2, <4>2, <4>3 DEF LogOf
    <3>3. CASE e # c
      <4>1. LogOf(e) = archive.logs[e]
        BY <1>1, <2>1, <2>2, <3>3 DEF AtWork
      <4>2. CASE UNCHANGED disk
        BY <4>1, <4>2 DEF LogOf, disk
      <4>3. CASE /\ dir' = [dir EXCEPT ![c] = Fresh]
                 /\ log' = [log EXCEPT ![Fresh] = archive.logs[c]]
        <5>1. dir'[e] = dir[e] /\ dir[e] # Fresh
          BY <3>1, <3>3, <4>3, FreshIsNew, Typed DEF Base, Disk
        <5>2. dir[e] # None => log'[dir[e]] = log[dir[e]]
          BY <3>1, <4>3, <5>1, Typed
        <5> QED
          BY <4>1, <5>1, <5>2 DEF LogOf
      <4> QED
        BY <1>7, <4>2, <4>3 DEF PlaceDir
    <3> QED
      BY <3>2, <3>3
  <2>3. "catalog" \notin job'[t].todo => home' = archive'.home
    BY <1>1, <1>7, <2>1 DEF AtWork, catalog
  <2>4. \A q \in Query : Excused(t, q)'
    BY <1>6, <1>7
  <2> QED
    BY <1>1, <1>4, <1>7, <2>2, <2>3, <2>4 DEF AtWork
<1>8. ASSUME home' = archive.home, job' = [job EXCEPT ![t].todo = @ \ {"catalog"}],
             UNCHANGED <<pc, disk>>
      PROVE  AtWork(t)'
  <2>1. job'[t].todo = job[t].todo \ {"catalog"}
    BY <1>8 DEF Base, Control, JobType
  <2>2. "catalog" \notin archive.dirs
    BY <1>3, StoreAssumption DEF ArchiveType
  <2>3. \A c \in archive.dirs \ job'[t].todo : LogOf(c)' = archive.logs[c]
    BY <1>1, <1>8, <2>1, <2>2 DEF AtWork, LogOf, disk
  <2>4. \A q \in Query : Excused(t, q)'
    BY <1>6, <1>8
  <2> QED
    BY <1>1, <1>4, <1>8, <2>3, <2>4 DEF AtWork
<1>9. ASSUME job[t].todo = {}, End(t), UNCHANGED <<disk, catalog>>
      PROVE  AtWork(t)'
  <2>1. pc'[t] = "idle" /\ job'[t] = NoJob
    BY <1>9 DEF End, Base, Control
  <2>2. home = archive.home /\ \A c \in archive.dirs : LogOf(c) = archive.logs[c]
    BY <1>1, <1>9 DEF AtWork
  <2>3. \A q \in Query : Resolves(q)
    BY <1>4, <2>2 DEF Resolves, ArchiveResolves
  <2>4. \A q \in Query : Resolves(q)'
    BY <1>9, <2>3 DEF Resolves, LogOf, disk, catalog
  <2> QED
    BY <1>4, <2>1, <2>4 DEF AtWork
<1> QED
  BY <1>7, <1>8, <1>9 DEF Place, catalog

\* A step of the only thread at work keeps the order.
LEMMA WorkInOrder ==
  ASSUME "catalog" \notin Faults, Base, Flushed, "crash" \notin past,
         NEW t \in Thread, AtWork(t), Serve(t)
  PROVE  AtWork(t)'
<1>1. ~CatalogFails(t)
  BY DEF CatalogFails
<1> QED
  BY <1>1, CalmSteps, MkDirInOrder, WriteInOrder, MoveInOrder, EraseInOrder, HomesInOrder,
     ZipInOrder, WipeInOrder, PlaceInOrder DEF Serve

\* In sequence, homes and logs stay in order.
LEMMA InOrderNext ==
  ASSUME "catalog" \notin Faults, "overlap" \in Watch,
         "crash" \in Watch \/ "crash" \notin Faults,
         Base, Flushed, InOrder, [Next]_vars
  PROVE  InOrder'
<1> SUFFICES ASSUME Calm' PROVE InOrder'
  BY DEF InOrder
<1>1. Calm
  BY Remembered DEF Calm
<1>2. ASSUME UNCHANGED <<dir, log, home, archive, pc, job>> PROVE InOrder'
  <2>1. \A q \in Query : Resolves(q)' <=> Resolves(q)
    BY <1>2 DEF Resolves, LogOf
  <2>2. \A t \in Thread, q \in Query : Excused(t, q)' <=> Excused(t, q)
    BY <1>2 DEF Excused, LogOf
  <2>3. Homes' /\ Alone'
    BY <1>1, <1>2, <2>1, <2>2 DEF InOrder, Homes, Alone
  <2>4. Writing' /\ Placing'
    BY <1>1, <1>2 DEF InOrder, Writing, Placing, LogOf
  <2>5. ArchiveResolves' <=> ArchiveResolves
    BY <1>2 DEF ArchiveResolves
  <2> QED
    BY <1>1, <1>2, <2>3, <2>4, <2>5 DEF InOrder
<1>3. CASE Boot \/ ScanDir \/ Reconcile
  BY <1>2, <1>3 DEF Boot, ScanDir, Reconcile, disk, catalog
<1>4. CASE UNCHANGED vars
  BY <1>2, <1>4 DEF vars, store, disk, catalog
<1>5. CASE Crash
  BY <1>5 DEF Crash, Happened, Calm
<1>6. CASE \E t \in Thread : Serve(t)
  <2>1. PICK t \in Thread : Serve(t)
    BY <1>6
  <2>2. \A u \in Thread \ {t} : pc[u] = "idle"
    <3>1. CASE pc[t] # "idle"
      BY <1>1, <3>1 DEF InOrder, Alone
    <3>2. CASE pc[t] = "idle"
      <4>1. access[t] = Free
        BY <3>2, HasNeed DEF Base
      <4>2. Begin(t)
        <5>1. CASE Orderly(t)
          BY <3>2, <5>1 DEF Orderly, Enter, List, MkDir, Open, Loaded, Register, DropCache,
             Erase, Unregister, PurgeHomes, CheckDir, CheckRow, CloseOld, MoveDir, RenameRow,
             RenameHomes, SearchHit, LogHit, Miss, LookAgain, PutHome, FlushCaches, Zip,
             InCatalog, At
        <5>2. CASE OpenCatalog(t) \/ CatalogFails(t) \/ Wipe(t) \/ Place(t)
          BY <4>1, <5>2 DEF OpenCatalog, CatalogFails, Wipe, Place, At
        <5> QED
          BY <2>1, <5>1, <5>2 DEF Serve, Orderly
      <4>3. "overlap" \notin past'
        BY DEF Calm
      <4> QED
        BY <4>2, <4>3 DEF Begin, Happened
    <3> QED
      BY <3>1, <3>2
  <2>3. AtWork(t) /\ \A u \in Thread \ {t} : job[u] = NoJob
    BY <1>1, <2>2, ToWork
  <2>4. AtWork(t)'
    BY <1>1, <2>1, <2>3, WorkInOrder DEF Calm
  <2>5. \A u \in Thread \ {t} : pc'[u] = pc[u] /\ job'[u] = job[u]
    BY <2>1, ServeSound DEF Sound, Local
  <2> QED
    BY <2>2, <2>3, <2>4, <2>5, FromWork
<1> QED
  BY <1>3, <1>4, <1>5, <1>6 DEF Next

\* A query id that resolves to a collection is in the log of that collection,
\* whenever no request is under way, after any sequence of requests that did not
\* overlap, searches, renames, deletes, dumps and restores included. (A catalog
\* statement that fails may leave a home behind; overlaps and crashes are what
\* the property excepts, so the model has to remember them.)
THEOREM HomesStayInSequence ==
  ASSUME "catalog" \notin Faults, "overlap" \in Watch,
         "crash" \in Watch \/ "crash" \notin Faults
  PROVE  Spec => []HomesResolveInSequence
<1>1. Init => Flushed /\ InOrder
  BY DEF Init, Flushed, WalOf, InOrder, Alone, Homes, Resolves, Writing, Placing, NoJob
<1>2. Base /\ Flushed /\ InOrder /\ [Next]_vars => (Flushed /\ InOrder)'
  BY FlushedNext, InOrderNext
<1>3. ASSUME InOrder PROVE HomesResolveInSequence
  <2> SUFFICES ASSUME past = {}, \A t \in Thread : pc[t] = "idle", NEW q \in Query,
                      home[q] # None
               PROVE  q \in LogOf(home[q])
    BY DEF HomesResolveInSequence, HomesResolve
  <2>1. Homes
    BY <1>3 DEF InOrder, Calm
  <2>2. \A t \in Thread : ~Excused(t, q)
    BY DEF Excused
  <2> QED
    BY <2>1, <2>2 DEF Homes, Resolves
<1> QED
  BY <1>1, <1>2, <1>3, BaseAlways, PTL DEF Spec
=============================================================================
