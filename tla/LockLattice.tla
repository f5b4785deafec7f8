---------------------------- MODULE LockLattice ----------------------------
(***************************************************************************)
(* The lock lattice of pave/stores/local.py: the store-wide state lock     *)
(* (_StoreStateLock) above one reader/writer lock per collection           *)
(* (_CollectionReadWriteLock), and the order in which each kind of store   *)
(* operation takes and releases them.                                      *)
(*                                                                         *)
(* Each lock is a condition variable around four pieces of state.  A       *)
(* thread tests the wait condition under the condition's mutex; if it has  *)
(* to wait it sleeps until a notify_all, and only then tests again.  A     *)
(* notify that is missing is therefore a thread that sleeps for ever.      *)
(*                                                                         *)
(* Kinds of operation, after the code that runs under the locks:           *)
(*   catalog  _with_catalog_retry on its own (list, resolve, put home)     *)
(*   read     search and the other reads; while it holds the collection it *)
(*            may enter _read_collection_db, which takes both locks again  *)
(*   write    create, delete, ingest, purge, and rename with two           *)
(*            collections; may enter _with_catalog_retry, which takes the  *)
(*            state lock again                                             *)
(*   archive  dump and restore, the exclusive side of the state lock       *)
(***************************************************************************)
EXTENDS Naturals

CONSTANTS Thread, Coll, State, None,
          Rank,         \* id() of each collection lock: the order of sorted()
          MaxRank       \* ids are addresses, so there is a largest one

ASSUME LatticeAssumption ==
  /\ State \notin Coll
  /\ None \notin Thread
  /\ Coll # {}
  /\ MaxRank \in Nat
  /\ Rank \in [Coll -> 0 .. MaxRank]
  /\ \A c, d \in Coll : Rank[c] = Rank[d] => c = d

Lock == Coll \cup {State}

VARIABLES
  readers,    \* readers[l][t]: depth of t in _readers of lock l, 0 if absent
  writer,     \* the thread that holds the write side of l, or None
  pending,    \* threads counted in _pending_writers of l
  asleep,     \* threads inside _cond.wait() of l
  pc, job     \* where each thread is, and the operation it runs

lockVars == <<readers, writer, pending, asleep>>
vars == <<readers, writer, pending, asleep, pc, job>>

-----------------------------------------------------------------------------
(* The two locks.                                                          *)

\* (mutant of ReadBlocked: a reader looks at the writer only, not at the queue)
ReadBlockedByWriterOnly(l, t) == writer[l] \notin (IF l = State THEN {None, t} ELSE {None})

\* The wait condition of read_lock.  The state lock lets its own writer in;
\* both let a thread that already reads pass a queued writer.
ReadBlocked(l, t) ==
  IF l = State
  THEN \/ writer[l] \notin {None, t}
       \/ pending[l] # {} /\ writer[l] # t /\ readers[l][t] = 0
  ELSE \/ writer[l] # None
       \/ pending[l] # {} /\ readers[l][t] = 0

\* (mutant of WriteBlocked: a writer does not wait for the readers)
WriteBlockedByWriterOnly(l) == writer[l] # None

\* The wait condition of write_lock.
WriteBlocked(l) ==
  \/ writer[l] # None
  \/ \E u \in Thread : readers[l][u] > 0

\* The end of read_lock: one level less, and notify_all when nobody reads.
LeaveRead(l, t) ==
  /\ readers' = [readers EXCEPT ![l][t] = @ - 1]
  /\ asleep' = IF \A u \in Thread : readers'[l][u] = 0
               THEN [asleep EXCEPT ![l] = {}]
               ELSE asleep
  /\ UNCHANGED <<writer, pending>>

\* (mutant of LeaveWrite: the notify_all is missing)
LeaveWriteSilently(l, t) ==
  /\ writer' = [writer EXCEPT ![l] = None]
  /\ UNCHANGED <<readers, pending, asleep>>

\* The end of write_lock: always notify_all.
LeaveWrite(l, t) ==
  /\ writer' = [writer EXCEPT ![l] = None]
  /\ asleep' = [asleep EXCEPT ![l] = {}]
  /\ UNCHANGED <<readers, pending>>

Goto(t, label) == pc' = [pc EXCEPT ![t] = label]

\* One pass of read_lock by thread t: enter and go on, or sleep.
TakeRead(t, l, label) ==
  /\ t \notin asleep[l]
  /\ \/ /\ ReadBlocked(l, t)
        /\ asleep' = [asleep EXCEPT ![l] = @ \cup {t}]
        /\ UNCHANGED <<readers, pc>>
     \/ /\ ~ReadBlocked(l, t)
        /\ readers' = [readers EXCEPT ![l][t] = @ + 1]
        /\ Goto(t, label)
        /\ UNCHANGED asleep
  /\ UNCHANGED <<writer, pending, job>>

\* One pass of write_lock: the thread is counted as pending while it waits.
TakeWrite(t, l, label) ==
  /\ t \notin asleep[l]
  /\ \/ /\ WriteBlocked(l)
        /\ asleep' = [asleep EXCEPT ![l] = @ \cup {t}]
        /\ pending' = [pending EXCEPT ![l] = @ \cup {t}]
        /\ UNCHANGED <<writer, pc>>
     \/ /\ ~WriteBlocked(l)
        /\ writer' = [writer EXCEPT ![l] = t]
        /\ pending' = [pending EXCEPT ![l] = @ \ {t}]
        /\ Goto(t, label)
        /\ UNCHANGED asleep
  /\ UNCHANGED <<readers, job>>

-----------------------------------------------------------------------------
(* The operations.  A job holds its collections in the order in which it   *)
(* locks them; lo = hi when there is only one.                             *)

\* (mutant of InOrder: the locks are taken in the order of the arguments)
AsGiven(c, d) == <<c, d>>

InOrder(c, d) == IF Rank[c] < Rank[d] THEN <<c, d>> ELSE <<d, c>>

Kind == {"catalog", "read", "write", "archive"}
Job == [kind : Kind, lo : Coll, hi : Coll]
Label == {"idle", "state", "coll", "coll2", "body", "nest_state", "nest_coll",
          "nested", "nest_exit", "exit2", "exit1", "archive", "archiving"}

\* What an idle thread holds in place of a job.
NoJob == LET c == CHOOSE c \in Coll : TRUE
         IN [kind |-> "catalog", lo |-> c, hi |-> c]

\* After a release: on to the next release, or the request is over.
Leave(t, label) ==
  /\ Goto(t, label)
  /\ job' = IF label = "idle" THEN [job EXCEPT ![t] = NoJob] ELSE job

DropRead(t, l, label) == LeaveRead(l, t) /\ Leave(t, label)
DropWrite(t, l, label) == LeaveWrite(l, t) /\ Leave(t, label)

Init ==
  /\ readers = [l \in Lock |-> [t \in Thread |-> 0]]
  /\ writer = [l \in Lock |-> None]
  /\ pending = [l \in Lock |-> {}]
  /\ asleep = [l \in Lock |-> {}]
  /\ pc = [t \in Thread |-> "idle"]
  /\ job = [t \in Thread |-> NoJob]

\* A request reaches the store and a worker thread takes it up.
StartShared(t) ==
  /\ pc[t] = "idle"
  /\ \E kind \in {"catalog", "read", "write"}, c, d \in Coll :
       /\ kind # "write" => c = d
       /\ job' = [job EXCEPT ![t] = [kind |-> kind,
                                     lo |-> InOrder(c, d)[1],
                                     hi |-> InOrder(c, d)[2]]]
  /\ Goto(t, "state")
  /\ UNCHANGED lockVars

StartArchive(t) ==
  /\ pc[t] = "idle"
  /\ job' = [job EXCEPT ![t].kind = "archive"]
  /\ Goto(t, "archive")
  /\ UNCHANGED lockVars

\* with self._state_lock.read_lock(): in every operation but dump and restore
TakeState(t) ==
  /\ pc[t] = "state"
  /\ TakeRead(t, State, IF job[t].kind = "catalog" THEN "body" ELSE "coll")

\* The collection lock, or the first of the two of a rename.
TakeColl(t) ==
  /\ pc[t] = "coll"
  /\ \/ /\ job[t].kind = "read"
        /\ TakeRead(t, job[t].lo, "body")
     \/ /\ job[t].kind = "write"
        /\ TakeWrite(t, job[t].lo,
                     IF job[t].lo = job[t].hi THEN "body" ELSE "coll2")

TakeSecondColl(t) ==
  /\ pc[t] = "coll2"
  /\ TakeWrite(t, job[t].hi, "body")

\* A nested entry: _read_collection_db below a search, or
\* _with_catalog_retry below a mutation.
NestBegin(t) ==
  /\ pc[t] = "body"
  /\ job[t].kind \in {"read", "write"}
  /\ Goto(t, "nest_state")
  /\ UNCHANGED <<readers, writer, pending, asleep, job>>

NestState(t) ==
  /\ pc[t] = "nest_state"
  /\ TakeRead(t, State, IF job[t].kind = "read" THEN "nest_coll" ELSE "nested")

NestColl(t) ==
  /\ pc[t] = "nest_coll"
  /\ TakeRead(t, job[t].lo, "nested")

NestEnd(t) ==
  /\ pc[t] = "nested"
  /\ \/ job[t].kind = "read" /\ DropRead(t, job[t].lo, "nest_exit")
     \/ job[t].kind = "write" /\ DropRead(t, State, "body")

\* (mutant of NestExit: the collection is left twice, the state lock never)
NestExitWrongLock(t) ==
  /\ pc[t] = "nest_exit"
  /\ DropRead(t, job[t].lo, "body")

NestExit(t) ==
  /\ pc[t] = "nest_exit"
  /\ DropRead(t, State, "body")

\* The operation ends: locks are released in the reverse order.
Finish(t) ==
  /\ pc[t] = "body"
  /\ \/ job[t].kind = "catalog" /\ DropRead(t, State, "idle")
     \/ job[t].kind = "read" /\ DropRead(t, job[t].lo, "exit1")
     \/ /\ job[t].kind = "write"
        /\ DropWrite(t, job[t].hi,
                     IF job[t].lo = job[t].hi THEN "exit1" ELSE "exit2")

DropFirstColl(t) ==
  /\ pc[t] = "exit2"
  /\ DropWrite(t, job[t].lo, "exit1")

DropState(t) ==
  /\ pc[t] = "exit1"
  /\ DropRead(t, State, "idle")

\* with self._state_lock.write_lock(): in dump_archive and restore_archive
TakeWhole(t) ==
  /\ pc[t] = "archive"
  /\ TakeWrite(t, State, "archiving")

DropWhole(t) ==
  /\ pc[t] = "archiving"
  /\ DropWrite(t, State, "idle")

\* What a thread does once it has a request; a new request may never come.
Continue(t) ==
  \/ TakeState(t) \/ TakeColl(t) \/ TakeSecondColl(t)
  \/ NestBegin(t) \/ NestState(t) \/ NestColl(t) \/ NestEnd(t) \/ NestExit(t)
  \/ Finish(t) \/ DropFirstColl(t) \/ DropState(t)
  \/ TakeWhole(t) \/ DropWhole(t)

Next == \E t \in Thread : StartShared(t) \/ StartArchive(t) \/ Continue(t)

Spec == Init /\ [][Next]_vars

\* A thread that can take its next step is scheduled in the end, and an
\* operation nests only finitely often: from its body it does finish.
Fairness ==
  \A t \in Thread : WF_vars(Continue(t)) /\ SF_vars(Finish(t))

FairSpec == Spec /\ Fairness

-----------------------------------------------------------------------------
(* Properties.                                                             *)

TypeOK ==
  /\ readers \in [Lock -> [Thread -> Nat]]
  /\ writer \in [Lock -> Thread \cup {None}]
  /\ pending \in [Lock -> SUBSET Thread]
  /\ asleep \in [Lock -> SUBSET Thread]
  /\ pc \in [Thread -> Label]
  /\ job \in [Thread -> Job]

\* The lock a thread is about to take, and whether for reading.
WantsRead(t, l) ==
  \/ pc[t] \in {"state", "nest_state"} /\ l = State
  \/ pc[t] = "coll" /\ job[t].kind = "read" /\ l = job[t].lo
  \/ pc[t] = "nest_coll" /\ l = job[t].lo
WantsWrite(t, l) ==
  \/ pc[t] = "coll" /\ job[t].kind = "write" /\ l = job[t].lo
  \/ pc[t] = "coll2" /\ l = job[t].hi
  \/ pc[t] = "archive" /\ l = State

\* No wake-up is lost: whoever sleeps on a lock would sleep again if it were
\* woken, so a release that frees a thread always notifies it.
NoLostWakeup ==
  \A l \in Lock : \A t \in asleep[l] :
    \/ WantsRead(t, l) /\ ReadBlocked(l, t)
    \/ WantsWrite(t, l) /\ WriteBlocked(l)

\* No deadlock anywhere in the lattice: while some operation is under way,
\* some thread with an operation can take a step, whatever the idle threads
\* do. Opposing renames, a reader that nests below a queued writer and a dump
\* queued behind all of them are the cases the code was written for.
NoGridlock ==
  (\E t \in Thread : pc[t] # "idle") =>
    \E t \in Thread : pc[t] # "idle" /\ \A l \in Lock : t \notin asleep[l]

\* A queued writer is not overtaken for ever by readers: some writer of that
\* lock gets in (writer priority, _pending_writers).
WriterProgress ==
  \A l \in Lock : pending[l] # {} ~> writer[l] # None

\* The access the locks a thread holds amount to.
Inside == {"body", "nest_state", "nest_coll", "nested", "nest_exit"}
View(t) ==
  CASE pc[t] = "archiving" -> [mode |-> "all", colls |-> {}]
    [] pc[t] \in Inside /\ job[t].kind = "catalog" ->
         [mode |-> "read", colls |-> {}]
    [] pc[t] \in Inside /\ job[t].kind # "catalog" ->
         [mode |-> job[t].kind, colls |-> {job[t].lo, job[t].hi}]
    [] OTHER -> [mode |-> "free", colls |-> {}]

A == INSTANCE Access WITH access <- [t \in Thread |-> View(t)]

\* The lattice implements Access: locks taken one by one, with sleeping and
\* waking, give the accesses that Access grants in one step.
GrantsAccess == A!AccessSpec
=============================================================================
