------------------------- MODULE LockLatticeProofs -------------------------
(***************************************************************************)
(* Proofs about LockLattice, for any set of threads and collections and    *)
(* any order of the lock ids.                                              *)
(*                                                                         *)
(* The inductive invariant Inv ties the state of each lock to where the    *)
(* threads are: a thread's depth in _readers and the lock's writer are     *)
(* functions of the program counters, a lock with a writer has no readers  *)
(* (WriterAlone), and a sleeping or pending thread stands at the lock it   *)
(* sleeps on (Sleepers).                                                   *)
(***************************************************************************)
EXTENDS LockLattice, WellFoundedInduction, TLAPS

\* Which kinds of operation can be where, and that a rename locks its two
\* collections in the order of the lock ids.
Shape(t) ==
  /\ pc[t] \in {"state", "body"} => job[t].kind # "archive"
  /\ pc[t] \in {"coll", "nest_state", "nested", "exit1"} =>
       job[t].kind \in {"read", "write"}
  /\ pc[t] \in {"nest_coll", "nest_exit"} => job[t].kind = "read"
  /\ pc[t] \in {"coll2", "exit2"} => job[t].kind = "write" /\ job[t].lo # job[t].hi
  /\ pc[t] \in {"archive", "archiving"} => job[t].kind = "archive"
  /\ job[t].kind = "read" => job[t].lo = job[t].hi
  /\ job[t].lo = job[t].hi \/ Rank[job[t].lo] < Rank[job[t].hi]

StateDepth(t) ==
  IF pc[t] \in {"idle", "state", "archive", "archiving"} THEN 0
  ELSE IF pc[t] \in {"nest_coll", "nested", "nest_exit"} THEN 2
  ELSE 1

CollDepth(t, c) ==
  IF job[t].kind # "read" \/ job[t].lo # c THEN 0
  ELSE IF pc[t] \in {"body", "nest_state", "nest_coll", "nest_exit"} THEN 1
  ELSE IF pc[t] = "nested" THEN 2
  ELSE 0

WritesColl(t, c) ==
  /\ job[t].kind = "write"
  /\ \/ c = job[t].lo /\ pc[t] \in {"coll2", "body", "nest_state", "nested", "exit2"}
     \/ c = job[t].hi /\ pc[t] \in {"body", "nest_state", "nested"}

HeldState == \A t \in Thread : readers[State][t] = StateDepth(t)
HeldColl == \A c \in Coll, t \in Thread : readers[c][t] = CollDepth(t, c)
WriterState == \A t \in Thread : writer[State] = t <=> pc[t] = "archiving"
WriterColl == \A c \in Coll, t \in Thread : writer[c] = t <=> WritesColl(t, c)

WriterAlone ==
  \A l \in Lock : writer[l] # None => \A u \in Thread : readers[l][u] = 0

Sleepers ==
  \A l \in Lock :
    /\ \A t \in asleep[l] : WantsRead(t, l) \/ WantsWrite(t, l)
    /\ \A t \in pending[l] : WantsWrite(t, l)

Inv ==
  /\ TypeOK
  /\ \A t \in Thread : Shape(t)
  /\ HeldState /\ HeldColl
  /\ WriterState /\ WriterColl
  /\ WriterAlone
  /\ Sleepers
  /\ NoLostWakeup

-----------------------------------------------------------------------------
\* The placeholder of an idle thread is a well-formed job.
LEMMA NoJobIsJob == NoJob \in Job /\ NoJob.kind = "catalog" /\ NoJob.lo = NoJob.hi
  BY LatticeAssumption DEF NoJob, Job, Kind

\* The invariant holds initially.
LEMMA InitInv == Init => Inv
<1> SUFFICES ASSUME Init PROVE Inv
  OBVIOUS
<1> USE LatticeAssumption, NoJobIsJob
<1>1. TypeOK
  BY DEF Init, TypeOK, Lock, Label
<1>2. \A t \in Thread : Shape(t)
  BY DEF Init, Shape
<1>3. HeldState /\ HeldColl
  BY DEF Init, HeldState, HeldColl, StateDepth, CollDepth, Lock
<1>4. WriterState /\ WriterColl
  BY DEF Init, WriterState, WriterColl, WritesColl, Lock
<1>5. WriterAlone /\ Sleepers /\ NoLostWakeup
  BY DEF Init, WriterAlone, Sleepers, NoLostWakeup, Lock
<1>6. QED BY <1>1, <1>2, <1>3, <1>4, <1>5 DEF Inv

-----------------------------------------------------------------------------
\* A thread tests a lock for reading and goes to sleep: only that changes.
LEMMA SleepRead ==
  ASSUME Inv, NEW t \in Thread, NEW l \in Lock, WantsRead(t, l),
         ReadBlocked(l, t),
         asleep' = [asleep EXCEPT ![l] = @ \cup {t}],
         UNCHANGED <<readers, writer, pending, pc, job>>
  PROVE  Inv'
<1>1. TypeOK'
  BY DEF Inv, TypeOK
<1>2. (\A u \in Thread : Shape(u))' /\ HeldState' /\ HeldColl'
  BY DEF Inv, Shape, HeldState, HeldColl, StateDepth, CollDepth
<1>3. WriterState' /\ WriterColl' /\ WriterAlone'
  BY DEF Inv, WriterState, WriterColl, WritesColl, WriterAlone
<1>4. Sleepers' /\ NoLostWakeup'
  BY DEF Inv, TypeOK, Sleepers, NoLostWakeup, WantsRead, WantsWrite,
         ReadBlocked, WriteBlocked
<1>5. QED BY <1>1, <1>2, <1>3, <1>4 DEF Inv

\* The same for writing; the thread is counted as pending as well.
LEMMA SleepWrite ==
  ASSUME Inv, NEW t \in Thread, NEW l \in Lock, WantsWrite(t, l),
         WriteBlocked(l),
         asleep' = [asleep EXCEPT ![l] = @ \cup {t}],
         pending' = [pending EXCEPT ![l] = @ \cup {t}],
         UNCHANGED <<readers, writer, pc, job>>
  PROVE  Inv'
<1>1. TypeOK'
  BY DEF Inv, TypeOK
<1>2. (\A u \in Thread : Shape(u))' /\ HeldState' /\ HeldColl'
  BY DEF Inv, Shape, HeldState, HeldColl, StateDepth, CollDepth
<1>3. WriterState' /\ WriterColl' /\ WriterAlone'
  BY DEF Inv, WriterState, WriterColl, WritesColl, WriterAlone
<1>4. Sleepers'
  BY DEF Inv, TypeOK, Sleepers, WantsRead, WantsWrite
<1>5. NoLostWakeup'
  BY DEF Inv, TypeOK, NoLostWakeup, WantsRead, WantsWrite,
         ReadBlocked, WriteBlocked
<1>6. QED BY <1>1, <1>2, <1>3, <1>4, <1>5 DEF Inv

-----------------------------------------------------------------------------
(* What each way of passing a lock does to the parts of Inv that do not    *)
(* depend on where the thread goes next.                                   *)

LockParts == WriterAlone /\ Sleepers /\ NoLostWakeup

\* Where the other threads stand does not change, and neither does t sleep or
\* wait anywhere.
Steps(t, label, j) ==
  /\ pc' = [pc EXCEPT ![t] = label]
  /\ job' = [job EXCEPT ![t] = j]
Awake(t) == \A m \in Lock : t \notin asleep[m]
NotPending(t) == \A m \in Lock : t \notin pending[m]

\* A step of t leaves what every other thread waits for as it was.
LEMMA OthersWait ==
  ASSUME TypeOK, NEW t \in Thread, NEW label, NEW j, Steps(t, label, j)
  PROVE  \A u \in Thread \ {t}, m \in Lock :
           /\ WantsRead(u, m)' = WantsRead(u, m)
           /\ WantsWrite(u, m)' = WantsWrite(u, m)
  BY DEF Steps, TypeOK, WantsRead, WantsWrite

\* A step that touches no lock keeps the lock parts of the invariant.
LEMMA Moves ==
  ASSUME Inv, NEW t \in Thread, NEW label, NEW j, Steps(t, label, j),
         Awake(t), NotPending(t),
         UNCHANGED lockVars
  PROVE  LockParts'
<1>1. WriterAlone'
  BY DEF Inv, WriterAlone, lockVars
<1>2. \A u \in Thread \ {t}, m \in Lock :
        /\ ReadBlocked(m, u)' = ReadBlocked(m, u)
        /\ WriteBlocked(m)' = WriteBlocked(m)
  BY DEF ReadBlocked, WriteBlocked, lockVars
<1>3. \A m \in Lock :
        asleep[m] \subseteq Thread \ {t} /\ pending[m] \subseteq Thread \ {t}
  BY DEF Inv, TypeOK, Awake, NotPending
<1>4. Sleepers' /\ NoLostWakeup'
  BY <1>2, <1>3, OthersWait DEF Inv, Sleepers, NoLostWakeup, lockVars
<1>5. QED BY <1>1, <1>4 DEF LockParts

\* Entering a lock for reading keeps them.
LEMMA EnterRead ==
  ASSUME Inv, NEW t \in Thread, NEW l \in Lock, NEW label, NEW j,
         Steps(t, label, j), Awake(t), NotPending(t),
         ~ReadBlocked(l, t), writer[l] # t,
         readers' = [readers EXCEPT ![l][t] = @ + 1],
         UNCHANGED <<writer, pending, asleep>>
  PROVE  LockParts'
<1>1. WriterAlone'
  BY DEF Inv, TypeOK, WriterAlone, ReadBlocked
<1>2. \A u \in Thread \ {t}, m \in Lock :
        /\ ReadBlocked(m, u)' = ReadBlocked(m, u)
        /\ WriteBlocked(m) => WriteBlocked(m)'
  BY DEF Inv, TypeOK, ReadBlocked, WriteBlocked
<1>3. \A m \in Lock :
        asleep[m] \subseteq Thread \ {t} /\ pending[m] \subseteq Thread \ {t}
  BY DEF Inv, TypeOK, Awake, NotPending
<1>4. Sleepers' /\ NoLostWakeup'
  BY <1>2, <1>3, OthersWait DEF Inv, Sleepers, NoLostWakeup
<1>5. QED BY <1>1, <1>4 DEF LockParts

\* Entering a lock for writing keeps them.
LEMMA EnterWrite ==
  ASSUME Inv, NEW t \in Thread, NEW l \in Lock, NEW label, NEW j,
         Steps(t, label, j), Awake(t),
         \A m \in Lock \ {l} : t \notin pending[m],
         ~WriteBlocked(l),
         writer' = [writer EXCEPT ![l] = t],
         pending' = [pending EXCEPT ![l] = @ \ {t}],
         UNCHANGED <<readers, asleep>>
  PROVE  LockParts'
<1>1. WriterAlone'
  BY DEF Inv, TypeOK, WriterAlone, WriteBlocked
<1>2. \A u \in Thread \ {t}, m \in Lock :
        /\ ReadBlocked(m, u) => ReadBlocked(m, u)'
        /\ WriteBlocked(m) => WriteBlocked(m)'
  BY LatticeAssumption DEF Inv, TypeOK, ReadBlocked, WriteBlocked
<1>3. \A m \in Lock :
        asleep[m] \subseteq Thread \ {t} /\ pending'[m] \subseteq Thread \ {t}
  BY DEF Inv, TypeOK, Awake
<1>4. Sleepers' /\ NoLostWakeup'
  BY <1>2, <1>3, OthersWait DEF Inv, TypeOK, Sleepers, NoLostWakeup
<1>5. QED BY <1>1, <1>4 DEF LockParts

\* Leaving a read side keeps them: the last reader wakes everybody.
LEMMA LeavesRead ==
  ASSUME Inv, NEW t \in Thread, NEW l \in Lock, NEW label, NEW j,
         Steps(t, label, j), Awake(t), NotPending(t),
         readers[l][t] > 0, LeaveRead(l, t)
  PROVE  LockParts'
<1>1. WriterAlone'
  BY DEF Inv, TypeOK, WriterAlone, LeaveRead
<1>2. \A u \in Thread \ {t}, m \in Lock :
        ReadBlocked(m, u)' = ReadBlocked(m, u)
  BY DEF Inv, TypeOK, ReadBlocked, LeaveRead
<1>3. \A m \in Lock : WriteBlocked(m) => WriteBlocked(m)' \/ asleep'[m] = {}
  BY DEF Inv, TypeOK, WriteBlocked, LeaveRead
<1>4. \A m \in Lock :
        /\ asleep[m] \subseteq Thread \ {t} /\ pending[m] \subseteq Thread \ {t}
        /\ asleep'[m] \subseteq asleep[m]
  BY DEF Inv, TypeOK, Awake, NotPending, LeaveRead
<1>5. Sleepers' /\ NoLostWakeup'
  BY <1>2, <1>3, <1>4, OthersWait DEF Inv, Sleepers, NoLostWakeup, LeaveRead
<1>6. QED BY <1>1, <1>5 DEF LockParts

\* Leaving a write side keeps them: everybody is woken.
LEMMA LeavesWrite ==
  ASSUME Inv, NEW t \in Thread, NEW l \in Lock, NEW label, NEW j,
         Steps(t, label, j), Awake(t), NotPending(t),
         LeaveWrite(l, t)
  PROVE  LockParts'
<1>1. WriterAlone'
  BY DEF Inv, TypeOK, WriterAlone, LeaveWrite
<1>2. \A u \in Thread \ {t}, m \in Lock \ {l} :
        /\ ReadBlocked(m, u)' = ReadBlocked(m, u)
        /\ WriteBlocked(m)' = WriteBlocked(m)
        /\ asleep'[m] = asleep[m]
  BY DEF Inv, TypeOK, ReadBlocked, WriteBlocked, LeaveWrite
<1>3. asleep'[l] = {}
  BY DEF Inv, TypeOK, LeaveWrite
<1>4. \A m \in Lock :
        /\ asleep[m] \subseteq Thread \ {t} /\ pending[m] \subseteq Thread \ {t}
        /\ asleep'[m] \subseteq asleep[m]
  BY DEF Inv, TypeOK, Awake, NotPending, LeaveWrite
<1>5. Sleepers' /\ NoLostWakeup'
  BY <1>2, <1>3, <1>4, OthersWait DEF Inv, Sleepers, NoLostWakeup, LeaveWrite
<1>6. QED BY <1>1, <1>5 DEF LockParts

-----------------------------------------------------------------------------
\* A thread sleeps only at the lock it wants, so one that wants none, or is
\* not asleep at that one, sleeps nowhere.
LEMMA AwakeIf ==
  ASSUME Inv, NEW t \in Thread,
         \A l \in Lock : WantsRead(t, l) \/ WantsWrite(t, l) => t \notin asleep[l]
  PROVE  Awake(t)
  BY DEF Inv, Sleepers, Awake

\* A thread that wants no lock for writing is counted as pending nowhere.
LEMMA NotPendingIf ==
  ASSUME Inv, NEW t \in Thread, \A l \in Lock : ~WantsWrite(t, l)
  PROVE  NotPending(t)
  BY DEF Inv, Sleepers, NotPending

\* An operation other than dump and restore passes the state lock, or sleeps.
LEMMA TakeStateInv ==
  ASSUME Inv, NEW t \in Thread, pc[t] = "state",
         TakeRead(t, State, IF job[t].kind = "catalog" THEN "body" ELSE "coll")
  PROVE  Inv'
<1> USE LatticeAssumption
<1> DEFINE next == IF job[t].kind = "catalog" THEN "body" ELSE "coll"
<1>1. State \in Lock /\ WantsRead(t, State) /\ t \notin asleep[State]
  BY DEF TakeRead, WantsRead, Lock, Inv, TypeOK, Shape, Job
<1>2. CASE ReadBlocked(State, t)
  BY <1>1, <1>2, SleepRead DEF TakeRead
<1>3. CASE ~ReadBlocked(State, t)
  <2>1. /\ pc' = [pc EXCEPT ![t] = next]
        /\ readers' = [readers EXCEPT ![State][t] = @ + 1]
        /\ UNCHANGED <<writer, pending, asleep, job>>
    BY <1>3 DEF TakeRead, Goto
  <2>2. TypeOK'
    BY <1>1, <2>1 DEF Inv, TypeOK, Label, Lock
  <2>3. (\A u \in Thread : Shape(u))'
    BY <1>1, <2>1 DEF Inv, TypeOK, Shape, Job, Kind
  <2>4. HeldState' /\ HeldColl'
    BY <1>1, <2>1 DEF Inv, TypeOK, Shape, HeldState, HeldColl, StateDepth, CollDepth,
       Lock, Job, Kind
  <2>5. WriterState' /\ WriterColl'
    BY <1>1, <2>1 DEF Inv, TypeOK, Shape, WriterState, WriterColl, WritesColl, Lock,
       Job, Kind
  <2>6. Steps(t, next, job[t]) /\ Awake(t)
    BY <1>1, <2>1, AwakeIf DEF Inv, TypeOK, Steps, WantsRead, WantsWrite
  <2>7. NotPending(t) /\ writer[State] # t
    BY NotPendingIf DEF Inv, TypeOK, Sleepers, WantsWrite, Shape, Lock,
       WriterState, WriterColl, WritesColl, Job
  <2>8. LockParts'
    BY <1>1, <1>3, <2>1, <2>6, <2>7, EnterRead
  <2>9. QED BY <2>2, <2>3, <2>4, <2>5, <2>8 DEF Inv, LockParts
<1>4. QED BY <1>2, <1>3

\* A read passes its collection lock, or sleeps.
LEMMA TakeCollReadInv ==
  ASSUME Inv, NEW t \in Thread, pc[t] = "coll", job[t].kind = "read",
         TakeRead(t, job[t].lo, "body")
  PROVE  Inv'
<1> USE LatticeAssumption
<1> DEFINE next == "body"
<1>1. job[t].lo \in Lock /\ WantsRead(t, job[t].lo) /\ t \notin asleep[job[t].lo]
  BY DEF TakeRead, WantsRead, Lock, Inv, TypeOK, Shape, Job
<1>2. CASE ReadBlocked(job[t].lo, t)
  BY <1>1, <1>2, SleepRead DEF TakeRead
<1>3. CASE ~ReadBlocked(job[t].lo, t)
  <2>1. /\ pc' = [pc EXCEPT ![t] = next]
        /\ readers' = [readers EXCEPT ![job[t].lo][t] = @ + 1]
        /\ UNCHANGED <<writer, pending, asleep, job>>
    BY <1>3 DEF TakeRead, Goto
  <2>2. TypeOK'
    BY <1>1, <2>1 DEF Inv, TypeOK, Label, Lock
  <2>3. (\A u \in Thread : Shape(u))'
    BY <1>1, <2>1 DEF Inv, TypeOK, Shape, Job, Kind
  <2>4. HeldState' /\ HeldColl'
    BY <1>1, <2>1 DEF Inv, TypeOK, Shape, HeldState, HeldColl, StateDepth, CollDepth,
       Lock, Job, Kind
  <2>5. WriterState' /\ WriterColl'
    BY <1>1, <2>1 DEF Inv, TypeOK, Shape, WriterState, WriterColl, WritesColl, Lock,
       Job, Kind
  <2>6. Steps(t, next, job[t]) /\ Awake(t)
    BY <1>1, <2>1, AwakeIf DEF Inv, TypeOK, Steps, WantsRead, WantsWrite
  <2>7. NotPending(t) /\ writer[job[t].lo] # t
    BY NotPendingIf DEF Inv, TypeOK, Sleepers, WantsWrite, Shape, Lock,
       WriterState, WriterColl, WritesColl, Job
  <2>8. LockParts'
    BY <1>1, <1>3, <2>1, <2>6, <2>7, EnterRead
  <2>9. QED BY <2>2, <2>3, <2>4, <2>5, <2>8 DEF Inv, LockParts
<1>4. QED BY <1>2, <1>3

\* A write passes its first collection lock, or sleeps.
LEMMA TakeCollWriteInv ==
  ASSUME Inv, NEW t \in Thread, pc[t] = "coll", job[t].kind = "write",
         TakeWrite(t, job[t].lo, IF job[t].lo = job[t].hi THEN "body" ELSE "coll2")
  PROVE  Inv'
<1> USE LatticeAssumption
<1> DEFINE next == IF job[t].lo = job[t].hi THEN "body" ELSE "coll2"
<1>1. job[t].lo \in Lock /\ WantsWrite(t, job[t].lo) /\ t \notin asleep[job[t].lo]
  BY DEF TakeWrite, WantsWrite, Lock, Inv, TypeOK, Shape, Job
<1>2. CASE WriteBlocked(job[t].lo)
  BY <1>1, <1>2, SleepWrite DEF TakeWrite
<1>3. CASE ~WriteBlocked(job[t].lo)
  <2>1. /\ pc' = [pc EXCEPT ![t] = next]
        /\ writer' = [writer EXCEPT ![job[t].lo] = t]
        /\ pending' = [pending EXCEPT ![job[t].lo] = @ \ {t}]
        /\ UNCHANGED <<readers, asleep, job>>
    BY <1>3 DEF TakeWrite, Goto
  <2>2. TypeOK'
    BY <1>1, <2>1 DEF Inv, TypeOK, Label, Lock
  <2>3. (\A u \in Thread : Shape(u))'
    BY <1>1, <2>1 DEF Inv, TypeOK, Shape, Job, Kind
  <2>4. HeldState' /\ HeldColl'
    BY <1>1, <2>1 DEF Inv, TypeOK, Shape, HeldState, HeldColl, StateDepth, CollDepth,
       Lock, Job, Kind
  <2>5. WriterState' /\ WriterColl'
    BY <1>1, <1>3, <2>1 DEF Inv, TypeOK, Shape, WriterState, WriterColl, WritesColl,
       WriteBlocked, Lock, Job, Kind
  <2>6. Steps(t, next, job[t]) /\ Awake(t)
    BY <1>1, <2>1, AwakeIf DEF Inv, TypeOK, Steps, WantsRead, WantsWrite
  <2>7. \A m \in Lock \ {job[t].lo} : t \notin pending[m]
    BY NotPendingIf DEF Inv, TypeOK, Sleepers, WantsWrite, Shape, Lock,
       WriterState, WriterColl, WritesColl, Job
  <2>8. LockParts'
    BY <1>1, <1>3, <2>1, <2>6, <2>7, EnterWrite
  <2>9. QED BY <2>2, <2>3, <2>4, <2>5, <2>8 DEF Inv, LockParts
<1>4. QED BY <1>2, <1>3

\* A rename passes its second collection lock, or sleeps.
LEMMA TakeSecondCollInv ==
  ASSUME Inv, NEW t \in Thread, pc[t] = "coll2",
         TakeWrite(t, job[t].hi, "body")
  PROVE  Inv'
<1> USE LatticeAssumption
<1> DEFINE next == "body"
<1>1. job[t].hi \in Lock /\ WantsWrite(t, job[t].hi) /\ t \notin asleep[job[t].hi]
  BY DEF TakeWrite, WantsWrite, Lock, Inv, TypeOK, Shape, Job
<1>2. CASE WriteBlocked(job[t].hi)
  BY <1>1, <1>2, SleepWrite DEF TakeWrite
<1>3. CASE ~WriteBlocked(job[t].hi)
  <2>1. /\ pc' = [pc EXCEPT ![t] = next]
        /\ writer' = [writer EXCEPT ![job[t].hi] = t]
        /\ pending' = [pending EXCEPT ![job[t].hi] = @ \ {t}]
        /\ UNCHANGED <<readers, asleep, job>>
    BY <1>3 DEF TakeWrite, Goto
  <2>2. TypeOK'
    BY <1>1, <2>1 DEF Inv, TypeOK, Label, Lock
  <2>3. (\A u \in Thread : Shape(u))'
    BY <1>1, <2>1 DEF Inv, TypeOK, Shape, Job, Kind
  <2>4. HeldState' /\ HeldColl'
    BY <1>1, <2>1 DEF Inv, TypeOK, Shape, HeldState, HeldColl, StateDepth, CollDepth,
       Lock, Job, Kind
  <2>5. WriterState' /\ WriterColl'
    BY <1>1, <1>3, <2>1 DEF Inv, TypeOK, Shape, WriterState, WriterColl, WritesColl,
       WriteBlocked, Lock, Job, Kind
  <2>6. Steps(t, next, job[t]) /\ Awake(t)
    BY <1>1, <2>1, AwakeIf DEF Inv, TypeOK, Steps, WantsRead, WantsWrite
  <2>7. \A m \in Lock \ {job[t].hi} : t \notin pending[m]
    BY NotPendingIf DEF Inv, TypeOK, Sleepers, WantsWrite, Shape, Lock,
       WriterState, WriterColl, WritesColl, Job
  <2>8. LockParts'
    BY <1>1, <1>3, <2>1, <2>6, <2>7, EnterWrite
  <2>9. QED BY <2>2, <2>3, <2>4, <2>5, <2>8 DEF Inv, LockParts
<1>4. QED BY <1>2, <1>3

\* A nested entry passes the state lock again.
LEMMA NestStateInv ==
  ASSUME Inv, NEW t \in Thread, pc[t] = "nest_state",
         TakeRead(t, State, IF job[t].kind = "read" THEN "nest_coll" ELSE "nested")
  PROVE  Inv'
<1> USE LatticeAssumption
<1> DEFINE next == IF job[t].kind = "read" THEN "nest_coll" ELSE "nested"
<1>1. State \in Lock /\ WantsRead(t, State) /\ t \notin asleep[State]
  BY DEF TakeRead, WantsRead, Lock, Inv, TypeOK, Shape, Job
<1>2. CASE ReadBlocked(State, t)
  BY <1>1, <1>2, SleepRead DEF TakeRead
<1>3. CASE ~ReadBlocked(State, t)
  <2>1. /\ pc' = [pc EXCEPT ![t] = next]
        /\ readers' = [readers EXCEPT ![State][t] = @ + 1]
        /\ UNCHANGED <<writer, pending, asleep, job>>
    BY <1>3 DEF TakeRead, Goto
  <2>2. TypeOK'
    BY <1>1, <2>1 DEF Inv, TypeOK, Label, Lock
  <2>3. (\A u \in Thread : Shape(u))'
    BY <1>1, <2>1 DEF Inv, TypeOK, Shape, Job, Kind
  <2>4. HeldState' /\ HeldColl'
    BY <1>1, <2>1 DEF Inv, TypeOK, Shape, HeldState, HeldColl, StateDepth, CollDepth,
       Lock, Job, Kind
  <2>5. WriterState' /\ WriterColl'
    BY <1>1, <2>1 DEF Inv, TypeOK, Shape, WriterState, WriterColl, WritesColl, Lock,
       Job, Kind
  <2>6. Steps(t, next, job[t]) /\ Awake(t)
    BY <1>1, <2>1, AwakeIf DEF Inv, TypeOK, Steps, WantsRead, WantsWrite
  <2>7. NotPending(t) /\ writer[State] # t
    BY NotPendingIf DEF Inv, TypeOK, Sleepers, WantsWrite, Shape, Lock,
       WriterState, WriterColl, WritesColl, Job
  <2>8. LockParts'
    BY <1>1, <1>3, <2>1, <2>6, <2>7, EnterRead
  <2>9. QED BY <2>2, <2>3, <2>4, <2>5, <2>8 DEF Inv, LockParts
<1>4. QED BY <1>2, <1>3

\* A nested read passes its collection lock again.
LEMMA NestCollInv ==
  ASSUME Inv, NEW t \in Thread, pc[t] = "nest_coll",
         TakeRead(t, job[t].lo, "nested")
  PROVE  Inv'
<1> USE LatticeAssumption
<1> DEFINE next == "nested"
<1>1. job[t].lo \in Lock /\ WantsRead(t, job[t].lo) /\ t \notin asleep[job[t].lo]
  BY DEF TakeRead, WantsRead, Lock, Inv, TypeOK, Shape, Job
<1>2. CASE ReadBlocked(job[t].lo, t)
  BY <1>1, <1>2, SleepRead DEF TakeRead
<1>3. CASE ~ReadBlocked(job[t].lo, t)
  <2>1. /\ pc' = [pc EXCEPT ![t] = next]
        /\ readers' = [readers EXCEPT ![job[t].lo][t] = @ + 1]
        /\ UNCHANGED <<writer, pending, asleep, job>>
    BY <1>3 DEF TakeRead, Goto
  <2>2. TypeOK'
    BY <1>1, <2>1 DEF Inv, TypeOK, Label, Lock
  <2>3. (\A u \in Thread : Shape(u))'
    BY <1>1, <2>1 DEF Inv, TypeOK, Shape, Job, Kind
  <2>4. HeldState' /\ HeldColl'
    BY <1>1, <2>1 DEF Inv, TypeOK, Shape, HeldState, HeldColl, StateDepth, CollDepth,
       Lock, Job, Kind
  <2>5. WriterState' /\ WriterColl'
    BY <1>1, <2>1 DEF Inv, TypeOK, Shape, WriterState, WriterColl, WritesColl, Lock,
       Job, Kind
  <2>6. Steps(t, next, job[t]) /\ Awake(t)
    BY <1>1, <2>1, AwakeIf DEF Inv, TypeOK, Steps, WantsRead, WantsWrite
  <2>7. NotPending(t) /\ writer[job[t].lo] # t
    BY NotPendingIf DEF Inv, TypeOK, Sleepers, WantsWrite, Shape, Lock,
       WriterState, WriterColl, WritesColl, Job
  <2>8. LockParts'
    BY <1>1, <1>3, <2>1, <2>6, <2>7, EnterRead
  <2>9. QED BY <2>2, <2>3, <2>4, <2>5, <2>8 DEF Inv, LockParts
<1>4. QED BY <1>2, <1>3

\* A dump or a restore gets the whole store, or sleeps.
LEMMA TakeWholeInv ==
  ASSUME Inv, NEW t \in Thread, pc[t] = "archive",
         TakeWrite(t, State, "archiving")
  PROVE  Inv'
<1> USE LatticeAssumption
<1> DEFINE next == "archiving"
<1>1. State \in Lock /\ WantsWrite(t, State) /\ t \notin asleep[State]
  BY DEF TakeWrite, WantsWrite, Lock, Inv, TypeOK, Shape, Job
<1>2. CASE WriteBlocked(State)
  BY <1>1, <1>2, SleepWrite DEF TakeWrite
<1>3. CASE ~WriteBlocked(State)
  <2>1. /\ pc' = [pc EXCEPT ![t] = next]
        /\ writer' = [writer EXCEPT ![State] = t]
        /\ pending' = [pending EXCEPT ![State] = @ \ {t}]
        /\ UNCHANGED <<readers, asleep, job>>
    BY <1>3 DEF TakeWrite, Goto
  <2>2. TypeOK'
    BY <1>1, <2>1 DEF Inv, TypeOK, Label, Lock
  <2>3. (\A u \in Thread : Shape(u))'
    BY <1>1, <2>1 DEF Inv, TypeOK, Shape, Job, Kind
  <2>4. HeldState' /\ HeldColl'
    BY <1>1, <2>1 DEF Inv, TypeOK, Shape, HeldState, HeldColl, StateDepth, CollDepth,
       Lock, Job, Kind
  <2>5. WriterState' /\ WriterColl'
    BY <1>1, <1>3, <2>1 DEF Inv, TypeOK, Shape, WriterState, WriterColl, WritesColl,
       WriteBlocked, Lock, Job, Kind
  <2>6. Steps(t, next, job[t]) /\ Awake(t)
    BY <1>1, <2>1, AwakeIf DEF Inv, TypeOK, Steps, WantsRead, WantsWrite
  <2>7. \A m \in Lock \ {State} : t \notin pending[m]
    BY NotPendingIf DEF Inv, TypeOK, Sleepers, WantsWrite, Shape, Lock,
       WriterState, WriterColl, WritesColl, Job
  <2>8. LockParts'
    BY <1>1, <1>3, <2>1, <2>6, <2>7, EnterWrite
  <2>9. QED BY <2>2, <2>3, <2>4, <2>5, <2>8 DEF Inv, LockParts
<1>4. QED BY <1>2, <1>3

\* A nested read leaves the collection lock.
LEMMA NestEndReadInv ==
  ASSUME Inv, NEW t \in Thread, pc[t] = "nested", job[t].kind = "read",
         DropRead(t, job[t].lo, "nest_exit")
  PROVE  Inv'
<1> USE LatticeAssumption, NoJobIsJob
<1> DEFINE next == "nest_exit"
<1> DEFINE newJob == job[t]
<1>1. /\ Steps(t, next, newJob) /\ job[t].lo \in Lock
      /\ readers' = [readers EXCEPT ![job[t].lo][t] = @ - 1]
      /\ UNCHANGED <<writer, pending>>
      /\ asleep' \in [Lock -> SUBSET Thread]
  BY DEF DropRead, LeaveRead, Leave, Goto, Steps, Inv, TypeOK, Lock, Job, Kind, Shape
<1>2. readers[job[t].lo][t] > 0
  <2>1. CollDepth(t, job[t].lo) = 2
    BY DEF CollDepth
  <2>2. QED BY <2>1 DEF Inv, HeldColl, TypeOK, Job
<1>3. TypeOK'
  BY <1>1, <1>2 DEF Steps, Inv, TypeOK, Label, Lock
<1>4. (\A u \in Thread : Shape(u))'
  BY <1>1 DEF Steps, Inv, TypeOK, Shape, Job, Kind
<1>5. HeldState' /\ HeldColl'
  BY <1>1 DEF Steps, Inv, TypeOK, Shape, HeldState, HeldColl, StateDepth, CollDepth,
     Lock, Job, Kind
<1>6. WriterState' /\ WriterColl'
  BY <1>1 DEF Steps, Inv, TypeOK, Shape, WriterState, WriterColl, WritesColl, Lock,
     Job, Kind
<1>7. Awake(t) /\ NotPending(t)
  BY AwakeIf, NotPendingIf DEF WantsRead, WantsWrite
<1>8. LockParts'
  BY <1>1, <1>2, <1>7, LeavesRead DEF DropRead
<1>9. QED BY <1>3, <1>4, <1>5, <1>6, <1>8 DEF Inv, LockParts

\* A nested catalog call of a write leaves the state lock.
LEMMA NestEndWriteInv ==
  ASSUME Inv, NEW t \in Thread, pc[t] = "nested", job[t].kind = "write",
         DropRead(t, State, "body")
  PROVE  Inv'
<1> USE LatticeAssumption, NoJobIsJob
<1> DEFINE next == "body"
<1> DEFINE newJob == job[t]
<1>1. /\ Steps(t, next, newJob) /\ State \in Lock
      /\ readers' = [readers EXCEPT ![State][t] = @ - 1]
      /\ UNCHANGED <<writer, pending>>
      /\ asleep' \in [Lock -> SUBSET Thread]
  BY DEF DropRead, LeaveRead, Leave, Goto, Steps, Inv, TypeOK, Lock, Job, Kind, Shape
<1>2. readers[State][t] > 0
  BY DEF Inv, HeldState, StateDepth
<1>3. TypeOK'
  BY <1>1, <1>2 DEF Steps, Inv, TypeOK, Label, Lock
<1>4. (\A u \in Thread : Shape(u))'
  BY <1>1 DEF Steps, Inv, TypeOK, Shape, Job, Kind
<1>5. HeldState' /\ HeldColl'
  BY <1>1 DEF Steps, Inv, TypeOK, Shape, HeldState, HeldColl, StateDepth, CollDepth,
     Lock, Job, Kind
<1>6. WriterState' /\ WriterColl'
  BY <1>1 DEF Steps, Inv, TypeOK, Shape, WriterState, WriterColl, WritesColl, Lock,
     Job, Kind
<1>7. Awake(t) /\ NotPending(t)
  BY AwakeIf, NotPendingIf DEF WantsRead, WantsWrite
<1>8. LockParts'
  BY <1>1, <1>2, <1>7, LeavesRead DEF DropRead
<1>9. QED BY <1>3, <1>4, <1>5, <1>6, <1>8 DEF Inv, LockParts

\* A nested read leaves the state lock.
LEMMA NestExitInv ==
  ASSUME Inv, NEW t \in Thread, pc[t] = "nest_exit",
         DropRead(t, State, "body")
  PROVE  Inv'
<1> USE LatticeAssumption, NoJobIsJob
<1> DEFINE next == "body"
<1> DEFINE newJob == job[t]
<1>1. /\ Steps(t, next, newJob) /\ State \in Lock
      /\ readers' = [readers EXCEPT ![State][t] = @ - 1]
      /\ UNCHANGED <<writer, pending>>
      /\ asleep' \in [Lock -> SUBSET Thread]
  BY DEF DropRead, LeaveRead, Leave, Goto, Steps, Inv, TypeOK, Lock, Job, Kind, Shape
<1>2. readers[State][t] > 0
  BY DEF Inv, HeldState, StateDepth
<1>3. TypeOK'
  BY <1>1, <1>2 DEF Steps, Inv, TypeOK, Label, Lock
<1>4. (\A u \in Thread : Shape(u))'
  BY <1>1 DEF Steps, Inv, TypeOK, Shape, Job, Kind
<1>5. HeldState' /\ HeldColl'
  BY <1>1 DEF Steps, Inv, TypeOK, Shape, HeldState, HeldColl, StateDepth, CollDepth,
     Lock, Job, Kind
<1>6. WriterState' /\ WriterColl'
  BY <1>1 DEF Steps, Inv, TypeOK, Shape, WriterState, WriterColl, WritesColl, Lock,
     Job, Kind
<1>7. Awake(t) /\ NotPending(t)
  BY AwakeIf, NotPendingIf DEF WantsRead, WantsWrite
<1>8. LockParts'
  BY <1>1, <1>2, <1>7, LeavesRead DEF DropRead
<1>9. QED BY <1>3, <1>4, <1>5, <1>6, <1>8 DEF Inv, LockParts

\* A catalog call on its own ends.
LEMMA FinishCatalogInv ==
  ASSUME Inv, NEW t \in Thread, pc[t] = "body", job[t].kind = "catalog",
         DropRead(t, State, "idle")
  PROVE  Inv'
<1> USE LatticeAssumption, NoJobIsJob
<1> DEFINE next == "idle"
<1> DEFINE newJob == NoJob
<1>1. /\ Steps(t, next, newJob) /\ State \in Lock
      /\ readers' = [readers EXCEPT ![State][t] = @ - 1]
      /\ UNCHANGED <<writer, pending>>
      /\ asleep' \in [Lock -> SUBSET Thread]
  BY DEF DropRead, LeaveRead, Leave, Goto, Steps, Inv, TypeOK, Lock, Job, Kind, Shape
<1>2. readers[State][t] > 0
  BY DEF Inv, HeldState, StateDepth
<1>3. TypeOK'
  BY <1>1, <1>2 DEF Steps, Inv, TypeOK, Label, Lock
<1>4. (\A u \in Thread : Shape(u))'
  BY <1>1 DEF Steps, Inv, TypeOK, Shape, Job, Kind
<1>5. HeldState' /\ HeldColl'
  BY <1>1 DEF Steps, Inv, TypeOK, Shape, HeldState, HeldColl, StateDepth, CollDepth,
     Lock, Job, Kind
<1>6. WriterState' /\ WriterColl'
  BY <1>1 DEF Steps, Inv, TypeOK, Shape, WriterState, WriterColl, WritesColl, Lock,
     Job, Kind
<1>7. Awake(t) /\ NotPending(t)
  BY AwakeIf, NotPendingIf DEF WantsRead, WantsWrite
<1>8. LockParts'
  BY <1>1, <1>2, <1>7, LeavesRead DEF DropRead
<1>9. QED BY <1>3, <1>4, <1>5, <1>6, <1>8 DEF Inv, LockParts

\* A read leaves its collection lock for good.
LEMMA FinishReadInv ==
  ASSUME Inv, NEW t \in Thread, pc[t] = "body", job[t].kind = "read",
         DropRead(t, job[t].lo, "exit1")
  PROVE  Inv'
<1> USE LatticeAssumption, NoJobIsJob
<1> DEFINE next == "exit1"
<1> DEFINE newJob == job[t]
<1>1. /\ Steps(t, next, newJob) /\ job[t].lo \in Lock
      /\ readers' = [readers EXCEPT ![job[t].lo][t] = @ - 1]
      /\ UNCHANGED <<writer, pending>>
      /\ asleep' \in [Lock -> SUBSET Thread]
  BY DEF DropRead, LeaveRead, Leave, Goto, Steps, Inv, TypeOK, Lock, Job, Kind, Shape
<1>2. readers[job[t].lo][t] > 0
  BY DEF Inv, HeldColl, CollDepth, TypeOK, Job
<1>3. TypeOK'
  BY <1>1, <1>2 DEF Steps, Inv, TypeOK, Label, Lock
<1>4. (\A u \in Thread : Shape(u))'
  BY <1>1 DEF Steps, Inv, TypeOK, Shape, Job, Kind
<1>5. HeldState' /\ HeldColl'
  BY <1>1 DEF Steps, Inv, TypeOK, Shape, HeldState, HeldColl, StateDepth, CollDepth,
     Lock, Job, Kind
<1>6. WriterState' /\ WriterColl'
  BY <1>1 DEF Steps, Inv, TypeOK, Shape, WriterState, WriterColl, WritesColl, Lock,
     Job, Kind
<1>7. Awake(t) /\ NotPending(t)
  BY AwakeIf, NotPendingIf DEF WantsRead, WantsWrite
<1>8. LockParts'
  BY <1>1, <1>2, <1>7, LeavesRead DEF DropRead
<1>9. QED BY <1>3, <1>4, <1>5, <1>6, <1>8 DEF Inv, LockParts

\* A write leaves the collection lock it took last.
LEMMA FinishWriteInv ==
  ASSUME Inv, NEW t \in Thread, pc[t] = "body", job[t].kind = "write",
         DropWrite(t, job[t].hi, IF job[t].lo = job[t].hi THEN "exit1" ELSE "exit2")
  PROVE  Inv'
<1> USE LatticeAssumption, NoJobIsJob
<1> DEFINE next == IF job[t].lo = job[t].hi THEN "exit1" ELSE "exit2"
<1> DEFINE newJob == job[t]
<1>1. /\ Steps(t, next, newJob) /\ job[t].hi \in Lock
      /\ writer' = [writer EXCEPT ![job[t].hi] = None]
      /\ UNCHANGED <<readers, pending>>
      /\ asleep' \in [Lock -> SUBSET Thread]
  BY DEF DropWrite, LeaveWrite, Leave, Goto, Steps, Inv, TypeOK, Lock, Job, Kind, Shape
<1>2. TypeOK'
  BY <1>1 DEF Steps, Inv, TypeOK, Label, Lock
<1>3. (\A u \in Thread : Shape(u))'
  BY <1>1 DEF Steps, Inv, TypeOK, Shape, Job, Kind
<1>4. HeldState' /\ HeldColl'
  BY <1>1 DEF Steps, Inv, TypeOK, Shape, HeldState, HeldColl, StateDepth, CollDepth,
     Lock, Job, Kind
<1>5. WriterState' /\ WriterColl'
  BY <1>1 DEF Steps, Inv, TypeOK, Shape, WriterState, WriterColl, WritesColl, Lock,
     Job, Kind
<1>6. Awake(t) /\ NotPending(t)
  BY AwakeIf, NotPendingIf DEF WantsRead, WantsWrite
<1>7. LockParts'
  BY <1>1, <1>6, LeavesWrite DEF DropWrite
<1>8. QED BY <1>2, <1>3, <1>4, <1>5, <1>7 DEF Inv, LockParts

\* A rename leaves the collection lock it took first.
LEMMA DropFirstCollInv ==
  ASSUME Inv, NEW t \in Thread, pc[t] = "exit2",
         DropWrite(t, job[t].lo, "exit1")
  PROVE  Inv'
<1> USE LatticeAssumption, NoJobIsJob
<1> DEFINE next == "exit1"
<1> DEFINE newJob == job[t]
<1>1. /\ Steps(t, next, newJob) /\ job[t].lo \in Lock
      /\ writer' = [writer EXCEPT ![job[t].lo] = None]
      /\ UNCHANGED <<readers, pending>>
      /\ asleep' \in [Lock -> SUBSET Thread]
  BY DEF DropWrite, LeaveWrite, Leave, Goto, Steps, Inv, TypeOK, Lock, Job, Kind, Shape
<1>2. TypeOK'
  BY <1>1 DEF Steps, Inv, TypeOK, Label, Lock
<1>3. (\A u \in Thread : Shape(u))'
  BY <1>1 DEF Steps, Inv, TypeOK, Shape, Job, Kind
<1>4. HeldState' /\ HeldColl'
  BY <1>1 DEF Steps, Inv, TypeOK, Shape, HeldState, HeldColl, StateDepth, CollDepth,
     Lock, Job, Kind
<1>5. WriterState' /\ WriterColl'
  BY <1>1 DEF Steps, Inv, TypeOK, Shape, WriterState, WriterColl, WritesColl, Lock,
     Job, Kind
<1>6. Awake(t) /\ NotPending(t)
  BY AwakeIf, NotPendingIf DEF WantsRead, WantsWrite
<1>7. LockParts'
  BY <1>1, <1>6, LeavesWrite DEF DropWrite
<1>8. QED BY <1>2, <1>3, <1>4, <1>5, <1>7 DEF Inv, LockParts

\* A read or a write leaves the state lock and is over.
LEMMA DropStateInv ==
  ASSUME Inv, NEW t \in Thread, pc[t] = "exit1",
         DropRead(t, State, "idle")
  PROVE  Inv'
<1> USE LatticeAssumption, NoJobIsJob
<1> DEFINE next == "idle"
<1> DEFINE newJob == NoJob
<1>1. /\ Steps(t, next, newJob) /\ State \in Lock
      /\ readers' = [readers EXCEPT ![State][t] = @ - 1]
      /\ UNCHANGED <<writer, pending>>
      /\ asleep' \in [Lock -> SUBSET Thread]
  BY DEF DropRead, LeaveRead, Leave, Goto, Steps, Inv, TypeOK, Lock, Job, Kind, Shape
<1>2. readers[State][t] > 0
  BY DEF Inv, HeldState, StateDepth
<1>3. TypeOK'
  BY <1>1, <1>2 DEF Steps, Inv, TypeOK, Label, Lock
<1>4. (\A u \in Thread : Shape(u))'
  BY <1>1 DEF Steps, Inv, TypeOK, Shape, Job, Kind
<1>5. HeldState' /\ HeldColl'
  BY <1>1 DEF Steps, Inv, TypeOK, Shape, HeldState, HeldColl, StateDepth, CollDepth,
     Lock, Job, Kind
<1>6. WriterState' /\ WriterColl'
  BY <1>1 DEF Steps, Inv, TypeOK, Shape, WriterState, WriterColl, WritesColl, Lock,
     Job, Kind
<1>7. Awake(t) /\ NotPending(t)
  BY AwakeIf, NotPendingIf DEF WantsRead, WantsWrite
<1>8. LockParts'
  BY <1>1, <1>2, <1>7, LeavesRead DEF DropRead
<1>9. QED BY <1>3, <1>4, <1>5, <1>6, <1>8 DEF Inv, LockParts

\* A dump or a restore gives the store back.
LEMMA DropWholeInv ==
  ASSUME Inv, NEW t \in Thread, pc[t] = "archiving",
         DropWrite(t, State, "idle")
  PROVE  Inv'
<1> USE LatticeAssumption, NoJobIsJob
<1> DEFINE next == "idle"
<1> DEFINE newJob == NoJob
<1>1. /\ Steps(t, next, newJob) /\ State \in Lock
      /\ writer' = [writer EXCEPT ![State] = None]
      /\ UNCHANGED <<readers, pending>>
      /\ asleep' \in [Lock -> SUBSET Thread]
  BY DEF DropWrite, LeaveWrite, Leave, Goto, Steps, Inv, TypeOK, Lock, Job, Kind, Shape
<1>2. TypeOK'
  BY <1>1 DEF Steps, Inv, TypeOK, Label, Lock
<1>3. (\A u \in Thread : Shape(u))'
  BY <1>1 DEF Steps, Inv, TypeOK, Shape, Job, Kind
<1>4. HeldState' /\ HeldColl'
  BY <1>1 DEF Steps, Inv, TypeOK, Shape, HeldState, HeldColl, StateDepth, CollDepth,
     Lock, Job, Kind
<1>5. WriterState' /\ WriterColl'
  BY <1>1 DEF Steps, Inv, TypeOK, Shape, WriterState, WriterColl, WritesColl, Lock,
     Job, Kind
<1>6. Awake(t) /\ NotPending(t)
  BY AwakeIf, NotPendingIf DEF WantsRead, WantsWrite
<1>7. LockParts'
  BY <1>1, <1>6, LeavesWrite DEF DropWrite
<1>8. QED BY <1>2, <1>3, <1>4, <1>5, <1>7 DEF Inv, LockParts

\* A thread takes up a request, or enters a nested block.
LEMMA MoveInv ==
  ASSUME Inv, NEW t \in Thread, StartShared(t) \/ StartArchive(t) \/ NestBegin(t)
  PROVE  Inv'
<1> USE LatticeAssumption
<1>1. PICK label \in {"state", "archive", "nest_state"}, j \in Job :
        /\ Steps(t, label, j)
        /\ \/ pc[t] = "idle" /\ label = "state" /\ j.kind # "archive"
           \/ pc[t] = "idle" /\ label = "archive" /\ j.kind = "archive"
           \/ /\ pc[t] = "body" /\ label = "nest_state"
              /\ j = job[t] /\ j.kind \in {"read", "write"}
        /\ j.kind = "read" => j.lo = j.hi
        /\ j.lo = j.hi \/ Rank[j.lo] < Rank[j.hi]
        /\ UNCHANGED lockVars
  <2>1. CASE StartShared(t)
    <3>1. PICK kind \in {"catalog", "read", "write"}, c \in Coll, d \in Coll :
            /\ kind # "write" => c = d
            /\ job' = [job EXCEPT ![t] = [kind |-> kind, lo |-> InOrder(c, d)[1],
                                          hi |-> InOrder(c, d)[2]]]
      BY <2>1 DEF StartShared
    <3> DEFINE new == [kind |-> kind, lo |-> InOrder(c, d)[1], hi |-> InOrder(c, d)[2]]
    <3>2. /\ new \in Job /\ new.kind = kind /\ (kind # "write" => new.lo = new.hi)
          /\ new.lo = new.hi \/ Rank[new.lo] < Rank[new.hi]
      BY <3>1 DEF InOrder, Job, Kind
    <3>3. Steps(t, "state", new) /\ pc[t] = "idle" /\ UNCHANGED lockVars
      BY <2>1, <3>1 DEF StartShared, Steps, Goto
    <3>4. /\ new \in Job /\ new.kind # "archive"
          /\ (new.kind = "read" => new.lo = new.hi)
          /\ new.lo = new.hi \/ Rank[new.lo] < Rank[new.hi]
      BY <3>2
    <3> HIDE DEF new
    <3>5. QED BY <3>3, <3>4
  <2>2. CASE StartArchive(t)
    <3>1. [job[t] EXCEPT !.kind = "archive"] \in Job
      BY DEF Inv, TypeOK, Job, Kind
    <3>2. job' = [job EXCEPT ![t] = [job[t] EXCEPT !.kind = "archive"]]
      BY <2>2 DEF StartArchive, Inv, TypeOK
    <3>3. /\ [job[t] EXCEPT !.kind = "archive"].kind = "archive"
          /\ [job[t] EXCEPT !.kind = "archive"].lo = job[t].lo
          /\ [job[t] EXCEPT !.kind = "archive"].hi = job[t].hi
      BY DEF Inv, TypeOK, Job
    <3>4. QED BY <2>2, <3>1, <3>2, <3>3 DEF StartArchive, Steps, Goto, Inv, Shape
  <2>3. CASE NestBegin(t)
    BY <2>3 DEF NestBegin, Steps, Goto, Inv, TypeOK, Shape, lockVars
  <2>4. QED BY <2>1, <2>2, <2>3
<1>2. TypeOK'
  BY <1>1 DEF Steps, Inv, TypeOK, Label, lockVars
<1>3. (\A u \in Thread : Shape(u))'
  BY <1>1 DEF Steps, Inv, TypeOK, Shape
<1>4. HeldState' /\ HeldColl'
  BY <1>1 DEF Steps, Inv, TypeOK, HeldState, HeldColl, StateDepth, CollDepth, lockVars
<1>5. WriterState' /\ WriterColl'
  BY <1>1 DEF Steps, Inv, TypeOK, WriterState, WriterColl, WritesColl, lockVars
<1>6. Awake(t) /\ NotPending(t)
  BY <1>1, AwakeIf, NotPendingIf DEF WantsRead, WantsWrite
<1>7. LockParts'
  BY <1>1, <1>6, Moves
<1>8. QED BY <1>2, <1>3, <1>4, <1>5, <1>7 DEF Inv, LockParts

\* Every step keeps the invariant.
LEMMA NextInv == Inv /\ [Next]_vars => Inv'
<1> SUFFICES ASSUME Inv, [Next]_vars PROVE Inv'
  OBVIOUS
<1>1. CASE UNCHANGED vars
  <2>1. LockParts'
    BY <1>1 DEF Inv, vars, LockParts, WriterAlone, Sleepers, NoLostWakeup,
       WantsRead, WantsWrite, ReadBlocked, WriteBlocked
  <2>2. QED
    BY <1>1, <2>1 DEF Inv, vars, LockParts, TypeOK, Shape, HeldState, HeldColl,
       StateDepth, CollDepth, WriterState, WriterColl, WritesColl
<1>2. ASSUME NEW t \in Thread, StartShared(t) \/ StartArchive(t) \/ NestBegin(t)
      PROVE  Inv'
  BY <1>2, MoveInv
<1>3. ASSUME NEW t \in Thread, TakeState(t) PROVE Inv'
  BY <1>3, TakeStateInv DEF TakeState
<1>4. ASSUME NEW t \in Thread, TakeColl(t) PROVE Inv'
  BY <1>4, TakeCollReadInv, TakeCollWriteInv DEF TakeColl
<1>5. ASSUME NEW t \in Thread, TakeSecondColl(t) PROVE Inv'
  BY <1>5, TakeSecondCollInv DEF TakeSecondColl
<1>6. ASSUME NEW t \in Thread, NestState(t) PROVE Inv'
  BY <1>6, NestStateInv DEF NestState
<1>7. ASSUME NEW t \in Thread, NestColl(t) PROVE Inv'
  BY <1>7, NestCollInv DEF NestColl
<1>8. ASSUME NEW t \in Thread, NestEnd(t) PROVE Inv'
  BY <1>8, NestEndReadInv, NestEndWriteInv DEF NestEnd
<1>9. ASSUME NEW t \in Thread, NestExit(t) PROVE Inv'
  BY <1>9, NestExitInv DEF NestExit
<1>10. ASSUME NEW t \in Thread, Finish(t) PROVE Inv'
  BY <1>10, FinishCatalogInv, FinishReadInv, FinishWriteInv DEF Finish
<1>11. ASSUME NEW t \in Thread, DropFirstColl(t) PROVE Inv'
  BY <1>11, DropFirstCollInv DEF DropFirstColl
<1>12. ASSUME NEW t \in Thread, DropState(t) PROVE Inv'
  BY <1>12, DropStateInv DEF DropState
<1>13. ASSUME NEW t \in Thread, TakeWhole(t) \/ DropWhole(t) PROVE Inv'
  BY <1>13, TakeWholeInv, DropWholeInv DEF TakeWhole, DropWhole
<1>14. QED
  BY <1>1, <1>2, <1>3, <1>4, <1>5, <1>6, <1>7, <1>8, <1>9, <1>10, <1>11, <1>12,
     <1>13 DEF Next, Continue

\* The invariant holds in every reachable state.
THEOREM Invariance == Spec => []Inv
  BY InitInv, NextInv, PTL DEF Spec

-----------------------------------------------------------------------------
\* A nonempty set of naturals has a least element.
LEMMA LeastNat ==
  ASSUME NEW S, S \subseteq Nat, S # {}
  PROVE  \E x \in S : \A y \in S : ~(y < x)
<1>1. \E x \in S : \A y \in S : ~(<<y, x>> \in OpToRel(<, Nat))
  BY NatLessThanWellFounded, WFMin
<1>2. QED BY <1>1 DEF OpToRel

\* If all threads with an operation slept, then none of them would be past the
\* collection locks, so the state lock would be free for readers; a rename
\* would wait for another rename that holds its second lock and waits for one
\* of higher rank still; and the rename that waits for the highest would find
\* it free.
LEMMA InvNoGridlock == Inv => NoGridlock
<1> SUFFICES ASSUME Inv,
                    NEW some \in Thread, pc[some] # "idle",
                    \A t \in Thread : pc[t] # "idle" => \E l \in Lock : t \in asleep[l]
             PROVE  FALSE
  BY DEF NoGridlock
<1> USE LatticeAssumption
<1>1. \A t \in Thread : pc[t] # "idle" =>
        \E l \in Lock : \/ WantsRead(t, l) /\ ReadBlocked(l, t)
                        \/ WantsWrite(t, l) /\ WriteBlocked(l)
  BY DEF Inv, NoLostWakeup
<1>2. \A t \in Thread :
        pc[t] \in {"idle", "state", "coll", "coll2", "nest_state", "nest_coll", "archive"}
  BY <1>1 DEF Inv, WantsRead, WantsWrite
<1>3. writer[State] = None
  BY <1>2 DEF Inv, TypeOK, WriterState, Lock
<1>4. \A c \in Coll, t \in Thread :
        writer[c] = t => pc[t] \in {"coll2", "nest_state"} /\ WritesColl(t, c)
  BY <1>2 DEF Inv, WriterColl, WritesColl
<1>5. \A t \in Thread : pc[t] # "nest_state"
  <2>1. SUFFICES ASSUME NEW t \in Thread, pc[t] = "nest_state" PROVE FALSE
    OBVIOUS
  <2>2. ReadBlocked(State, t)
    BY <1>1, <2>1 DEF WantsRead, WantsWrite
  <2>3. readers[State][t] = 1
    BY <2>1 DEF Inv, HeldState, StateDepth
  <2>4. QED BY <1>3, <2>2, <2>3 DEF ReadBlocked
<1>6. \A t \in Thread : pc[t] # "nest_coll"
  <2>1. SUFFICES ASSUME NEW t \in Thread, pc[t] = "nest_coll" PROVE FALSE
    OBVIOUS
  <2>2. job[t].kind = "read" /\ job[t].lo \in Coll
    BY <2>1 DEF Inv, TypeOK, Shape, Job
  <2>3. ReadBlocked(job[t].lo, t)
    BY <1>1, <2>1 DEF WantsRead, WantsWrite
  <2>4. CollDepth(t, job[t].lo) = 1
    BY <2>1, <2>2 DEF CollDepth
  <2>5. readers[job[t].lo][t] = 1
    BY <2>2, <2>4 DEF Inv, HeldColl
  <2>6. writer[job[t].lo] = None
    BY <2>2, <2>5 DEF Inv, WriterAlone, Lock
  <2>7. QED BY <2>2, <2>3, <2>5, <2>6 DEF ReadBlocked
<1>7. \A c \in Coll, t \in Thread : readers[c][t] = 0
  <2>1. SUFFICES ASSUME NEW c \in Coll, NEW t \in Thread PROVE CollDepth(t, c) = 0
    BY DEF Inv, HeldColl
  <2>2. pc[t] \notin {"body", "nest_state", "nest_coll", "nest_exit", "nested"}
    BY <1>2, <1>5, <1>6
  <2>3. QED BY <2>2 DEF CollDepth
<1>8. \A t \in Thread : pc[t] # "coll2"
  <2> DEFINE W == {t \in Thread : pc[t] = "coll2"}
  <2> DEFINE S == {MaxRank - Rank[job[t].hi] : t \in W}
  <2>1. \A t \in W : job[t].lo \in Coll /\ job[t].hi \in Coll
    BY DEF Inv, TypeOK, Job
  <2>2. S \subseteq Nat
    BY <2>1
  <2>3. ASSUME NEW t \in W
        PROVE  \E u \in W : Rank[job[u].hi] > Rank[job[t].hi]
    <3>1. WriteBlocked(job[t].hi)
      BY <1>1 DEF WantsRead, WantsWrite
    <3>2. writer[job[t].hi] # None
      BY <1>7, <2>1, <3>1 DEF WriteBlocked
    <3>3. PICK u \in Thread : writer[job[t].hi] = u
      BY <2>1, <3>2 DEF Inv, TypeOK, Lock
    <3>4. u \in W /\ WritesColl(u, job[t].hi)
      BY <1>4, <1>5, <2>1, <3>3
    <3>5. job[u].lo = job[t].hi
      BY <3>4 DEF WritesColl
    <3>6. Rank[job[u].lo] < Rank[job[u].hi]
      BY <3>4 DEF Inv, Shape
    <3>7. QED BY <3>4, <3>5, <3>6
  <2>4. W = {}
    <3>1. SUFFICES ASSUME S # {} PROVE FALSE
      OBVIOUS
    <3>2. PICK x \in S : \A y \in S : ~(y < x)
      BY <2>2, <3>1, LeastNat
    <3>3. PICK t \in W : x = MaxRank - Rank[job[t].hi]
      OBVIOUS
    <3>4. PICK u \in W : Rank[job[u].hi] > Rank[job[t].hi]
      BY <2>3
    <3>5. MaxRank - Rank[job[u].hi] < x
      BY <2>1, <3>3, <3>4
    <3>6. QED BY <3>2, <3>5
  <2>5. QED BY <2>4
<1>9. \A c \in Coll : writer[c] = None
  BY <1>4, <1>5, <1>8 DEF Inv, TypeOK, Lock
<1>10. \A t \in Thread : ~(pc[t] = "coll" /\ job[t].kind = "write")
  <2>1. SUFFICES ASSUME NEW t \in Thread, pc[t] = "coll", job[t].kind = "write"
                 PROVE  FALSE
    OBVIOUS
  <2>2. WriteBlocked(job[t].lo) /\ job[t].lo \in Coll
    BY <1>1, <2>1 DEF WantsRead, WantsWrite, Inv, TypeOK, Job
  <2>3. QED BY <1>7, <1>9, <2>2 DEF WriteBlocked
<1>11. \A c \in Coll : pending[c] = {}
  BY <1>8, <1>10 DEF Inv, TypeOK, Sleepers, WantsWrite, Lock
<1>12. \A t \in Thread : pc[t] # "coll"
  <2>1. SUFFICES ASSUME NEW t \in Thread, pc[t] = "coll", job[t].kind = "read"
                 PROVE  FALSE
    BY <1>10 DEF Inv, Shape
  <2>2. ReadBlocked(job[t].lo, t) /\ job[t].lo \in Coll
    BY <1>1, <2>1 DEF WantsRead, WantsWrite, Inv, TypeOK, Job
  <2>3. QED BY <1>9, <1>11, <2>2 DEF ReadBlocked
<1>13. \A t \in Thread : pc[t] \in {"idle", "state", "archive"}
  BY <1>2, <1>5, <1>6, <1>8, <1>12
<1>14. \A t \in Thread : readers[State][t] = 0
  BY <1>13 DEF Inv, HeldState, StateDepth
<1>15. \A t \in Thread : pc[t] # "archive"
  <2>1. SUFFICES ASSUME NEW t \in Thread, pc[t] = "archive" PROVE FALSE
    OBVIOUS
  <2>2. WriteBlocked(State)
    BY <1>1, <2>1 DEF WantsRead, WantsWrite
  <2>3. QED BY <1>3, <1>14, <2>2 DEF WriteBlocked
<1>16. pending[State] = {}
  BY <1>13, <1>15 DEF Inv, TypeOK, Sleepers, WantsWrite, Lock
<1>17. ReadBlocked(State, some)
  BY <1>1, <1>13, <1>15 DEF WantsRead, WantsWrite
<1>18. QED BY <1>3, <1>16, <1>17 DEF ReadBlocked

-----------------------------------------------------------------------------
(* The results.                                                            *)

\* Every variable of the lattice keeps its type; above all no thread leaves a
\* lock more often than it entered it.
THEOREM TypeCorrect == Spec => []TypeOK
<1>1. Inv => TypeOK
  BY DEF Inv
<1>2. QED BY <1>1, Invariance, PTL

\* No release forgets to wake a thread that it lets in.
THEOREM WakeupsAreComplete == Spec => []NoLostWakeup
<1>1. Inv => NoLostWakeup
  BY DEF Inv
<1>2. QED BY <1>1, Invariance, PTL

\* The lattice has no deadlock, however many threads and collections there
\* are and in whatever order operations are started.
THEOREM DeadlockFreedom == Spec => []NoGridlock
  BY InvNoGridlock, Invariance, PTL

\* The locks held give compatible accesses.
LEMMA HeldAreCompatible ==
  ASSUME Inv, NEW t \in Thread, NEW u \in Thread, t # u
  PROVE  A!Compatible(View(t), View(u))
<1> USE LatticeAssumption
<1>1. ASSUME NEW p \in Thread, NEW q \in Thread, p # q, pc[p] = "archiving"
      PROVE  View(q).mode = "free"
  <2>1. writer[State] = p
    BY <1>1 DEF Inv, WriterState
  <2>2. readers[State][q] = 0 /\ writer[State] # q
    BY <1>1, <2>1 DEF Inv, WriterAlone, Lock
  <2>3. pc[q] \notin Inside /\ pc[q] # "archiving"
    BY <2>2 DEF Inv, HeldState, StateDepth, WriterState, Inside
  <2>4. QED BY <2>3 DEF View
<1>2. ASSUME NEW p \in Thread, NEW q \in Thread, p # q, NEW c \in Coll,
             pc[p] \in Inside, job[p].kind = "write", c \in {job[p].lo, job[p].hi},
             pc[q] \in Inside, job[q].kind \in {"read", "write"},
             c \in {job[q].lo, job[q].hi}
      PROVE  FALSE
  <2>1. pc[p] \in {"body", "nest_state", "nested"}
    BY <1>2 DEF Inv, Shape, Inside
  <2>2. writer[c] = p
    BY <1>2, <2>1 DEF Inv, WriterColl, WritesColl
  <2>3. CASE job[q].kind = "write"
    <3>1. pc[q] \in {"body", "nest_state", "nested"}
      BY <1>2, <2>3 DEF Inv, Shape, Inside
    <3>2. QED BY <1>2, <2>2, <2>3, <3>1 DEF Inv, WriterColl, WritesColl
  <2>4. CASE job[q].kind = "read"
    <3>1. job[q].lo = c
      BY <1>2, <2>4 DEF Inv, Shape
    <3>2. CollDepth(q, c) > 0
      BY <1>2, <2>4, <3>1 DEF CollDepth, Inside
    <3>3. readers[c][q] > 0 /\ p # None
      BY <3>2 DEF Inv, HeldColl
    <3>4. QED BY <2>2, <3>3 DEF Inv, WriterAlone, Lock
  <2>5. QED BY <1>2, <2>3, <2>4
<1>3. CASE pc[t] = "archiving" \/ pc[u] = "archiving"
  BY <1>1, <1>3 DEF A!Compatible
<1>4. CASE pc[t] \notin Inside \/ pc[u] \notin Inside
  <2>1. CASE pc[t] = "archiving" \/ pc[u] = "archiving"
    BY <1>3, <2>1
  <2>2. CASE pc[t] # "archiving" /\ pc[u] # "archiving"
    BY <1>4, <2>2 DEF View, A!Compatible
  <2>3. QED BY <2>1, <2>2
<1>5. CASE pc[t] \in Inside /\ pc[u] \in Inside
  <2>1. /\ job[t].kind \in {"catalog", "read", "write"} /\ job[u].kind \in {"catalog", "read", "write"}
        /\ {job[t].lo, job[t].hi, job[u].lo, job[u].hi} \subseteq Coll
    BY <1>5 DEF Inv, TypeOK, Shape, Inside, Job, Kind
  <2>2. View(t).colls \cap View(u).colls = {} \/ {View(t).mode, View(u).mode} = {"read"}
    BY <1>2, <1>5, <2>1 DEF View, Inside
  <2>3. View(t).mode \in {"read", "write"} /\ View(u).mode \in {"read", "write"}
    BY <1>5, <2>1 DEF View, Inside
  <2>4. QED BY <2>2, <2>3 DEF A!Compatible
<1>6. QED BY <1>3, <1>4, <1>5

Granted == [t \in Thread |-> View(t)]

\* One step changes the access of at most one thread, and either from or to
\* no access at all.
LEMMA StepView ==
  ASSUME Inv, [Next]_vars
  PROVE  \/ Granted' = Granted
         \/ \E t \in Thread :
              /\ \A u \in Thread \ {t} : Granted'[u] = Granted[u]
              /\ Granted[t] = A!Free \/ Granted'[t] = A!Free
<1>1. CASE UNCHANGED vars
  BY <1>1 DEF vars, View, Granted
<1>2. CASE Next
  <2>1. PICK t \in Thread : StartShared(t) \/ StartArchive(t) \/ Continue(t)
    BY <1>2 DEF Next
  <2>2. \A u \in Thread \ {t} : pc'[u] = pc[u] /\ job'[u] = job[u]
    BY <2>1 DEF Inv, TypeOK, StartShared, StartArchive, Continue, TakeState, TakeColl,
       TakeSecondColl, NestBegin, NestState, NestColl, NestEnd, NestExit, Finish,
       DropFirstColl, DropState, TakeWhole, DropWhole, TakeRead, TakeWrite,
       DropRead, DropWrite, Leave, Goto
  <2>3. \A u \in Thread \ {t} : Granted'[u] = Granted[u]
    BY <2>2 DEF View, Granted
  <2>4. \/ pc[t] \notin Inside \cup {"archiving"}
        \/ pc'[t] \notin Inside \cup {"archiving"}
        \/ pc[t] \in Inside /\ pc'[t] \in Inside /\ job'[t] = job[t]
    BY <2>1 DEF Inv, TypeOK, Inside, StartShared, StartArchive, Continue, TakeState, TakeColl,
       TakeSecondColl, NestBegin, NestState, NestColl, NestEnd, NestExit, Finish,
       DropFirstColl, DropState, TakeWhole, DropWhole, TakeRead, TakeWrite,
       DropRead, DropWrite, Leave, Goto
  <2>5. CASE pc[t] \notin Inside \cup {"archiving"}
    <3>1. Granted[t] = A!Free
      BY <2>5 DEF View, Granted, A!Free
    <3>2. QED BY <2>3, <3>1
  <2>6. CASE pc'[t] \notin Inside \cup {"archiving"}
    <3>1. Granted'[t] = A!Free
      BY <2>6 DEF View, Granted, A!Free, Inside
    <3>2. QED BY <2>3, <3>1
  <2>7. CASE pc[t] \in Inside /\ pc'[t] \in Inside /\ job'[t] = job[t]
    <3>1. Granted'[t] = Granted[t]
      BY <2>7 DEF View, Granted, Inside
    <3>2. \A u \in Thread : Granted'[u] = Granted[u]
      BY <2>3, <3>1
    <3>3. Granted' = [u \in Thread |-> Granted'[u]] /\ Granted = [u \in Thread |-> Granted[u]]
      BY DEF Granted
    <3>4. QED BY <3>2, <3>3
  <2>8. QED BY <2>4, <2>5, <2>6, <2>7
<1>3. QED BY <1>1, <1>2

Views ==
  /\ Granted \in [Thread -> A!AccessType]
  /\ \A t, u \in Thread : t # u => A!Compatible(Granted[t], Granted[u])

\* In every state of the invariant the views are accesses, and compatible.
LEMMA InvViews == Inv => Views
<1> SUFFICES ASSUME Inv PROVE Views
  OBVIOUS
<1>1. ASSUME NEW t \in Thread PROVE View(t) \in A!AccessType
  <2>1. job[t] \in Job /\ pc[t] \in Label
    BY DEF Inv, TypeOK
  <2>2. pc[t] \in Inside => job[t].kind \in {"catalog", "read", "write"}
    BY <2>1 DEF Inv, Shape, Inside, Job, Kind
  <2>3. QED BY <2>1, <2>2 DEF View, Job, A!AccessType
<1>2. QED BY <1>1, HeldAreCompatible DEF Views, Granted

\* The lattice implements Access for every number of threads and collections:
\* whatever is written on top of Access holds on top of the real locks.
THEOREM Refinement == Spec => GrantsAccess
<1>1. Init => A!AccessInit
  BY DEF Init, A!AccessInit, View, A!Free, Inside
<1>2. Inv /\ Views /\ Views' /\ [Next]_vars => [A!AccessNext]_Granted
  <2> SUFFICES ASSUME Inv, Views, Views', [Next]_vars, Granted' # Granted
               PROVE  A!AccessNext
    OBVIOUS
  <2>1. PICK t \in Thread :
          /\ \A u \in Thread \ {t} : Granted'[u] = Granted[u]
          /\ Granted[t] = A!Free \/ Granted'[t] = A!Free
    BY StepView
  <2> DEFINE a == Granted'[t]
  <2>2. Granted' = [Granted EXCEPT ![t] = a]
    BY <2>1 DEF Views
  <2>3. Granted[t] # a
    BY <2>1, <2>2 DEF Views
  <2>4. CASE a = A!Free
    <3>1. A!Yield(t)
      BY <2>2, <2>3, <2>4 DEF A!Yield, Granted
    <3>2. QED BY <3>1 DEF A!AccessNext
  <2>5. CASE Granted[t] = A!Free
    <3>1. a \in A!AccessType \ {A!Free}
      BY <2>3, <2>5 DEF Views
    <3>2. \A u \in Thread \ {t} : A!Compatible(a, Granted[u])
      BY <2>1 DEF Views, A!Compatible
    <3> HIDE DEF a
    <3>3. A!Grant(t, a)
      BY <2>2, <2>5, <3>2 DEF A!Grant, Granted
    <3>4. QED BY <3>1, <3>3 DEF A!AccessNext
  <2>6. QED BY <2>1, <2>4, <2>5
<1>3. QED BY <1>1, <1>2, Invariance, InvViews, PTL DEF Spec, GrantsAccess, A!AccessSpec, Granted
=============================================================================
