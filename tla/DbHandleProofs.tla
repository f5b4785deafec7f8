--------------------------- MODULE DbHandleProofs ---------------------------
(***************************************************************************)
(* Proofs about DbHandle, for any finite set of threads and any number of  *)
(* calls of open().                                                        *)
(*                                                                         *)
(* The inductive invariant counts: _active_readers is the number of the    *)
(* threads between _reader's entry and exit, _active_writers tells whether *)
(* one is inside _writer.  So close(), which waits for zero, finds nobody  *)
(* who holds the connections it takes, and a handle without connections    *)
(* has nobody inside.  Whoever opens does so alone (Guarded), because a    *)
(* closer either has the guard or has retired the handle.                  *)
(***************************************************************************)
EXTENDS DbHandle, FiniteSetTheorems, TLAPS

Reading(t) == at[t] \in {"queued", "reading", "read"}
Readers == {t \in Caller : Reading(t)}
HoldsWriteLock(t) == at[t] \in {"entering", "writing", "written"}
Opening(t) == at[t] \in {"opening", "opened", "prepared"}
Closing(t) == at[t] \in {"closing", "waiting", "dropping"}

\* The counters are the numbers of active calls.
Counted ==
  /\ activeReaders = Cardinality(Readers)
  /\ activeWriters = IF \E t \in Caller : At(t, "writing") THEN 1 ELSE 0
  /\ \A t \in Caller : HoldsWriteLock(t) => writeLock = t

\* A thread inside a call holds the current connections; close() holds older ones.
Holds(t) ==
  /\ at[t] \in {"queued", "reading", "writing"} => using[t] = conn
  /\ At(t, "dropping") => using[t] # conn \/ using[t] = 0
  /\ ~(at[t] \in {"queued", "reading", "writing", "dropping"}) => using[t] = 0

Held ==
  /\ \A t \in Caller : Holds(t)
  /\ \A t, u \in Caller :
       t # u /\ At(t, "dropping") /\ At(u, "dropping") => using[t] # using[u] \/ using[t] = 0

\* Without connections nobody is inside.
EmptyWhenClosed == conn = 0 => activeReaders = 0 /\ activeWriters = 0

Guarded ==
  /\ guard # Nobody => ~retired
  /\ \A t \in Caller :
       /\ Opening(t) => guard = t
       /\ Closing(t) => guard = t \/ retired
       /\ guard = t => Opening(t) \/ Closing(t) \/ HoldsWriteLock(t)
       /\ At(t, "opening") => conn = 0 /\ opens < MaxOpens
       /\ At(t, "dropping") /\ guard = t => conn = 0
       /\ guard = t /\ again => opens < MaxOpens

Inv ==
  /\ HandleTypeOK
  /\ Counted
  /\ Held
  /\ EmptyWhenClosed
  /\ Guarded
  /\ conn # 0 => conn \in alive
  /\ NoUseAfterClose

-----------------------------------------------------------------------------
(* The counters.                                                           *)

\* Readers is a finite set, with at most all the threads in it.
LEMMA ReadersBound ==
  /\ IsFiniteSet(Readers) /\ Cardinality(Readers) \in 0 .. Cardinality(Caller)
  /\ IsFiniteSet(Readers)' /\ Cardinality(Readers)' \in 0 .. Cardinality(Caller)
<1>1. Readers \in SUBSET Caller /\ Readers' \in SUBSET Caller
  BY DEF Readers
<1>2. ASSUME NEW S \in SUBSET Caller
      PROVE  IsFiniteSet(S) /\ Cardinality(S) \in 0 .. Cardinality(Caller)
  <2>1. IsFiniteSet(S) /\ Cardinality(S) <= Cardinality(Caller)
    BY FS_Subset, HandleAssumption
  <2>2. Cardinality(S) \in Nat /\ Cardinality(Caller) \in Nat
    BY <2>1, FS_CardinalityType, HandleAssumption
  <2> QED
    BY <2>1, <2>2
<1> QED
  BY <1>1, <1>2

\* A thread that enters _reader is one reader more.
LEMMA OneReaderMore ==
  ASSUME NEW t \in Caller, Counted, HandleTypeOK, ~Reading(t),
         activeReaders' = activeReaders + 1, Readers' = Readers \cup {t}
  PROVE  activeReaders' = Cardinality(Readers')
<1>1. t \notin Readers
  BY DEF Readers
<1>2. Cardinality(Readers \cup {t}) = Cardinality(Readers) + 1
  BY <1>1, ReadersBound, FS_AddElement
<1> QED
  BY <1>2 DEF Counted

\* The same for a thread that leaves.
LEMMA OneReaderLess ==
  ASSUME NEW t \in Caller, Counted, HandleTypeOK, Reading(t),
         activeReaders' = Less(activeReaders), Readers' = Readers \ {t}
  PROVE  activeReaders' = Cardinality(Readers')
<1>1. t \in Readers
  BY DEF Readers
<1>2. Cardinality(Readers \ {t}) = Cardinality(Readers) - 1
  BY <1>1, ReadersBound, FS_RemoveElement
<1>3. Cardinality(Readers) # 0
  BY <1>1, ReadersBound, FS_EmptySet
<1> QED
  BY <1>2, <1>3, ReadersBound DEF Counted, Less

\* When close() finds both counters zero, nobody is inside.
LEMMA QuietIsEmpty ==
  ASSUME Counted, Quiet
  PROVE  \A t \in Caller : ~Reading(t) /\ ~At(t, "writing")
<1>1. Readers = {}
  BY ReadersBound, FS_EmptySet DEF Counted, Quiet
<1> QED
  BY <1>1 DEF Counted, Quiet, Readers

-----------------------------------------------------------------------------
(* The invariant.                                                          *)

\* The invariant holds of a handle that was never opened.
LEMMA InitInv == HandleInit => Inv
<1> SUFFICES ASSUME HandleInit PROVE Inv
  OBVIOUS
<1>1. HandleTypeOK
  <2>1. Cardinality(Caller) \in Nat
    BY FS_CardinalityType, HandleAssumption
  <2>2. at \in [Caller -> Label] /\ using \in [Caller -> 0 .. opens]
    BY DEF HandleInit, Label
  <2>3. opens \in 0 .. MaxOpens /\ conn \in 0 .. opens /\ activeWriters \in 0 .. 1
    BY HandleAssumption DEF HandleInit
  <2>4. activeReaders \in 0 .. Cardinality(Caller)
    BY <2>1 DEF HandleInit
  <2>5. alive \subseteq 1 .. opens
    BY DEF HandleInit
  <2> QED
    BY <2>2, <2>3, <2>4, <2>5 DEF HandleInit, HandleTypeOK
<1>2. Readers = {}
  BY DEF HandleInit, Readers, Reading
<1>3. Counted
  BY <1>2, FS_EmptySet DEF HandleInit, Counted, HoldsWriteLock, At
<1>4. Held /\ EmptyWhenClosed
  BY DEF HandleInit, Held, Holds, EmptyWhenClosed, At
<1>5. Guarded
  BY HandleAssumption DEF HandleInit, Guarded, Opening, Closing, HoldsWriteLock, At
<1> QED
  BY <1>1, <1>3, <1>4, <1>5 DEF Inv, HandleInit, NoUseAfterClose

\* The part of the invariant a step preserves whatever it counts.
Rest ==
  /\ opens \in 0 .. MaxOpens
  /\ conn \in 0 .. opens
  /\ alive \subseteq 1 .. opens
  /\ activeReaders \in Nat
  /\ activeWriters \in 0 .. 1
  /\ closing \in BOOLEAN
  /\ readLock \in Caller \cup {Nobody}
  /\ writeLock \in Caller \cup {Nobody}
  /\ guard \in Caller \cup {Nobody}
  /\ again \in BOOLEAN /\ ready \in BOOLEAN /\ retired \in BOOLEAN
  /\ at \in [Caller -> Label]
  /\ using \in [Caller -> 0 .. opens]

\* Rest and the counts give the types.
LEMMA TypesFromRest == ASSUME Rest', Counted' PROVE HandleTypeOK'
  BY ReadersBound DEF Rest, Counted, HandleTypeOK

\* One more reader is counted, and holds the current connections.
LEMMA EnterReaderInv == ASSUME NEW t \in Caller, Inv, EnterReader(t) PROVE Inv'
<1> USE HandleAssumption DEF Inv, At, GoTo, Admits, Return
<1>1. Rest'
  BY DEF EnterReader, HandleTypeOK, Rest, Label, Less, Guarded
<1>2. activeReaders' = Cardinality(Readers')
  <2>1. Readers' = Readers \cup {t} /\ ~Reading(t)
    BY DEF EnterReader, HandleTypeOK, Readers, Reading
  <2> QED
    BY <2>1, OneReaderMore DEF EnterReader
<1>3. Counted'
  BY <1>2 DEF EnterReader, HandleTypeOK, Counted, HoldsWriteLock, Less, EmptyWhenClosed, Guarded
<1>4. Held'
  BY <1>1 DEF EnterReader, HandleTypeOK, Held, Holds, Guarded, Reading
<1>5. EmptyWhenClosed'
  BY DEF EnterReader, HandleTypeOK, EmptyWhenClosed, Less, Quiet
<1>6. Guarded'
  BY DEF EnterReader, HandleTypeOK, Guarded, Opening, Closing, HoldsWriteLock
<1>7. (conn # 0 => conn \in alive)' /\ NoUseAfterClose'
  BY <1>1 DEF EnterReader, HandleTypeOK, Held, Holds, NoUseAfterClose, Reading, Rest, Guarded
<1>8. HandleTypeOK'
  BY <1>1, <1>3, TypesFromRest
<1> QED
  BY <1>3, <1>4, <1>5, <1>6, <1>7, <1>8

\* Nothing that is counted changes.
LEMMA StartReadInv == ASSUME NEW t \in Caller, Inv, StartRead(t) PROVE Inv'
<1> USE HandleAssumption DEF Inv, At, GoTo, Admits, Return
<1>1. Rest'
  BY DEF StartRead, HandleTypeOK, Rest, Label, Less, Guarded
<1>2. activeReaders' = Cardinality(Readers')
  <2>1. Readers' = Readers
    BY DEF StartRead, HandleTypeOK, Readers, Reading
  <2>2. activeReaders' = activeReaders
    BY DEF StartRead, EmptyWhenClosed, Guarded
  <2> QED
    BY <2>1, <2>2 DEF Counted
<1>3. Counted'
  BY <1>2 DEF StartRead, HandleTypeOK, Counted, HoldsWriteLock, Less, EmptyWhenClosed, Guarded
<1>4. Held'
  BY <1>1 DEF StartRead, HandleTypeOK, Held, Holds, Guarded, Reading
<1>5. EmptyWhenClosed'
  BY DEF StartRead, HandleTypeOK, EmptyWhenClosed, Less, Quiet
<1>6. Guarded'
  BY DEF StartRead, HandleTypeOK, Guarded, Opening, Closing, HoldsWriteLock
<1>7. (conn # 0 => conn \in alive)' /\ NoUseAfterClose'
  BY <1>1 DEF StartRead, HandleTypeOK, Held, Holds, NoUseAfterClose, Reading, Rest, Guarded
<1>8. HandleTypeOK'
  BY <1>1, <1>3, TypesFromRest
<1> QED
  BY <1>3, <1>4, <1>5, <1>6, <1>7, <1>8

\* The reader is still counted, but holds nothing.
LEMMA EndReadInv == ASSUME NEW t \in Caller, Inv, EndRead(t) PROVE Inv'
<1> USE HandleAssumption DEF Inv, At, GoTo, Admits, Return
<1>1. Rest'
  BY DEF EndRead, HandleTypeOK, Rest, Label, Less, Guarded
<1>2. activeReaders' = Cardinality(Readers')
  <2>1. Readers' = Readers
    BY DEF EndRead, HandleTypeOK, Readers, Reading
  <2>2. activeReaders' = activeReaders
    BY DEF EndRead, EmptyWhenClosed, Guarded
  <2> QED
    BY <2>1, <2>2 DEF Counted
<1>3. Counted'
  BY <1>2 DEF EndRead, HandleTypeOK, Counted, HoldsWriteLock, Less, EmptyWhenClosed, Guarded
<1>4. Held'
  BY <1>1 DEF EndRead, HandleTypeOK, Held, Holds, Guarded, Reading
<1>5. EmptyWhenClosed'
  BY DEF EndRead, HandleTypeOK, EmptyWhenClosed, Less, Quiet
<1>6. Guarded'
  BY DEF EndRead, HandleTypeOK, Guarded, Opening, Closing, HoldsWriteLock
<1>7. (conn # 0 => conn \in alive)' /\ NoUseAfterClose'
  BY <1>1 DEF EndRead, HandleTypeOK, Held, Holds, NoUseAfterClose, Reading, Rest, Guarded
<1>8. HandleTypeOK'
  BY <1>1, <1>3, TypesFromRest
<1> QED
  BY <1>3, <1>4, <1>5, <1>6, <1>7, <1>8

\* One reader less is counted.
LEMMA LeaveReaderInv == ASSUME NEW t \in Caller, Inv, LeaveReader(t) PROVE Inv'
<1> USE HandleAssumption DEF Inv, At, GoTo, Admits, Return
<1>1. Rest'
  BY DEF LeaveReader, HandleTypeOK, Rest, Label, Less, Guarded
<1>2. activeReaders' = Cardinality(Readers')
  <2>1. Readers' = Readers \ {t} /\ Reading(t)
    BY DEF LeaveReader, HandleTypeOK, Readers, Reading
  <2> QED
    BY <2>1, OneReaderLess DEF LeaveReader
<1>3. Counted'
  BY <1>2 DEF LeaveReader, HandleTypeOK, Counted, HoldsWriteLock, Less, EmptyWhenClosed, Guarded
<1>4. Held'
  BY <1>1 DEF LeaveReader, HandleTypeOK, Held, Holds, Guarded, Reading
<1>5. EmptyWhenClosed'
  BY DEF LeaveReader, HandleTypeOK, EmptyWhenClosed, Less, Quiet
<1>6. Guarded'
  BY DEF LeaveReader, HandleTypeOK, Guarded, Opening, Closing, HoldsWriteLock
<1>7. (conn # 0 => conn \in alive)' /\ NoUseAfterClose'
  BY <1>1 DEF LeaveReader, HandleTypeOK, Held, Holds, NoUseAfterClose, Reading, Rest, Guarded
<1>8. HandleTypeOK'
  BY <1>1, <1>3, TypesFromRest
<1> QED
  BY <1>3, <1>4, <1>5, <1>6, <1>7, <1>8

\* The lock makes this thread the only one in _writer.
LEMMA TakeWriteLockInv == ASSUME NEW t \in Caller, Inv, TakeWriteLock(t) PROVE Inv'
<1> USE HandleAssumption DEF Inv, At, GoTo, Admits, Return
<1>1. Rest'
  BY DEF TakeWriteLock, HandleTypeOK, Rest, Label, Less, Guarded
<1>2. activeReaders' = Cardinality(Readers')
  <2>1. Readers' = Readers
    BY DEF TakeWriteLock, HandleTypeOK, Readers, Reading
  <2>2. activeReaders' = activeReaders
    BY DEF TakeWriteLock, EmptyWhenClosed, Guarded
  <2> QED
    BY <2>1, <2>2 DEF Counted
<1>3. Counted'
  BY <1>2 DEF TakeWriteLock, HandleTypeOK, Counted, HoldsWriteLock, Less, EmptyWhenClosed, Guarded
<1>4. Held'
  BY <1>1 DEF TakeWriteLock, HandleTypeOK, Held, Holds, Guarded, Reading
<1>5. EmptyWhenClosed'
  BY DEF TakeWriteLock, HandleTypeOK, EmptyWhenClosed, Less, Quiet
<1>6. Guarded'
  BY DEF TakeWriteLock, HandleTypeOK, Guarded, Opening, Closing, HoldsWriteLock
<1>7. (conn # 0 => conn \in alive)' /\ NoUseAfterClose'
  BY <1>1 DEF TakeWriteLock, HandleTypeOK, Held, Holds, NoUseAfterClose, Reading, Rest, Guarded
<1>8. HandleTypeOK'
  BY <1>1, <1>3, TypesFromRest
<1> QED
  BY <1>3, <1>4, <1>5, <1>6, <1>7, <1>8

\* The only writer is counted, or turned away.
LEMMA EnterWriterInv == ASSUME NEW t \in Caller, Inv, EnterWriter(t) PROVE Inv'
<1> USE HandleAssumption DEF Inv, At, GoTo, Admits, Return
<1>1. Rest'
  <2>1. (/\ opens \in 0 .. MaxOpens /\ conn \in 0 .. opens /\ alive \subseteq 1 .. opens
         /\ activeReaders \in Nat /\ activeWriters \in 0 .. 1)'
    BY DEF EnterWriter, HandleTypeOK, Counted, Guarded, HoldsWriteLock
  <2>2. (/\ closing \in BOOLEAN /\ readLock \in Caller \cup {Nobody}
         /\ writeLock \in Caller \cup {Nobody} /\ guard \in Caller \cup {Nobody}
         /\ again \in BOOLEAN /\ ready \in BOOLEAN /\ retired \in BOOLEAN)'
    BY DEF EnterWriter, HandleTypeOK
  <2>3. at' \in [Caller -> Label]
    BY DEF EnterWriter, HandleTypeOK, Label
  <2>4. using' \in [Caller -> 0 .. opens']
    BY DEF EnterWriter, HandleTypeOK
  <2> QED
    BY <2>1, <2>2, <2>3, <2>4 DEF Rest
<1>2. activeReaders' = Cardinality(Readers')
  <2>1. Readers' = Readers
    BY DEF EnterWriter, HandleTypeOK, Readers, Reading
  <2>2. activeReaders' = activeReaders
    BY DEF EnterWriter, EmptyWhenClosed, Guarded
  <2> QED
    BY <2>1, <2>2 DEF Counted
<1>3. Counted'
  BY <1>2 DEF EnterWriter, HandleTypeOK, Counted, HoldsWriteLock, Less, EmptyWhenClosed, Guarded
<1>4. Held'
  BY <1>1 DEF EnterWriter, HandleTypeOK, Held, Holds, Guarded, Reading
<1>5. EmptyWhenClosed'
  BY DEF EnterWriter, HandleTypeOK, EmptyWhenClosed, Less, Quiet
<1>6. Guarded'
  BY DEF EnterWriter, HandleTypeOK, Guarded, Opening, Closing, HoldsWriteLock
<1>7. (conn # 0 => conn \in alive)' /\ NoUseAfterClose'
  BY <1>1 DEF EnterWriter, HandleTypeOK, Held, Holds, NoUseAfterClose, Reading, Rest, Guarded
<1>8. HandleTypeOK'
  BY <1>1, <1>3, TypesFromRest
<1> QED
  BY <1>3, <1>4, <1>5, <1>6, <1>7, <1>8

\* The only writer is counted out.
LEMMA EndWriteInv == ASSUME NEW t \in Caller, Inv, EndWrite(t) PROVE Inv'
<1> USE HandleAssumption DEF Inv, At, GoTo, Admits, Return
<1>1. Rest'
  BY DEF EndWrite, HandleTypeOK, Rest, Label, Less, Guarded
<1>2. activeReaders' = Cardinality(Readers')
  <2>1. Readers' = Readers
    BY DEF EndWrite, HandleTypeOK, Readers, Reading
  <2>2. activeReaders' = activeReaders
    BY DEF EndWrite, EmptyWhenClosed, Guarded
  <2> QED
    BY <2>1, <2>2 DEF Counted
<1>3. Counted'
  BY <1>2 DEF EndWrite, HandleTypeOK, Counted, HoldsWriteLock, Less, EmptyWhenClosed, Guarded
<1>4. Held'
  BY <1>1 DEF EndWrite, HandleTypeOK, Held, Holds, Guarded, Reading
<1>5. EmptyWhenClosed'
  BY DEF EndWrite, HandleTypeOK, EmptyWhenClosed, Less, Quiet
<1>6. Guarded'
  BY DEF EndWrite, HandleTypeOK, Guarded, Opening, Closing, HoldsWriteLock
<1>7. (conn # 0 => conn \in alive)' /\ NoUseAfterClose'
  BY <1>1 DEF EndWrite, HandleTypeOK, Held, Holds, NoUseAfterClose, Reading, Rest, Guarded
<1>8. HandleTypeOK'
  BY <1>1, <1>3, TypesFromRest
<1> QED
  BY <1>3, <1>4, <1>5, <1>6, <1>7, <1>8

\* The lock is free: nobody else was behind it.
LEMMA LeaveWriterInv == ASSUME NEW t \in Caller, Inv, LeaveWriter(t) PROVE Inv'
<1> USE HandleAssumption DEF Inv, At, GoTo, Admits, Return
<1>1. Rest'
  BY DEF LeaveWriter, HandleTypeOK, Rest, Label, Less, Guarded
<1>2. activeReaders' = Cardinality(Readers')
  <2>1. Readers' = Readers
    BY DEF LeaveWriter, HandleTypeOK, Readers, Reading
  <2>2. activeReaders' = activeReaders
    BY DEF LeaveWriter, EmptyWhenClosed, Guarded
  <2> QED
    BY <2>1, <2>2 DEF Counted
<1>3. Counted'
  BY <1>2 DEF LeaveWriter, HandleTypeOK, Counted, HoldsWriteLock, Less, EmptyWhenClosed, Guarded
<1>4. Held'
  BY <1>1 DEF LeaveWriter, HandleTypeOK, Held, Holds, Guarded, Reading
<1>5. EmptyWhenClosed'
  BY DEF LeaveWriter, HandleTypeOK, EmptyWhenClosed, Less, Quiet
<1>6. Guarded'
  BY DEF LeaveWriter, HandleTypeOK, Guarded, Opening, Closing, HoldsWriteLock
<1>7. (conn # 0 => conn \in alive)' /\ NoUseAfterClose'
  BY <1>1 DEF LeaveWriter, HandleTypeOK, Held, Holds, NoUseAfterClose, Reading, Rest, Guarded
<1>8. HandleTypeOK'
  BY <1>1, <1>3, TypesFromRest
<1> QED
  BY <1>3, <1>4, <1>5, <1>6, <1>7, <1>8

\* A handle that nobody was given yet gets one thread that opens it.
LEMMA TakeGuardInv == ASSUME NEW t \in Caller, Inv, TakeGuard(t) PROVE Inv'
<1> USE HandleAssumption DEF Inv, At, GoTo, Admits, Return
<1>1. Rest'
  BY DEF TakeGuard, HandleTypeOK, Rest, Label, Less, Guarded
<1>2. activeReaders' = Cardinality(Readers')
  <2>1. Readers' = Readers
    BY DEF TakeGuard, HandleTypeOK, Readers, Reading
  <2>2. activeReaders' = activeReaders
    BY DEF TakeGuard, EmptyWhenClosed, Guarded
  <2> QED
    BY <2>1, <2>2 DEF Counted
<1>3. Counted'
  BY <1>2 DEF TakeGuard, HandleTypeOK, Counted, HoldsWriteLock, Less, EmptyWhenClosed, Guarded
<1>4. Held'
  BY <1>1 DEF TakeGuard, HandleTypeOK, Held, Holds, Guarded, Reading
<1>5. EmptyWhenClosed'
  BY DEF TakeGuard, HandleTypeOK, EmptyWhenClosed, Less, Quiet
<1>6. Guarded'
  BY DEF TakeGuard, HandleTypeOK, Guarded, Opening, Closing, HoldsWriteLock
<1>7. (conn # 0 => conn \in alive)' /\ NoUseAfterClose'
  BY <1>1 DEF TakeGuard, HandleTypeOK, Held, Holds, NoUseAfterClose, Reading, Rest, Guarded
<1>8. HandleTypeOK'
  BY <1>1, <1>3, TypesFromRest
<1> QED
  BY <1>3, <1>4, <1>5, <1>6, <1>7, <1>8

\* Nobody is inside a handle without connections, so its counters may be zeroed.
LEMMA OpenInv == ASSUME NEW t \in Caller, Inv, Open(t) PROVE Inv'
<1> USE HandleAssumption DEF Inv, At, GoTo, Admits, Return
<1>0. \A u \in Caller : ~Reading(u) /\ ~At(u, "writing")
  BY QuietIsEmpty DEF Open, Guarded, EmptyWhenClosed, Quiet
<1>1. Rest'
  <2>1. (/\ opens \in 0 .. MaxOpens /\ conn \in 0 .. opens /\ alive \subseteq 1 .. opens
         /\ activeReaders \in Nat /\ activeWriters \in 0 .. 1)'
    BY DEF Open, HandleTypeOK, Counted, Guarded, HoldsWriteLock
  <2>2. (/\ closing \in BOOLEAN /\ readLock \in Caller \cup {Nobody}
         /\ writeLock \in Caller \cup {Nobody} /\ guard \in Caller \cup {Nobody}
         /\ again \in BOOLEAN /\ ready \in BOOLEAN /\ retired \in BOOLEAN)'
    BY DEF Open, HandleTypeOK
  <2>3. at' \in [Caller -> Label]
    BY DEF Open, HandleTypeOK, Label
  <2>4. using' \in [Caller -> 0 .. opens']
    BY DEF Open, HandleTypeOK
  <2> QED
    BY <2>1, <2>2, <2>3, <2>4 DEF Rest
<1>2. activeReaders' = Cardinality(Readers')
  <2>1. Readers' = Readers
    BY DEF Open, HandleTypeOK, Readers, Reading
  <2>2. activeReaders' = activeReaders
    BY DEF Open, EmptyWhenClosed, Guarded
  <2> QED
    BY <2>1, <2>2 DEF Counted
<1>3. Counted'
  BY <1>2 DEF Open, HandleTypeOK, Counted, HoldsWriteLock, Less, EmptyWhenClosed, Guarded
<1>4. Held'
  BY <1>0, <1>1 DEF Open, HandleTypeOK, Held, Holds, Guarded, Reading
<1>5. EmptyWhenClosed'
  BY DEF Open, HandleTypeOK, EmptyWhenClosed, Less, Quiet
<1>6. Guarded'
  BY DEF Open, HandleTypeOK, Guarded, Opening, Closing, HoldsWriteLock
<1>7. (conn # 0 => conn \in alive)' /\ NoUseAfterClose'
  BY <1>0, <1>1 DEF Open, HandleTypeOK, Held, Holds, NoUseAfterClose, Reading, Rest, Guarded
<1>8. HandleTypeOK'
  BY <1>1, <1>3, TypesFromRest
<1> QED
  BY <1>3, <1>4, <1>5, <1>6, <1>7, <1>8

\* As Open, but the guard is given up.
LEMMA OpenFailsInv == ASSUME NEW t \in Caller, Inv, OpenFails(t) PROVE Inv'
<1> USE HandleAssumption DEF Inv, At, GoTo, Admits, Return
<1>0. \A u \in Caller : ~Reading(u) /\ ~At(u, "writing")
  BY QuietIsEmpty DEF OpenFails, Guarded, EmptyWhenClosed, Quiet
<1>1. Rest'
  <2>1. (/\ opens \in 0 .. MaxOpens /\ conn \in 0 .. opens /\ alive \subseteq 1 .. opens
         /\ activeReaders \in Nat /\ activeWriters \in 0 .. 1)'
    BY DEF OpenFails, HandleTypeOK, Counted, Guarded, HoldsWriteLock
  <2>2. (/\ closing \in BOOLEAN /\ readLock \in Caller \cup {Nobody}
         /\ writeLock \in Caller \cup {Nobody} /\ guard \in Caller \cup {Nobody}
         /\ again \in BOOLEAN /\ ready \in BOOLEAN /\ retired \in BOOLEAN)'
    BY DEF OpenFails, HandleTypeOK
  <2>3. at' \in [Caller -> Label]
    BY DEF OpenFails, HandleTypeOK, Label
  <2>4. using' \in [Caller -> 0 .. opens']
    BY DEF OpenFails, HandleTypeOK
  <2> QED
    BY <2>1, <2>2, <2>3, <2>4 DEF Rest
<1>2. activeReaders' = Cardinality(Readers')
  <2>1. Readers' = Readers
    BY DEF OpenFails, HandleTypeOK, Readers, Reading
  <2>2. activeReaders' = activeReaders
    BY DEF OpenFails, EmptyWhenClosed, Guarded
  <2> QED
    BY <2>1, <2>2 DEF Counted
<1>3. Counted'
  BY <1>2 DEF OpenFails, HandleTypeOK, Counted, HoldsWriteLock, Less, EmptyWhenClosed, Guarded
<1>4. Held'
  BY <1>0, <1>1 DEF OpenFails, HandleTypeOK, Held, Holds, Guarded, Reading
<1>5. EmptyWhenClosed'
  BY DEF OpenFails, HandleTypeOK, EmptyWhenClosed, Less, Quiet
<1>6. Guarded'
  BY DEF OpenFails, HandleTypeOK, Guarded, Opening, Closing, HoldsWriteLock
<1>7. (conn # 0 => conn \in alive)' /\ NoUseAfterClose'
  BY <1>0, <1>1 DEF OpenFails, HandleTypeOK, Held, Holds, NoUseAfterClose, Reading, Rest, Guarded
<1>8. HandleTypeOK'
  BY <1>1, <1>3, TypesFromRest
<1> QED
  BY <1>3, <1>4, <1>5, <1>6, <1>7, <1>8

\* Whoever gives up the guard is outside.
LEMMA PreparedInv == ASSUME NEW t \in Caller, Inv, Prepared(t) PROVE Inv'
<1> USE HandleAssumption DEF Inv, At, GoTo, Admits, Return
<1>1. Rest'
  <2>1. (/\ opens \in 0 .. MaxOpens /\ conn \in 0 .. opens /\ alive \subseteq 1 .. opens
         /\ activeReaders \in Nat /\ activeWriters \in 0 .. 1)'
    BY DEF Prepared, HandleTypeOK, Counted, Guarded, HoldsWriteLock
  <2>2. (/\ closing \in BOOLEAN /\ readLock \in Caller \cup {Nobody}
         /\ writeLock \in Caller \cup {Nobody} /\ guard \in Caller \cup {Nobody}
         /\ again \in BOOLEAN /\ ready \in BOOLEAN /\ retired \in BOOLEAN)'
    BY DEF Prepared, HandleTypeOK
  <2>3. at' \in [Caller -> Label]
    BY DEF Prepared, HandleTypeOK, Label
  <2>4. using' \in [Caller -> 0 .. opens']
    BY DEF Prepared, HandleTypeOK
  <2> QED
    BY <2>1, <2>2, <2>3, <2>4 DEF Rest
<1>2. activeReaders' = Cardinality(Readers')
  <2>1. Readers' = Readers
    BY DEF Prepared, HandleTypeOK, Readers, Reading
  <2>2. activeReaders' = activeReaders
    BY DEF Prepared, EmptyWhenClosed, Guarded
  <2> QED
    BY <2>1, <2>2 DEF Counted
<1>3. Counted'
  BY <1>2 DEF Prepared, HandleTypeOK, Counted, HoldsWriteLock, Less, EmptyWhenClosed, Guarded
<1>4. Held'
  BY <1>1 DEF Prepared, HandleTypeOK, Held, Holds, Guarded, Reading
<1>5. EmptyWhenClosed'
  BY DEF Prepared, HandleTypeOK, EmptyWhenClosed, Less, Quiet
<1>6. Guarded'
  BY DEF Prepared, HandleTypeOK, Guarded, Opening, Closing, HoldsWriteLock
<1>7. (conn # 0 => conn \in alive)' /\ NoUseAfterClose'
  BY <1>1 DEF Prepared, HandleTypeOK, Held, Holds, NoUseAfterClose, Reading, Rest, Guarded
<1>8. HandleTypeOK'
  BY <1>1, <1>3, TypesFromRest
<1> QED
  BY <1>3, <1>4, <1>5, <1>6, <1>7, <1>8

\* Nobody opens the handle from here on.
LEMMA RetireInv == ASSUME NEW t \in Caller, Inv, Retire(t) PROVE Inv'
<1> USE HandleAssumption DEF Inv, At, GoTo, Admits, Return
<1>1. Rest'
  BY DEF Retire, HandleTypeOK, Rest, Label, Less, Guarded
<1>2. activeReaders' = Cardinality(Readers')
  <2>1. Readers' = Readers
    BY DEF Retire, HandleTypeOK, Readers, Reading
  <2>2. activeReaders' = activeReaders
    BY DEF Retire, EmptyWhenClosed, Guarded
  <2> QED
    BY <2>1, <2>2 DEF Counted
<1>3. Counted'
  BY <1>2 DEF Retire, HandleTypeOK, Counted, HoldsWriteLock, Less, EmptyWhenClosed, Guarded
<1>4. Held'
  BY <1>1 DEF Retire, HandleTypeOK, Held, Holds, Guarded, Reading
<1>5. EmptyWhenClosed'
  BY DEF Retire, HandleTypeOK, EmptyWhenClosed, Less, Quiet
<1>6. Guarded'
  BY DEF Retire, HandleTypeOK, Guarded, Opening, Closing, HoldsWriteLock
<1>7. (conn # 0 => conn \in alive)' /\ NoUseAfterClose'
  BY <1>1 DEF Retire, HandleTypeOK, Held, Holds, NoUseAfterClose, Reading, Rest, Guarded
<1>8. HandleTypeOK'
  BY <1>1, <1>3, TypesFromRest
<1> QED
  BY <1>3, <1>4, <1>5, <1>6, <1>7, <1>8

\* The connections stay as they are while close() waits.
LEMMA BeginCloseInv == ASSUME NEW t \in Caller, Inv, BeginClose(t) PROVE Inv'
<1> USE HandleAssumption DEF Inv, At, GoTo, Admits, Return
<1>1. Rest'
  <2>1. (/\ opens \in 0 .. MaxOpens /\ conn \in 0 .. opens /\ alive \subseteq 1 .. opens
         /\ activeReaders \in Nat /\ activeWriters \in 0 .. 1)'
    BY DEF BeginClose, HandleTypeOK, Counted, Guarded, HoldsWriteLock
  <2>2. (/\ closing \in BOOLEAN /\ readLock \in Caller \cup {Nobody}
         /\ writeLock \in Caller \cup {Nobody} /\ guard \in Caller \cup {Nobody}
         /\ again \in BOOLEAN /\ ready \in BOOLEAN /\ retired \in BOOLEAN)'
    BY DEF BeginClose, HandleTypeOK
  <2>3. at' \in [Caller -> Label]
    BY DEF BeginClose, HandleTypeOK, Label
  <2>4. using' \in [Caller -> 0 .. opens']
    BY DEF BeginClose, HandleTypeOK
  <2> QED
    BY <2>1, <2>2, <2>3, <2>4 DEF Rest
<1>2. activeReaders' = Cardinality(Readers')
  <2>1. Readers' = Readers
    BY DEF BeginClose, HandleTypeOK, Readers, Reading
  <2>2. activeReaders' = activeReaders
    BY DEF BeginClose, EmptyWhenClosed, Guarded
  <2> QED
    BY <2>1, <2>2 DEF Counted
<1>3. Counted'
  BY <1>2 DEF BeginClose, HandleTypeOK, Counted, HoldsWriteLock, Less, EmptyWhenClosed, Guarded
<1>4. Held'
  BY <1>1 DEF BeginClose, HandleTypeOK, Held, Holds, Guarded, Reading
<1>5. EmptyWhenClosed'
  BY DEF BeginClose, HandleTypeOK, EmptyWhenClosed, Less, Quiet
<1>6. Guarded'
  BY DEF BeginClose, HandleTypeOK, Guarded, Opening, Closing, HoldsWriteLock
<1>7. (conn # 0 => conn \in alive)' /\ NoUseAfterClose'
  BY <1>1 DEF BeginClose, HandleTypeOK, Held, Holds, NoUseAfterClose, Reading, Rest, Guarded
<1>8. HandleTypeOK'
  BY <1>1, <1>3, TypesFromRest
<1> QED
  BY <1>3, <1>4, <1>5, <1>6, <1>7, <1>8

\* With both counters at zero nobody holds the connections that close() takes.
LEMMA TakeConnsInv == ASSUME NEW t \in Caller, Inv, TakeConns(t) PROVE Inv'
<1> USE HandleAssumption DEF Inv, At, GoTo, Admits, Return
<1>0. \A u \in Caller : ~Reading(u) /\ ~At(u, "writing")
  BY QuietIsEmpty DEF TakeConns
<1>1. Rest'
  <2>1. (/\ opens \in 0 .. MaxOpens /\ conn \in 0 .. opens /\ alive \subseteq 1 .. opens
         /\ activeReaders \in Nat /\ activeWriters \in 0 .. 1)'
    BY DEF TakeConns, HandleTypeOK, Counted, Guarded, HoldsWriteLock
  <2>2. (/\ closing \in BOOLEAN /\ readLock \in Caller \cup {Nobody}
         /\ writeLock \in Caller \cup {Nobody} /\ guard \in Caller \cup {Nobody}
         /\ again \in BOOLEAN /\ ready \in BOOLEAN /\ retired \in BOOLEAN)'
    BY DEF TakeConns, HandleTypeOK
  <2>3. at' \in [Caller -> Label]
    BY DEF TakeConns, HandleTypeOK, Label
  <2>4. using' \in [Caller -> 0 .. opens']
    BY DEF TakeConns, HandleTypeOK
  <2> QED
    BY <2>1, <2>2, <2>3, <2>4 DEF Rest
<1>2. activeReaders' = Cardinality(Readers')
  <2>1. Readers' = Readers
    BY DEF TakeConns, HandleTypeOK, Readers, Reading
  <2>2. activeReaders' = activeReaders
    BY DEF TakeConns, EmptyWhenClosed, Guarded
  <2> QED
    BY <2>1, <2>2 DEF Counted
<1>3. Counted'
  BY <1>2 DEF TakeConns, HandleTypeOK, Counted, HoldsWriteLock, Less, EmptyWhenClosed, Guarded
<1>4. Held'
  BY <1>0, <1>1 DEF TakeConns, HandleTypeOK, Held, Holds, Guarded, Reading
<1>5. EmptyWhenClosed'
  BY DEF TakeConns, HandleTypeOK, EmptyWhenClosed, Less, Quiet
<1>6. Guarded'
  BY DEF TakeConns, HandleTypeOK, Guarded, Opening, Closing, HoldsWriteLock
<1>7. (conn # 0 => conn \in alive)' /\ NoUseAfterClose'
  BY <1>0, <1>1 DEF TakeConns, HandleTypeOK, Held, Holds, NoUseAfterClose, Reading, Rest, Guarded
<1>8. HandleTypeOK'
  BY <1>1, <1>3, TypesFromRest
<1> QED
  BY <1>3, <1>4, <1>5, <1>6, <1>7, <1>8

\* Connections that close() has taken are held by nobody else.
LEMMA CloseConnsInv == ASSUME NEW t \in Caller, Inv, CloseConns(t) PROVE Inv'
<1> USE HandleAssumption DEF Inv, At, GoTo, Admits, Return
<1>1. Rest'
  <2>0. alive' \subseteq alive /\ alive \subseteq 1 .. opens /\ opens' = opens
    BY DEF CloseConns, HandleTypeOK
  <2>1. (/\ opens \in 0 .. MaxOpens /\ conn \in 0 .. opens
         /\ activeReaders \in Nat /\ activeWriters \in 0 .. 1)'
    BY DEF CloseConns, HandleTypeOK
  <2>2. (/\ closing \in BOOLEAN /\ readLock \in Caller \cup {Nobody}
         /\ writeLock \in Caller \cup {Nobody} /\ guard \in Caller \cup {Nobody}
         /\ again \in BOOLEAN /\ ready \in BOOLEAN /\ retired \in BOOLEAN)'
    BY DEF CloseConns, HandleTypeOK
  <2>3. at' \in [Caller -> Label]
    BY DEF CloseConns, HandleTypeOK, Label
  <2>4. using' \in [Caller -> 0 .. opens']
    BY DEF CloseConns, HandleTypeOK
  <2> QED
    BY <2>0, <2>1, <2>2, <2>3, <2>4 DEF Rest
<1>2. activeReaders' = Cardinality(Readers')
  <2>1. Readers' = Readers
    BY DEF CloseConns, HandleTypeOK, Readers, Reading
  <2>2. activeReaders' = activeReaders
    BY DEF CloseConns, EmptyWhenClosed, Guarded
  <2> QED
    BY <2>1, <2>2 DEF Counted
<1>3. Counted'
  BY <1>2 DEF CloseConns, HandleTypeOK, Counted, HoldsWriteLock, Less, EmptyWhenClosed, Guarded
<1>4. Held'
  BY <1>1 DEF CloseConns, HandleTypeOK, Held, Holds, Guarded, Reading
<1>5. EmptyWhenClosed'
  BY DEF CloseConns, HandleTypeOK, EmptyWhenClosed, Less, Quiet
<1>6. Guarded'
  BY DEF CloseConns, HandleTypeOK, Guarded, Opening, Closing, HoldsWriteLock
<1>7. (conn # 0 => conn \in alive)' /\ NoUseAfterClose'
  BY <1>1 DEF CloseConns, HandleTypeOK, Held, Holds, NoUseAfterClose, Reading, Rest, Guarded
<1>8. HandleTypeOK'
  BY <1>1, <1>3, TypesFromRest
<1> QED
  BY <1>3, <1>4, <1>5, <1>6, <1>7, <1>8

-----------------------------------------------------------------------------
(* The theorems.                                                           *)

\* Every step preserves the invariant.
LEMMA NextInv == Inv /\ [HandleNext]_handleVars => Inv'
<1> SUFFICES ASSUME Inv, [HandleNext]_handleVars PROVE Inv'
  OBVIOUS
<1>1. CASE HandleNext
  <2> PICK t \in Caller : Call(t) \/ TakeWriteLock(t) \/ GoOn(t)
    BY <1>1 DEF HandleNext
  <2> QED
    BY EnterReaderInv, StartReadInv, EndReadInv, LeaveReaderInv, TakeWriteLockInv, EnterWriterInv, EndWriteInv, LeaveWriterInv, TakeGuardInv, OpenInv, OpenFailsInv, PreparedInv, RetireInv, BeginCloseInv, TakeConnsInv, CloseConnsInv DEF Call, GoOn
<1>2. CASE UNCHANGED handleVars
  BY <1>2 DEF handleVars, Inv, HandleTypeOK, Counted, Readers, Reading, HoldsWriteLock,
              Held, Holds, EmptyWhenClosed, Guarded, Opening, Closing, At, NoUseAfterClose
<1> QED
  BY <1>1, <1>2

\* For any finite set of threads, the counters never exceed the threads that
\* could be counted and the other variables keep their types.
THEOREM HandleTypes == HandleSpec => []HandleTypeOK
<1>1. Inv => HandleTypeOK
  BY DEF Inv
<1> QED
  BY InitInv, NextInv, <1>1, PTL DEF HandleSpec

\* For any finite set of threads, no thread ever holds a connection of a
\* CollectionDB or CatalogDB that close() has closed.
THEOREM HandleSafety == HandleSpec => []NoUseAfterClose
<1>1. Inv => NoUseAfterClose
  BY DEF Inv
<1> QED
  BY InitInv, NextInv, <1>1, PTL DEF HandleSpec

\* Every connection that is open is the current one or is being closed.
Accounted ==
  \A n \in alive : n = conn \/ \E t \in Caller : At(t, "dropping") /\ using[t] = n

\* A step keeps track of the connections that are open.
LEMMA AccountedNext ==
  Inv /\ Accounted /\ [HandleNext]_handleVars => Accounted'
<1> SUFFICES ASSUME Inv, Accounted, [HandleNext]_handleVars,
                    NEW n \in alive'
             PROVE  \/ n = conn'
                    \/ \E t \in Caller : At(t, "dropping")' /\ using'[t] = n
  BY DEF Accounted
<1>1. HandleTypeOK /\ Guarded /\ alive \subseteq 1 .. opens
  BY DEF Inv, HandleTypeOK
<1> USE DEF Accounted, At, GoTo
<1>2. CASE HandleNext
  <2>1. PICK t \in Caller : Call(t) \/ TakeWriteLock(t) \/ GoOn(t)
    BY <1>2 DEF HandleNext
  <2>3. CASE EnterReader(t) \/ StartRead(t) \/ LeaveReader(t) \/ EnterWriter(t)
    BY <2>3, <1>1 DEF EnterReader, StartRead, LeaveReader, EnterWriter, HandleTypeOK
  <2>4. CASE EndRead(t) \/ EndWrite(t) \/ LeaveWriter(t) \/ TakeWriteLock(t)
    BY <2>4, <1>1 DEF EndRead, EndWrite, LeaveWriter, TakeWriteLock, HandleTypeOK
  <2>5. CASE TakeGuard(t) \/ Retire(t) \/ Prepared(t) \/ BeginClose(t)
    BY <2>5, <1>1 DEF TakeGuard, Retire, Prepared, BeginClose, Return, HandleTypeOK
  <2>6. CASE Open(t) \/ OpenFails(t)
    \* there was no current connection to forget
    <3>1. conn = 0 /\ using' = using /\ conn' = opens + 1 /\ alive' = alive \cup {opens + 1}
      BY <2>6, <1>1 DEF Open, OpenFails, Guarded
    <3>2. \A u \in Caller : At(u, "dropping") => at'[u] = at[u]
      BY <2>6, <1>1 DEF Open, OpenFails, HandleTypeOK
    <3>3. CASE n = opens + 1
      BY <3>1, <3>3
    <3>4. CASE n \in alive
      <4>1. n # 0
        BY <3>4, <1>1
      <4> QED
        BY <3>1, <3>2, <3>4, <4>1
    <3> QED
      BY <3>1, <3>3, <3>4
  <2>7. CASE TakeConns(t)
    \* the current connection is the closer's now
    <3>1. n \in alive /\ at'[t] = "dropping" /\ using'[t] = conn
          /\ \A u \in Caller : u # t => at'[u] = at[u] /\ using'[u] = using[u]
      BY <2>7, <1>1 DEF TakeConns, HandleTypeOK
    <3>2. ~At(t, "dropping")
      BY <2>7 DEF TakeConns
    <3> QED
      BY <3>1, <3>2
  <2>8. CASE CloseConns(t)
    BY <2>8, <1>1 DEF CloseConns, Return, HandleTypeOK
  <2> QED
    BY <2>1, <2>3, <2>4, <2>5, <2>6, <2>7, <2>8 DEF Call, GoOn
<1>3. CASE UNCHANGED handleVars
  BY <1>3 DEF handleVars
<1> QED
  BY <1>2, <1>3

\* For any finite set of threads and any number of opens, when nobody is
\* inside a CollectionDB or CatalogDB no connection but the current one is open:
\* a bootstrap that failed, a second close() and an open after a failed open
\* leave none behind.
THEOREM HandleCloses == HandleSpec => []NothingLeaks
<1>1. HandleInit => Accounted
  BY DEF HandleInit, Accounted
<1>2. Accounted => NothingLeaks
  BY DEF Accounted, NothingLeaks, At
<1> QED
  BY InitInv, NextInv, AccountedNext, <1>1, <1>2, PTL DEF HandleSpec
=============================================================================
