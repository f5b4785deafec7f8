------------------------------ MODULE DbHandle ------------------------------
(***************************************************************************)
(* One SQLite handle of pave/metadb.py (CollectionDB and CatalogDB share   *)
(* the code): a read and a write connection behind the reader/writer/close *)
(* gate of _reader, _writer, open and close.                               *)
(*                                                                         *)
(* Every step of a thread that runs under _state_cv is one action; the     *)
(* steps outside it (_read_lock, _write_lock, sqlite3's own close) are     *)
(* actions of their own.  close() waits with a timeout, so it looks at the *)
(* counters again whether it is notified or not: the wait is an action     *)
(* that is enabled once both are zero.                                     *)
(*                                                                         *)
(* A store opens a handle under a guard (_catalog_guard, or the write lock *)
(* of the collection), hands it out only once it is ready, and closes it   *)
(* after it has dropped it from its cache (retired): a retired handle is   *)
(* not opened again, but threads that have it may still call it, and it    *)
(* may be closed more than once.                                           *)
(***************************************************************************)
EXTENDS Naturals, FiniteSets

CONSTANTS Caller,      \* the threads that call the handle
          Nobody,
          MaxOpens     \* bound: times open() is called

ASSUME HandleAssumption ==
  /\ IsFiniteSet(Caller)
  /\ Nobody \notin Caller
  /\ MaxOpens \in Nat

VARIABLES
  opens,      \* open() calls so far; each makes the connections of that number
  conn,       \* _rconn and _wconn: their number, or 0 for None
  alive,      \* the numbers of the connections sqlite3 has not closed
  activeReaders, activeWriters,     \* the counters under _state_cv
  closing,    \* _closing
  readLock, writeLock,              \* the thread inside, or Nobody
  guard,      \* the thread that opens the handle
  again,      \* that thread closes the handle to open it again
  ready, retired,                   \* the handle is handed out; dropped
  at,         \* where each thread is
  using       \* the connection each thread holds, 0 for none

handleVars == <<opens, conn, alive, activeReaders, activeWriters, closing,
                readLock, writeLock, guard, again, ready, retired, at, using>>

At(t, label) == at[t] = label
GoTo(t, label) == at' = [at EXCEPT ![t] = label]

\* (mutant of Less: a call that is over stays counted)
LessNever(n) == n

\* A released counter never goes below zero.
Less(n) == IF n > 0 THEN n - 1 ELSE n

HandleInit ==
  /\ opens = 0 /\ conn = 0 /\ alive = {}
  /\ activeReaders = 0 /\ activeWriters = 0 /\ closing = FALSE
  /\ readLock = Nobody /\ writeLock = Nobody /\ guard = Nobody
  /\ again = FALSE /\ ready = FALSE /\ retired = FALSE
  /\ at = [t \in Caller |-> "out"]
  /\ using = [t \in Caller |-> 0]

-----------------------------------------------------------------------------
(* _reader                                                                 *)

\* (mutant of Admits: a thread enters although close() waits)
AdmitsAlways == conn # 0

\* What _reader and _writer ask for before they count themselves in; else they
\* raise, which changes nothing.
Admits == conn # 0 /\ ~closing

EnterReader(t) ==
  /\ At(t, "out") /\ ready
  /\ Admits
  /\ activeReaders' = activeReaders + 1
  /\ using' = [using EXCEPT ![t] = conn]
  /\ GoTo(t, "queued")
  /\ UNCHANGED <<opens, conn, alive, activeWriters, closing, readLock, writeLock,
                 guard, again, ready, retired>>

StartRead(t) ==
  /\ At(t, "queued") /\ readLock = Nobody
  /\ readLock' = t
  /\ GoTo(t, "reading")
  /\ UNCHANGED <<opens, conn, alive, activeReaders, activeWriters, closing,
                 writeLock, guard, again, ready, retired, using>>

EndRead(t) ==
  /\ At(t, "reading")
  /\ readLock' = Nobody
  /\ using' = [using EXCEPT ![t] = 0]
  /\ GoTo(t, "read")
  /\ UNCHANGED <<opens, conn, alive, activeReaders, activeWriters, closing,
                 writeLock, guard, again, ready, retired>>

LeaveReader(t) ==
  /\ At(t, "read")
  /\ activeReaders' = Less(activeReaders)
  /\ GoTo(t, "out")
  /\ UNCHANGED <<opens, conn, alive, activeWriters, closing, readLock, writeLock,
                 guard, again, ready, retired, using>>

-----------------------------------------------------------------------------
(* _writer: the lock comes first, the count after it.  The thread that     *)
(* opens the handle runs the migrations and the bootstrap through it.      *)

TakeWriteLock(t) ==
  /\ \/ At(t, "out") /\ ready
     \/ At(t, "opened")
  /\ writeLock = Nobody
  /\ writeLock' = t
  /\ GoTo(t, "entering")
  /\ UNCHANGED <<opens, conn, alive, activeReaders, activeWriters, closing,
                 readLock, guard, again, ready, retired, using>>

EnterWriter(t) ==
  /\ At(t, "entering")
  /\ \/ /\ Admits
        /\ activeWriters' = activeWriters + 1
        /\ using' = [using EXCEPT ![t] = conn]
        /\ GoTo(t, "writing")
     \/ /\ ~Admits
        /\ GoTo(t, "written")
        /\ UNCHANGED <<activeWriters, using>>
  /\ UNCHANGED <<opens, conn, alive, activeReaders, closing, readLock, writeLock,
                 guard, again, ready, retired>>

EndWrite(t) ==
  /\ At(t, "writing")
  /\ activeWriters' = Less(activeWriters)
  /\ using' = [using EXCEPT ![t] = 0]
  /\ GoTo(t, "written")
  /\ UNCHANGED <<opens, conn, alive, activeReaders, closing, readLock, writeLock,
                 guard, again, ready, retired>>

LeaveWriter(t) ==
  /\ At(t, "written")
  /\ writeLock' = Nobody
  /\ GoTo(t, IF guard = t THEN "prepared" ELSE "out")
  /\ UNCHANGED <<opens, conn, alive, activeReaders, activeWriters, closing,
                 readLock, guard, again, ready, retired, using>>

-----------------------------------------------------------------------------
(* open, and the guard around it                                           *)

\* (mutant of TakeGuard: the open handle is not closed first)
TakeGuardOver(t) ==
  /\ At(t, "out") /\ guard = Nobody
  /\ ~ready /\ ~retired /\ opens < MaxOpens
  /\ guard' = t
  /\ again' = FALSE
  /\ GoTo(t, "opening")
  /\ UNCHANGED <<opens, conn, alive, activeReaders, activeWriters, closing,
                 readLock, writeLock, ready, retired, using>>

\* A handle that is open but not ready is one whose bootstrap has failed: it is
\* closed first.
TakeGuard(t) ==
  /\ At(t, "out") /\ guard = Nobody
  /\ ~ready /\ ~retired /\ opens < MaxOpens
  /\ guard' = t
  /\ again' = (conn # 0)
  /\ GoTo(t, IF conn # 0 THEN "closing" ELSE "opening")
  /\ UNCHANGED <<opens, conn, alive, activeReaders, activeWriters, closing,
                 readLock, writeLock, ready, retired, using>>

Open(t) ==
  /\ At(t, "opening")
  /\ opens' = opens + 1
  /\ conn' = opens + 1
  /\ alive' = alive \cup {opens + 1}
  /\ activeReaders' = 0 /\ activeWriters' = 0 /\ closing' = FALSE
  /\ again' = FALSE
  /\ GoTo(t, "opened")
  /\ UNCHANGED <<readLock, writeLock, guard, ready, retired, using>>

\* The write connection does not open: the read connection stays behind.
OpenFails(t) ==
  /\ At(t, "opening")
  /\ opens' = opens + 1
  /\ conn' = opens + 1
  /\ alive' = alive \cup {opens + 1}
  /\ again' = FALSE /\ guard' = Nobody
  /\ GoTo(t, "out")
  /\ UNCHANGED <<activeReaders, activeWriters, closing, readLock, writeLock,
                 ready, retired, using>>

\* Migrations and bootstrap succeed, or the bootstrap fails and leaves the
\* handle open, or the migrations fail and close it.
Prepared(t) ==
  /\ At(t, "prepared")
  /\ \/ ready' = TRUE /\ guard' = Nobody /\ GoTo(t, "out")
     \/ guard' = Nobody /\ GoTo(t, "out") /\ UNCHANGED ready
     \/ GoTo(t, "closing") /\ UNCHANGED <<ready, guard>>
  /\ UNCHANGED <<opens, conn, alive, activeReaders, activeWriters, closing,
                 readLock, writeLock, again, retired, using>>

-----------------------------------------------------------------------------
(* close                                                                   *)

\* The store drops the handle from its cache and then closes it.
Retire(t) ==
  /\ At(t, "out") /\ guard = Nobody
  /\ retired' = TRUE
  /\ GoTo(t, "closing")
  /\ UNCHANGED <<opens, conn, alive, activeReaders, activeWriters, closing,
                 readLock, writeLock, guard, again, ready, using>>

\* close() returns: to open it again, or to give up the guard, or to its caller.
Return(t) ==
  /\ GoTo(t, IF guard = t /\ again THEN "opening" ELSE "out")
  /\ guard' = IF guard = t /\ ~again THEN Nobody ELSE guard

BeginClose(t) ==
  /\ At(t, "closing")
  /\ \/ /\ conn = 0
        /\ closing' = FALSE
        /\ Return(t)
     \/ /\ conn # 0
        /\ closing' = TRUE
        /\ GoTo(t, "waiting")
        /\ UNCHANGED guard
  /\ UNCHANGED <<opens, conn, alive, activeReaders, activeWriters, readLock,
                 writeLock, again, ready, retired, using>>

\* (mutant of Quiet: close() waits for the readers only)
QuietReaders == activeReaders = 0

\* What close() waits for.
Quiet == activeReaders = 0 /\ activeWriters = 0

TakeConns(t) ==
  /\ At(t, "waiting") /\ Quiet
  /\ using' = [using EXCEPT ![t] = conn]
  /\ conn' = 0
  /\ closing' = FALSE
  /\ GoTo(t, "dropping")
  /\ UNCHANGED <<opens, alive, activeReaders, activeWriters, readLock, writeLock,
                 guard, again, ready, retired>>

CloseConns(t) ==
  /\ At(t, "dropping")
  /\ alive' = alive \ {using[t]}
  /\ using' = [using EXCEPT ![t] = 0]
  /\ Return(t)
  /\ UNCHANGED <<opens, conn, activeReaders, activeWriters, closing, readLock,
                 writeLock, again, ready, retired>>

-----------------------------------------------------------------------------

\* A new call on the handle.
Call(t) == EnterReader(t) \/ TakeGuard(t) \/ Retire(t)
\* What a thread does once it has begun.
GoOn(t) ==
  \/ StartRead(t) \/ EndRead(t) \/ LeaveReader(t)
  \/ EnterWriter(t) \/ EndWrite(t) \/ LeaveWriter(t)
  \/ Open(t) \/ OpenFails(t) \/ Prepared(t)
  \/ BeginClose(t) \/ TakeConns(t) \/ CloseConns(t)

HandleNext == \E t \in Caller : Call(t) \/ TakeWriteLock(t) \/ GoOn(t)

HandleSpec == HandleInit /\ [][HandleNext]_handleVars

\* A thread that is inside keeps running; the one that opens gets _write_lock
\* in the end, for nobody else uses the handle yet.
HandleFairness ==
  \A t \in Caller : /\ WF_handleVars(GoOn(t))
                    /\ WF_handleVars(At(t, "opened") /\ TakeWriteLock(t))

-----------------------------------------------------------------------------
(* What the handle promises.                                               *)

Label == {"out", "queued", "reading", "read", "entering", "writing", "written",
          "opening", "opened", "prepared", "closing", "waiting", "dropping"}

\* The variables keep their types: the counters of active calls never exceed
\* the number of threads, so none is counted twice.
HandleTypeOK ==
  /\ opens \in 0 .. MaxOpens
  /\ conn \in 0 .. opens
  /\ alive \subseteq 1 .. opens
  /\ activeReaders \in 0 .. Cardinality(Caller)
  /\ activeWriters \in 0 .. 1
  /\ closing \in BOOLEAN
  /\ readLock \in Caller \cup {Nobody}
  /\ writeLock \in Caller \cup {Nobody}
  /\ guard \in Caller \cup {Nobody}
  /\ again \in BOOLEAN /\ ready \in BOOLEAN /\ retired \in BOOLEAN
  /\ at \in [Caller -> Label]
  /\ using \in [Caller -> 0 .. opens]

\* A connection is closed only when no thread holds it any more: a read that
\* queues for _read_lock, a read or write that runs, and a second close() all
\* find the connection they took alive, however they interleave with close().
NoUseAfterClose == \A t \in Caller : using[t] # 0 => using[t] \in alive

\* When nobody is inside the handle, at most the current connections are open:
\* every connection that open() made is closed by somebody.
NothingLeaks == (\A t \in Caller : At(t, "out")) => alive \subseteq {conn}

\* close() returns although calls keep coming: those that arrive after it are
\* turned away, and those inside leave.
CloseEnds == \A t \in Caller : At(t, "closing") ~> ~(At(t, "closing") \/ At(t, "waiting"))
=============================================================================
