------------------------------ MODULE Metrics ------------------------------
(***************************************************************************)
(* The counters of pave/metrics.py and their file metrics.json.  Handlers  *)
(* count under the lock; a reset zeroes under the lock and then saves; the *)
(* shutdown saves if _dirty is set.  save() takes its snapshot under the   *)
(* lock, clears _dirty there, and replaces the file outside it, so what it *)
(* writes may be old when it lands, and a failure is swallowed.            *)
(*                                                                         *)
(* load() restores the counters that the module declares (Known), the last *)
(* error and the latencies; a counter that inc() has added since is in the *)
(* file but not restored.                                                  *)
(***************************************************************************)
EXTENDS Naturals

CONSTANTS Counter, Known,     \* all counters, and those declared at import
          Handler, Main,      \* threads that reset, and the one that shuts down
          MaxCount            \* bound on each counter

ASSUME MetricsAssumption ==
  /\ Known \subseteq Counter
  /\ Main \notin Handler
  /\ MaxCount \in Nat

Saver == Handler \cup {Main}

VARIABLES
  count, dirty,      \* _counters and _dirty
  file,              \* the counters in metrics.json
  save,              \* where each thread is in save()
  snap,              \* the snapshot it took
  process,           \* up, stopping (flush runs), exited, crashed
  counted,           \* the counters when the shutdown began
  failed, crossed    \* a save failed; two saves ran at once

metricsVars == <<count, dirty, file, save, snap, process, counted, failed, crossed>>

Zero == [c \in Counter |-> 0]

MetricsInit ==
  /\ count = Zero /\ dirty = FALSE /\ file = Zero
  /\ save = [t \in Saver |-> "no"] /\ snap = [t \in Saver |-> Zero]
  /\ process = "up" /\ counted = Zero
  /\ failed = FALSE /\ crossed = FALSE

-----------------------------------------------------------------------------
\* (mutant of Inc: a counter is set without _dirty)
IncQuietly(c) ==
  /\ process \in {"up", "stopping"}
  /\ count[c] < MaxCount
  /\ count' = [count EXCEPT ![c] = @ + 1]
  /\ UNCHANGED <<dirty, file, save, snap, process, counted, failed, crossed>>

\* inc, set_error and record_latency; a search whose request is over may still
\* count while the process stops.
Inc(c) ==
  /\ process \in {"up", "stopping"}
  /\ count[c] < MaxCount
  /\ count' = [count EXCEPT ![c] = @ + 1]
  /\ dirty' = TRUE
  /\ UNCHANGED <<file, save, snap, process, counted, failed, crossed>>

\* reset() zeroes, which does not set _dirty, and calls save().
Reset(t) ==
  /\ process = "up" /\ save[t] = "no"
  /\ count' = Zero
  /\ save' = [save EXCEPT ![t] = "called"]
  /\ UNCHANGED <<dirty, file, snap, process, counted, failed, crossed>>

\* save() up to the end of the lock.
Snapshot(t) ==
  /\ save[t] = "called"
  /\ snap' = [snap EXCEPT ![t] = count]
  /\ dirty' = FALSE
  /\ crossed' = (crossed \/ \E u \in Saver \ {t} : save[u] = "writing")
  /\ save' = [save EXCEPT ![t] = "writing"]
  /\ UNCHANGED <<count, file, process, counted, failed>>

\* save() returns and forgets its snapshot, to its handler or to the shutdown.
Saved(t) ==
  /\ save' = [save EXCEPT ![t] = "no"] /\ snap' = [snap EXCEPT ![t] = Zero]
  /\ process' = IF t = Main THEN "exited" ELSE process

\* (mutant of Replace: _dirty is cleared when the file is there)
ReplaceAndClear(t) ==
  /\ save[t] = "writing"
  /\ file' = snap[t]
  /\ dirty' = FALSE
  /\ Saved(t)
  /\ UNCHANGED <<count, counted, failed, crossed>>

\* The temporary file is written and takes the place of metrics.json.
Replace(t) ==
  /\ save[t] = "writing"
  /\ file' = snap[t]
  /\ Saved(t)
  /\ UNCHANGED <<count, dirty, counted, failed, crossed>>

\* The directory or the temporary file fails; the exception is swallowed.
SaveFails(t) ==
  /\ save[t] \in {"called", "writing"}
  /\ failed' = TRUE
  /\ Saved(t)
  /\ UNCHANGED <<count, dirty, file, counted, crossed>>

\* The requests are over and flush() looks at _dirty, without the lock.
Shutdown ==
  /\ process = "up" /\ \A t \in Saver : save[t] = "no"
  /\ counted' = count
  /\ process' = IF dirty THEN "stopping" ELSE "exited"
  /\ save' = IF dirty THEN [save EXCEPT ![Main] = "called"] ELSE save
  /\ UNCHANGED <<count, dirty, file, snap, failed, crossed>>

\* The process dies; what it had not written is lost.
Crash ==
  /\ process \in {"up", "stopping"}
  /\ process' = "crashed"
  /\ save' = [t \in Saver |-> "no"] /\ snap' = [t \in Saver |-> Zero]
  /\ UNCHANGED <<count, dirty, file, counted, failed, crossed>>

\* The next process loads the file.
Load ==
  /\ process \in {"exited", "crashed"}
  /\ count' = [c \in Counter |-> IF c \in Known THEN file[c] ELSE 0]
  /\ dirty' = FALSE /\ failed' = FALSE /\ crossed' = FALSE
  /\ counted' = Zero
  /\ process' = "up"
  /\ UNCHANGED <<file, save, snap>>

MetricsNext ==
  \/ \E c \in Counter : Inc(c)
  \/ \E t \in Handler : Reset(t)
  \/ \E t \in Saver : Snapshot(t) \/ Replace(t) \/ SaveFails(t)
  \/ Shutdown \/ Crash \/ Load

MetricsSpec == MetricsInit /\ [][MetricsNext]_metricsVars

-----------------------------------------------------------------------------
\* When nobody saves and _dirty is clear, the file holds the counters, unless a
\* save has failed or two have crossed: nothing that was counted or reset waits
\* for a save that will not come.
CleanIsSaved ==
  process = "up" /\ ~dirty /\ ~failed /\ ~crossed /\ (\A t \in Saver : save[t] = "no") =>
    \A c \in Known : file[c] = count[c]

\* After a shutdown and a restart the counters that load() restores are what
\* they were when the shutdown began, or what searches have added since, again
\* unless a save has failed or two have crossed.
RestartKeepsCounts ==
  [][process = "exited" /\ process' = "up" /\ ~failed /\ ~crossed =>
       \A c \in Known : count'[c] \in counted[c] .. count[c]]_metricsVars
=============================================================================
