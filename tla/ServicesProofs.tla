--------------------------- MODULE ServicesProofs --------------------------
(***************************************************************************)
(* Proofs about the three small modules Metrics, Preprocess and Filters,   *)
(* which share no state: each part has an invariant of its own, and only   *)
(* cites the assumption of its own module.                                 *)
(*                                                                         *)
(* Metrics, for any counters and threads.  CleanIsSaved looks at moments   *)
(* without a save; the invariant says who will write the counters in       *)
(* between.  While _dirty is clear, no save has failed and no two have     *)
(* crossed, either a save is still to take its snapshot, or the one that   *)
(* writes has a snapshot that agrees with the counters, or the file agrees *)
(* already.                                                                *)
(*                                                                         *)
(* Preprocess, for any text, window, overlap and CSV file.  Every position *)
(* the generator is past lies in the stride of a window it has yielded;    *)
(* the records of a CSV file are those of its rows, in order.              *)
(*                                                                         *)
(* Filters, for any metadata and filter.  What is kept matches and is in   *)
(* the order of the candidates; of those looked at none is missed that     *)
(* survives the pushdown and matches; and what matches survives wherever   *)
(* the tables and the merged metadata tell the same.                       *)
(***************************************************************************)
EXTENDS Metrics, Preprocess, Filters, TLAPS

-----------------------------------------------------------------------------
(* Metrics.                                                                *)

Numbers == [Counter -> Nat]

MetricsTypeOK ==
  /\ count \in Numbers /\ file \in Numbers /\ counted \in Numbers
  /\ snap \in [Saver -> Numbers]
  /\ dirty \in BOOLEAN /\ failed \in BOOLEAN /\ crossed \in BOOLEAN
  /\ save \in [Saver -> {"no", "called", "writing"}]
  /\ process \in {"up", "stopping", "exited", "crashed"}

Agree(f, g) == \A c \in Known : f[c] = g[c]
Between(f, g, h) == \A c \in Known : f[c] <= g[c] /\ g[c] <= h[c]

NoSave == \A t \in Saver : save[t] = "no"

\* Who saves when: handlers while the process is up, Main while it stops.
Phases ==
  /\ process = "up" => save[Main] = "no"
  /\ process = "stopping" => save[Main] # "no" /\ \A t \in Handler : save[t] = "no"
  /\ process \in {"exited", "crashed"} => NoSave

\* Two saves that write at once have crossed.
Alone ==
  ~crossed => \A t, u \in Saver : save[t] = "writing" /\ save[u] = "writing" => t = u

\* The file has the counters, or will have them.
Covered ==
  process = "up" /\ ~dirty /\ ~failed /\ ~crossed =>
    \/ \E t \in Saver : save[t] = "called"
    \/ \E t \in Saver : save[t] = "writing" /\ Agree(snap[t], count)
    \/ NoSave /\ Agree(file, count)

\* What the shutdown found, what it writes and what is counted meanwhile.
Stopping ==
  /\ process \in {"stopping", "exited"} => Between(counted, count, count)
  /\ process = "stopping" /\ save[Main] = "writing" => Between(counted, snap[Main], count)
  /\ process = "exited" /\ ~failed /\ ~crossed => Between(counted, file, count)

CountsInv == MetricsTypeOK /\ Phases /\ Alone /\ Covered /\ Stopping

-----------------------------------------------------------------------------

LEMMA CountsInitially == MetricsInit => CountsInv
<1>. SUFFICES ASSUME MetricsInit PROVE CountsInv
  OBVIOUS
<1>1. MetricsTypeOK
  BY DEF MetricsInit, MetricsTypeOK, Numbers, Zero
<1>2. NoSave /\ Main \in Saver
  BY DEF MetricsInit, NoSave, Saver
<1>3. Agree(file, count)
  BY DEF MetricsInit, Agree
<1>4. Phases /\ Alone /\ Covered /\ Stopping
  BY <1>2, <1>3 DEF MetricsInit, Phases, Alone, Covered, Stopping, NoSave
<1>. QED BY <1>1, <1>4 DEF CountsInv

\* Counting sets _dirty, and only raises a counter.
LEMMA IncInv == ASSUME NEW c \in Counter, CountsInv, Inc(c) PROVE CountsInv'
<1>1. MetricsTypeOK'
  BY DEF CountsInv, MetricsTypeOK, Numbers, Inc
<1>2. \A k \in Counter : count[k] \in Nat /\ count'[k] \in Nat /\ count[k] <= count'[k]
  BY DEF CountsInv, MetricsTypeOK, Numbers, Inc
<1>3. Phases' /\ Alone' /\ Covered'
  BY DEF CountsInv, Inc, Phases, NoSave, Alone, Covered
<1>4. Stopping'
  <2>1. ASSUME NEW f \in Numbers, NEW g \in Numbers, Between(f, g, count)
        PROVE  Between(f, g, count')
    BY <1>2, <2>1, MetricsAssumption DEF Between, Numbers
  <2>2. ASSUME Between(counted, count, count) PROVE Between(counted, count, count)'
    BY <1>2, <2>2, MetricsAssumption DEF Between, Numbers, CountsInv, MetricsTypeOK, Inc
  <2>. QED BY <2>1, <2>2, MetricsAssumption
           DEF CountsInv, MetricsTypeOK, Inc, Stopping, Saver, Between
<1>. QED BY <1>1, <1>3, <1>4 DEF CountsInv

LEMMA ResetInv == ASSUME NEW t \in Handler, CountsInv, Reset(t) PROVE CountsInv'
<1>1. t \in Saver /\ t # Main
  BY MetricsAssumption DEF Saver
<1>2. MetricsTypeOK'
  BY <1>1 DEF CountsInv, MetricsTypeOK, Numbers, Zero, Reset
<1>3. Phases' /\ Alone' /\ Stopping'
  BY <1>1 DEF CountsInv, MetricsTypeOK, Reset, Phases, Alone, Stopping
<1>4. Covered'
  BY <1>1 DEF CountsInv, MetricsTypeOK, Reset, Covered
<1>. QED BY <1>2, <1>3, <1>4 DEF CountsInv

\* From here the snapshot is what the file will hold.
LEMMA SnapshotInv == ASSUME NEW t \in Saver, CountsInv, Snapshot(t) PROVE CountsInv'
<1>1. MetricsTypeOK'
  BY DEF CountsInv, MetricsTypeOK, Numbers, Snapshot
<1>2. Phases'
  BY MetricsAssumption DEF CountsInv, MetricsTypeOK, Snapshot, Phases, NoSave, Saver
<1>3. Alone'
  BY DEF CountsInv, MetricsTypeOK, Snapshot, Alone
<1>4. Covered'
  BY DEF CountsInv, MetricsTypeOK, Snapshot, Covered, Agree
<1>5. Stopping'
  <2>1. process = "stopping" => t = Main
    BY DEF CountsInv, Phases, Saver, Snapshot
  <2>2. process # "exited"
    BY DEF CountsInv, Phases, NoSave, Snapshot
  <2>. QED BY <2>1, <2>2, MetricsAssumption
           DEF CountsInv, MetricsTypeOK, Snapshot, Stopping, Between, Saver
<1>. QED BY <1>1, <1>2, <1>3, <1>4, <1>5 DEF CountsInv

\* The end of save(), whether it has written the file or not.
LEMMA SavedPhases ==
  ASSUME NEW t \in Saver, CountsInv, save[t] # "no", Saved(t), UNCHANGED <<count, counted, crossed>>
  PROVE  /\ Phases' /\ Alone'
         /\ process' = "up" <=> t # Main
         /\ process = "stopping" <=> t = Main
         /\ process' = IF t = Main THEN "exited" ELSE "up"
<1>1. process = "stopping" <=> t = Main
  BY DEF CountsInv, MetricsTypeOK, Phases, NoSave, Saver
<1>2. t # Main => process = "up"
  BY <1>1 DEF CountsInv, MetricsTypeOK, Phases, NoSave
<1>3. Phases'
  BY <1>1, <1>2, MetricsAssumption DEF CountsInv, MetricsTypeOK, Phases, NoSave, Saver, Saved
<1>4. Alone'
  BY DEF CountsInv, MetricsTypeOK, Alone, Saved
<1>. QED BY <1>1, <1>2, <1>3, <1>4 DEF Saved

LEMMA SavedTypes ==
  ASSUME NEW t \in Saver, CountsInv, Saved(t), UNCHANGED <<count, counted, dirty, crossed>>,
         file' \in Numbers, failed' \in BOOLEAN
  PROVE  MetricsTypeOK'
  BY DEF CountsInv, MetricsTypeOK, Numbers, Saved, Zero

\* The file gets a snapshot; if nobody waits to save, the counters agree with it.
LEMMA ReplaceInv == ASSUME NEW t \in Saver, CountsInv, Replace(t) PROVE CountsInv'
<1>1. /\ Saved(t) /\ save[t] = "writing" /\ file' = snap[t]
      /\ UNCHANGED <<count, dirty, counted, failed, crossed>>
  BY DEF Replace
<1>2. MetricsTypeOK'
  BY <1>1, SavedTypes DEF CountsInv, MetricsTypeOK
<1>3. Phases' /\ Alone' /\ (process = "stopping" <=> t = Main)
      /\ process' = IF t = Main THEN "exited" ELSE "up"
  BY <1>1, SavedPhases
<1>4. save' = [save EXCEPT ![t] = "no"] /\ snap' = [snap EXCEPT ![t] = Zero]
  BY <1>1 DEF Saved
<1>5. Covered'
  <2>. SUFFICES ASSUME process' = "up", ~dirty, ~failed, ~crossed
                PROVE  \/ \E u \in Saver : save'[u] = "called"
                       \/ NoSave' /\ Agree(file', count')
    BY <1>1 DEF Covered
  <2>1. process = "up"
    BY <1>1, <1>3 DEF CountsInv, MetricsTypeOK, Phases, NoSave
  <2>2. CASE \E u \in Saver : save[u] = "called"
    BY <2>2, <1>1, <1>4 DEF CountsInv, MetricsTypeOK
  <2>3. CASE \E u \in Saver : save[u] = "writing" /\ Agree(snap[u], count)
    <3>1. Agree(snap[t], count)
      BY <2>3, <1>1 DEF CountsInv, Alone
    <3>2. Agree(file', count')
      BY <3>1, <1>1 DEF Agree
    <3>3. \A u \in Saver : save'[u] # "writing"
      BY <1>1, <1>4 DEF CountsInv, MetricsTypeOK, Alone
    <3>. QED BY <3>2, <3>3, <1>2 DEF NoSave, MetricsTypeOK
  <2>4. CASE NoSave /\ Agree(file, count)
    BY <2>4, <1>1 DEF NoSave
  <2>. QED BY <2>1, <2>2, <2>3, <2>4 DEF CountsInv, Covered
<1>6. Stopping'
  BY <1>1, <1>3 DEF CountsInv, Stopping, Between
<1>. QED BY <1>2, <1>3, <1>5, <1>6 DEF CountsInv

LEMMA SaveFailsInv == ASSUME NEW t \in Saver, CountsInv, SaveFails(t) PROVE CountsInv'
<1>1. Saved(t) /\ save[t] # "no" /\ failed' /\ UNCHANGED <<count, dirty, file, counted, crossed>>
  BY DEF SaveFails
<1>2. MetricsTypeOK'
  BY <1>1, SavedTypes DEF CountsInv, MetricsTypeOK, SaveFails
<1>3. Phases' /\ Alone' /\ (process = "stopping" <=> t = Main)
      /\ process' = IF t = Main THEN "exited" ELSE "up"
  BY <1>1, SavedPhases
<1>4. Covered' /\ Stopping'
  BY <1>1, <1>3 DEF CountsInv, Covered, Stopping, Between
<1>. QED BY <1>2, <1>3, <1>4 DEF CountsInv

\* Without _dirty there is nothing to save: the file has the counters.
LEMMA ShutdownInv == ASSUME CountsInv, Shutdown PROVE CountsInv'
<1>1. Main \in Saver /\ NoSave
  BY DEF Saver, Shutdown, NoSave
<1>2. MetricsTypeOK'
  BY <1>1 DEF CountsInv, MetricsTypeOK, Shutdown
<1>3. Phases' /\ Alone' /\ Covered'
  BY <1>1, MetricsAssumption
  DEF CountsInv, MetricsTypeOK, Shutdown, Phases, Alone, Covered, NoSave, Saver
<1>4. ~dirty /\ ~failed /\ ~crossed => Agree(file, count)
  BY <1>1 DEF CountsInv, Shutdown, Covered, NoSave
<1>5. \A c \in Known : count[c] \in Nat
  BY MetricsAssumption DEF CountsInv, MetricsTypeOK, Numbers
<1>6. Stopping'
  BY <1>1, <1>4, <1>5 DEF CountsInv, MetricsTypeOK, Shutdown, Stopping, Between, Agree
<1>. QED BY <1>2, <1>3, <1>6 DEF CountsInv

LEMMA CrashInv == ASSUME CountsInv, Crash PROVE CountsInv'
<1>1. MetricsTypeOK'
  BY DEF CountsInv, MetricsTypeOK, Numbers, Zero, Crash
<1>2. Phases' /\ Alone' /\ Covered' /\ Stopping'
  BY DEF CountsInv, Crash, Phases, Alone, Covered, Stopping, NoSave, Saver
<1>. QED BY <1>1, <1>2 DEF CountsInv

LEMMA LoadInv == ASSUME CountsInv, Load PROVE CountsInv'
<1>1. MetricsTypeOK'
  BY DEF CountsInv, MetricsTypeOK, Numbers, Zero, Load
<1>2. NoSave /\ NoSave'
  BY DEF CountsInv, Phases, Load, NoSave
<1>3. Agree(file', count')
  BY MetricsAssumption DEF Load, Agree
<1>4. Phases' /\ Alone' /\ Covered' /\ Stopping'
  BY <1>2, <1>3 DEF Load, Phases, Alone, Covered, Stopping, NoSave, Saver
<1>. QED BY <1>1, <1>4 DEF CountsInv

LEMMA CountsNext == CountsInv /\ [MetricsNext]_metricsVars => CountsInv'
<1>. SUFFICES ASSUME CountsInv, [MetricsNext]_metricsVars PROVE CountsInv'
  OBVIOUS
<1>1. CASE UNCHANGED metricsVars
  BY <1>1 DEF metricsVars, CountsInv, MetricsTypeOK, Phases, Alone, Covered, Stopping, NoSave,
              Agree, Between
<1>2. CASE MetricsNext
  BY <1>2, IncInv, ResetInv, SnapshotInv, ReplaceInv, SaveFailsInv, ShutdownInv, CrashInv, LoadInv
  DEF MetricsNext
<1>. QED BY <1>1, <1>2

-----------------------------------------------------------------------------

\* For any counters and threads, when nobody saves and _dirty is clear the file
\* holds the counters, unless a save has failed or two have crossed.
THEOREM FileFollows == MetricsSpec => []CleanIsSaved
<1>1. CountsInv => CleanIsSaved
  BY DEF CountsInv, Covered, CleanIsSaved, NoSave, Agree
<1>. QED BY <1>1, CountsInitially, CountsNext, PTL DEF MetricsSpec

\* For any counters and threads, a shutdown and a restart keep what was counted
\* when the shutdown began, unless a save has failed or two have crossed.
THEOREM RestartIsFaithful == MetricsSpec => RestartKeepsCounts
<1>1. CountsInv /\ [MetricsNext]_metricsVars =>
        [process = "exited" /\ process' = "up" /\ ~failed /\ ~crossed =>
           \A c \in Known : count'[c] \in counted[c] .. count[c]]_metricsVars
  <2>. SUFFICES ASSUME CountsInv, MetricsNext, process = "exited", process' = "up",
                       ~failed, ~crossed,
                       NEW c \in Known
                PROVE  count'[c] \in counted[c] .. count[c]
    OBVIOUS
  <2>1. Load
    BY DEF MetricsNext, Inc, Reset, Snapshot, Replace, SaveFails, Saved, Shutdown, Crash, Load,
           CountsInv, Phases, NoSave
  <2>2. c \in Counter /\ count'[c] = file[c]
    BY <2>1, MetricsAssumption DEF Load
  <2>3. counted[c] <= file[c] /\ file[c] <= count[c]
    BY DEF CountsInv, Stopping, Between
  <2>. QED BY <2>2, <2>3 DEF CountsInv, MetricsTypeOK, Numbers
<1>. QED BY <1>1, CountsInitially, CountsNext, PTL DEF MetricsSpec, RestartKeepsCounts

-----------------------------------------------------------------------------
(* Numbers.                                                                *)

\* Of two numbers Min gives the smaller, of an interval the first.
LEMMA MinOfPair ==
  ASSUME NEW a \in Int, NEW b \in Int
  PROVE  Min({a, b}) \in {a, b} /\ Min({a, b}) <= a /\ Min({a, b}) <= b
<1>1. \E x \in {a, b} : \A y \in {a, b} : x <= y
  <2>1. CASE a <= b
    BY <2>1
  <2>2. CASE b <= a
    BY <2>2
  <2>. QED BY <2>1, <2>2
<1>2. Min({a, b}) \in {a, b} /\ \A y \in {a, b} : Min({a, b}) <= y
  BY <1>1 DEF Min
<1>. QED BY <1>2

LEMMA MinOfRange ==
  ASSUME NEW a \in Int, NEW b \in Int, a <= b
  PROVE  Min(a .. b) = a
<1>1. a \in a .. b /\ \A y \in a .. b : a <= y
  OBVIOUS
<1>2. Min(a .. b) \in a .. b /\ \A y \in a .. b : Min(a .. b) <= y
  BY <1>1 DEF Min
<1>. QED BY <1>1, <1>2

LEMMA MaxOfOne ==
  ASSUME NEW a \in Int
  PROVE  Max({a}) = a
  BY DEF Max

-----------------------------------------------------------------------------
(* Preprocess, text.  Every position that is over lies in the stride of a  *)
(* window: between where it starts and where the next one does.            *)

TextJob ==
  /\ job.length \in Nat /\ job.size \in Nat \ {0} /\ job.overlap \in Nat

\* The window that starts at a position.
IsWindow(r, start) ==
  /\ r.text = start .. Min({start + job.size, job.length}) - 1
  /\ r.offset = start

Windows ==
  LET step == Step(job.size, job.overlap)
  IN  /\ TextJob
      /\ position = Len(records) * step
      /\ \A i \in DOMAIN records :
           records[i].offset \in Nat /\ records[i].offset < job.length
           /\ IsWindow(records[i], records[i].offset)
      /\ \A p \in Nat : p < position /\ p < job.length =>
           \E i \in DOMAIN records : records[i].offset <= p /\ p < records[i].offset + step

\* A window ends where its size or the text says.
LEMMA WindowEnds ==
  ASSUME TextJob, NEW start \in Nat
  PROVE  Min({start + job.size, job.length}) \in {start + job.size, job.length} \cap Int
<1>1. PICK a \in Int, b \in Int : a = start + job.size /\ b = job.length
  BY DEF TextJob
<1>2. Min({a, b}) \in {a, b}
  BY MinOfPair
<1>. QED BY <1>1, <1>2

LEMMA StepIsPositive ==
  ASSUME NEW size \in Nat \ {0}, NEW overlap \in Nat
  PROVE  Step(size, overlap) \in Nat \ {0}
  BY DEF Step

LEMMA WindowsGrow ==
  ASSUME records \in Seq([text : SUBSET Int, offset : Nat]), Windows, Window
  PROVE  Windows' /\ records' \in Seq([text : SUBSET Int, offset : Nat])
<1>1. PICK step \in Nat \ {0} : step = Step(job.size, job.overlap)
  BY StepIsPositive DEF Windows, TextJob
<1>2. PICK r : r = [text |-> position .. Min({position + job.size, job.length}) - 1,
                    offset |-> Len(records) * step]
  OBVIOUS
<1>3. /\ position < job.length /\ UNCHANGED job
      /\ records' = Append(records, r) /\ position' = position + step
  BY <1>1, <1>2 DEF Window
<1>4. PICK n \in Nat : n = Len(records)
  OBVIOUS
<1>5. position = n * step /\ position \in Nat
  BY <1>1, <1>4 DEF Windows
<1>6. r.offset = position /\ r.text = position .. Min({position + job.size, job.length}) - 1
  BY <1>2, <1>4, <1>5
<1>7. r \in [text : SUBSET Int, offset : Nat]
  <2>1. Min({position + job.size, job.length}) \in Int
    BY <1>5, WindowEnds DEF Windows
  <2>. QED BY <1>2, <1>4, <1>5, <2>1
<1>8. /\ records' \in Seq([text : SUBSET Int, offset : Nat])
      /\ Len(records') = n + 1
      /\ DOMAIN records' = DOMAIN records \cup {n + 1}
      /\ records'[n + 1] = r
      /\ \A i \in DOMAIN records : records'[i] = records[i]
  BY <1>3, <1>4, <1>7
<1>9. position' = Len(records') * step
  <2>1. (n + 1) * step = n * step + step
    BY <1>4
  <2>. QED BY <2>1, <1>3, <1>5, <1>8
<1>10. ASSUME NEW i \in DOMAIN records'
       PROVE  /\ records'[i].offset \in Nat /\ records'[i].offset < job.length
              /\ records'[i].text = records'[i].offset ..
                                    Min({records'[i].offset + job.size, job.length}) - 1
  <2>1. CASE i = n + 1
    BY <2>1, <1>3, <1>5, <1>6, <1>8
  <2>2. CASE i \in DOMAIN records
    BY <2>2, <1>8 DEF Windows, IsWindow
  <2>. QED BY <2>1, <2>2, <1>8
<1>11. ASSUME NEW p \in Nat, p < position', p < job.length
       PROVE  \E i \in DOMAIN records' : records'[i].offset <= p /\ p < records'[i].offset + step
  <2>1. CASE p < position
    <3>1. PICK i \in DOMAIN records : records[i].offset <= p /\ p < records[i].offset + step
      BY <2>1, <1>1, <1>11 DEF Windows
    <3>. QED BY <3>1, <1>8
  <2>2. CASE p >= position
    BY <2>2, <1>11, <1>3, <1>5, <1>6, <1>8
  <2>. QED BY <2>1, <2>2, <1>5
<1>. QED BY <1>1, <1>3, <1>8, <1>9, <1>10, <1>11 DEF Windows, TextJob, IsWindow

\* What the windows say of a phrase that is not longer than the overlap and one.
LEMMA WindowsHoldPhrases ==
  ASSUME Windows, Exhausted, job.kind = "txt"
  PROVE  PhrasesStayWhole
<1> DEFINE size == Shorter(Shorter(job.overlap + 1, job.size), job.length)
           step == Step(job.size, job.overlap)
<1>1. TextJob /\ position >= job.length
  BY DEF Windows, Exhausted
<1>2. size \in Nat /\ size <= job.overlap + 1 /\ size <= job.size
  BY <1>1 DEF TextJob, Shorter
<1>3. step \in Nat \ {0} /\ (step + job.overlap = job.size \/ step = 1)
  BY <1>1 DEF TextJob, Step
<1>4. position \in Nat
  BY <1>3 DEF Windows
<1>5. ASSUME NEW i \in DOMAIN records
      PROVE  /\ records[i].offset \in Nat /\ records[i].offset < job.length
             /\ records[i].text = records[i].offset ..
                                  Min({records[i].offset + job.size, job.length}) - 1
  BY DEF Windows, IsWindow
<1>6. ASSUME NEW p \in 0 .. job.length - 1, p + size <= job.length
      PROVE  \E i \in DOMAIN records : p .. p + size - 1 \subseteq records[i].text
  <2>1. p \in Nat /\ p < job.length /\ p < position
    BY <1>1, <1>4 DEF TextJob
  <2>2. PICK i \in DOMAIN records : records[i].offset <= p /\ p < records[i].offset + step
    BY <2>1 DEF Windows
  <2>3. PICK start \in Nat : start = records[i].offset
    BY <1>5
  <2>4. p + size <= start + job.size
    BY <1>1, <1>2, <1>3, <2>1, <2>2, <2>3 DEF TextJob
  <2>5. Min({start + job.size, job.length}) \in {start + job.size, job.length}
    BY <1>1, WindowEnds
  <2>6. p .. p + size - 1 \subseteq start .. Min({start + job.size, job.length}) - 1
    BY <1>1, <1>2, <1>6, <2>1, <2>2, <2>3, <2>4, <2>5 DEF TextJob
  <2>. QED BY <1>5, <2>3, <2>6
<1>7. ASSUME NEW i \in DOMAIN records
      PROVE  records[i].offset = Min(records[i].text)
  <2>1. PICK start \in Nat : start = records[i].offset /\ start < job.length
    BY <1>5
  <2>2. PICK end \in Int : end = Min({start + job.size, job.length}) - 1 /\ start <= end
    <3>1. Min({start + job.size, job.length}) \in {start + job.size, job.length}
      BY <1>1, WindowEnds
    <3>. QED BY <3>1, <1>1, <2>1 DEF TextJob
  <2>3. records[i].text = start .. end
    BY <1>5, <2>1, <2>2
  <2>. QED BY <2>1, <2>2, <2>3, MinOfRange
<1>. QED BY <1>6, <1>7 DEF PhrasesStayWhole

-----------------------------------------------------------------------------
(* Preprocess, CSV.  The records are those of the rows after the header,   *)
(* in order.                                                               *)

\* What the generator yields for a row.
RecordOf(row) ==
  [text |-> UNION {Cell(row, key) : key \in Included},
   meta |-> UNION {Cell(row, key) : key \in Keys(job.meta) \ {"row", "has_header"}}]

Headings == Name \cup {ColName[i] : i \in 1 .. MaxCols}
CsvJob == job.rows \in Seq(Nat) /\ job.rows # <<>> /\ job.cols \in Seq(Headings)

RowsAreRecords ==
  /\ CsvJob
  /\ position = Len(records) + FirstRow(job.header) /\ position <= Len(job.rows)
  /\ \A i \in DOMAIN records : records[i] = RecordOf(i + FirstRow(job.header))

LEMMA RowsGrow ==
  ASSUME NEW S, records \in Seq(S), RowsAreRecords, Row
  PROVE  RowsAreRecords' /\ \E T : records' \in Seq(T)
<1>1. PICK first \in Nat : first = FirstRow(job.header) /\ first \in {0, 1}
  BY DEF FirstRow
<1>2. PICK n \in Nat : n = Len(records)
  OBVIOUS
<1>3. position = n + first /\ position <= Len(job.rows) /\ CsvJob
  BY <1>1, <1>2 DEF RowsAreRecords
<1>4. /\ position < Len(job.rows) /\ UNCHANGED job /\ position' = position + 1
      /\ records' = Append(records, RecordOf(position + 1))
  BY DEF Row, RecordOf
<1>5. PICK r : r = RecordOf(position + 1)
  OBVIOUS
<1>6. records \in Seq(S \cup {r})
  OBVIOUS
<1>7. /\ records' \in Seq(S \cup {r})
      /\ Len(records') = n + 1 /\ DOMAIN records' = DOMAIN records \cup {n + 1}
      /\ records'[n + 1] = r /\ \A i \in DOMAIN records : records'[i] = records[i]
  BY <1>2, <1>4, <1>5, <1>6
<1>8. \A row : RecordOf(row)' = RecordOf(row)
  BY <1>4 DEF RecordOf, Cell, Included, Keys
<1>9. ASSUME NEW i \in DOMAIN records'
      PROVE  records'[i] = RecordOf(i + first)
  <2>1. CASE i = n + 1
    <3>1. i + first = position + 1
      BY <2>1, <1>3
    <3>. QED BY <2>1, <3>1, <1>5, <1>7
  <2>2. CASE i \in DOMAIN records
    BY <2>2, <1>1, <1>7 DEF RowsAreRecords
  <2>. QED BY <2>1, <2>2, <1>7
<1>10. position' = Len(records') + first /\ position' <= Len(job.rows)
  BY <1>2, <1>3, <1>4, <1>7 DEF CsvJob
<1>11. RowsAreRecords'
  BY <1>1, <1>3, <1>4, <1>8, <1>9, <1>10 DEF RowsAreRecords, CsvJob
<1>. QED BY <1>7, <1>11

\* A cell of a column is in what its row gives for the column's name.
LEMMA CellIsThere ==
  ASSUME CsvJob, NEW row \in 1 .. Len(job.rows), NEW i \in DOMAIN job.cols,
         i <= job.rows[row], \A j \in DOMAIN job.cols : job.cols[j] = job.cols[i] => j = i
  PROVE  <<row, i>> \in Cell(row, job.cols[i])
<1>1. {j \in DOMAIN job.cols : job.cols[j] = job.cols[i]} = {i}
  OBVIOUS
<1>2. i \in Int
  BY DEF CsvJob
<1>3. Max({i}) = i
  BY <1>2, MaxOfOne
<1>. QED BY <1>1, <1>3 DEF Cell

LEMMA RecordsHoldCells ==
  ASSUME RowsAreRecords, Exhausted, job.kind = "csv"
  PROVE  NoCellIsLost
<1>. SUFFICES ASSUME ~Refused(job.meta), job.include = Nothing,
                     \A i, j \in DOMAIN job.cols : job.cols[i] = job.cols[j] => i = j,
                     {"row", "has_header"} \cap Keys(job.meta) = {},
                     NEW heading, heading = IF job.header THEN 1 ELSE 0,
                     NEW row \in heading + 1 .. Len(job.rows),
                     NEW i \in 1 .. Shorter(job.rows[row], Len(job.cols))
              PROVE  /\ row - heading \in DOMAIN records
                     /\ <<row, i>> \in records[row - heading].text \cup records[row - heading].meta
  BY DEF NoCellIsLost
<1>1. heading = FirstRow(job.header) /\ heading \in {0, 1} /\ CsvJob
  BY DEF FirstRow, RowsAreRecords
<1>2. ~Refused(job.include)
  BY DEF Refused, Nothing
<1>3. position = Len(job.rows)
  BY <1>2 DEF Exhausted
<1>4. PICK n \in Nat : n = row - heading /\ n >= 1 /\ n + heading = row
  <2>1. Len(job.rows) \in Nat /\ heading \in Int
    BY <1>1 DEF CsvJob
  <2>2. row \in Int /\ heading + 1 <= row
    BY <2>1
  <2>3. row - heading \in Nat /\ row - heading >= 1 /\ (row - heading) + heading = row
    BY <2>1, <2>2
  <2>. QED BY <2>3
<1>5. n \in DOMAIN records /\ row \in 1 .. Len(job.rows)
  BY <1>1, <1>3, <1>4 DEF RowsAreRecords, CsvJob
<1>6. records[n] = RecordOf(row)
  BY <1>1, <1>4, <1>5 DEF RowsAreRecords
<1>7. i \in DOMAIN job.cols /\ i <= job.rows[row]
  BY <1>1, <1>5 DEF CsvJob, Shorter
<1>8. PICK key : key = job.cols[i]
  OBVIOUS
<1>9. <<row, i>> \in Cell(row, key)
  BY <1>1, <1>5, <1>7, <1>8, CellIsThere
<1>10. CASE key \in Keys(job.meta)
  <2>1. key \in Keys(job.meta) \ {"row", "has_header"}
    BY <1>10
  <2>2. <<row, i>> \in RecordOf(row).meta
    BY <2>1, <1>9 DEF RecordOf
  <2>. QED BY <2>2, <1>4, <1>5, <1>6
<1>11. CASE key \notin Keys(job.meta)
  <2>1. key \in Range(job.cols)
    BY <1>7, <1>8 DEF Range
  <2>2. key \in Included
    BY <2>1, <1>11 DEF Included
  <2>3. <<row, i>> \in RecordOf(row).text
    BY <2>2, <1>9 DEF RecordOf
  <2>. QED BY <2>3, <1>4, <1>5, <1>6
<1>. QED BY <1>10, <1>11

\* What the generator has done with the file it has.
RecordsInv ==
  /\ job.kind \in {"none", "txt", "csv"}
  /\ job.kind = "none" => job = Idle /\ position = 0 /\ records = <<>>
  /\ job.kind = "txt" => Windows /\ records \in Seq([text : SUBSET Int, offset : Nat])
  /\ job.kind = "csv" => RowsAreRecords /\ \E S : records \in Seq(S)

LEMMA FilesBegin ==
  ASSUME RecordsInv, TextFile \/ CsvFile
  PROVE  RecordsInv'
<1>1. job = Idle /\ position = 0 /\ records = <<>>
  BY DEF RecordsInv, TextFile, CsvFile, Idle
<1>2. CASE TextFile
  <2>1. PICK length \in 0 .. MaxText, size \in 1 .. MaxWindow, overlap \in 0 .. MaxWindow :
          job' = [kind |-> "txt", length |-> length, size |-> size, overlap |-> overlap]
    BY <1>2 DEF TextFile
  <2>2. position' = 0 /\ records' = <<>>
    BY <1>1, <1>2 DEF TextFile
  <2>3. length \in Nat /\ size \in Nat \ {0} /\ overlap \in Nat
    BY <2>1, PreprocessAssumption
  <2>4. TextJob' /\ job'.kind = "txt"
    BY <2>1, <2>3 DEF TextJob
  <2>5. Step(job.size, job.overlap)' \in Nat
    BY <2>4 DEF TextJob, Step
  <2>6. Windows'
    BY <2>2, <2>4, <2>5 DEF Windows
  <2>. QED BY <2>2, <2>4, <2>6 DEF RecordsInv
<1>3. CASE CsvFile
  <2>1. PICK rows, header, cols, meta, include :
          /\ rows \in BoundedSeq(0 .. MaxCols, MaxRows) /\ header \in BOOLEAN
          /\ rows # <<>>
          /\ cols \in IF header THEN [1 .. rows[1] -> Name]
                      ELSE {[i \in 1 .. rows[1] |-> ColName[i]]}
          /\ job' = [kind |-> "csv", rows |-> rows, header |-> header, cols |-> cols,
                     meta |-> meta, include |-> include]
          /\ position' = FirstRow(header)
    BY <1>3 DEF CsvFile
  <2>2. PICK m \in 0 .. MaxRows : rows \in [1 .. m -> 0 .. MaxCols]
    BY <2>1 DEF BoundedSeq, SeqOf
  <2>3. m \in Nat /\ 0 .. MaxCols \subseteq Nat
    BY PreprocessAssumption
  <2>4. rows \in Seq(Nat) /\ Len(rows) = m
    BY <2>2, <2>3
  <2>5. rows[1] \in 0 .. MaxCols
    BY <2>1, <2>2, <2>3, <2>4
  <2>6. cols \in Seq(Headings)
    <3>1. cols \in [1 .. rows[1] -> Headings]
      <4>1. CASE header
        BY <4>1, <2>1 DEF Headings
      <4>2. CASE ~header
        <5>1. \A i \in 1 .. rows[1] : ColName[i] \in Headings
          BY <2>5, PreprocessAssumption DEF Headings
        <5>. QED BY <4>2, <5>1, <2>1
      <4>. QED BY <4>1, <4>2
    <3>. QED BY <3>1, <2>3, <2>5
  <2>7. records' = <<>>
    BY <1>1, <1>3 DEF CsvFile
  <2>8. /\ job'.rows = rows /\ job'.cols = cols /\ job'.header = header /\ job'.kind = "csv"
    BY <2>1
  <2>9. RowsAreRecords'
    <3>1. 1 <= Len(rows) /\ FirstRow(header) \in {0, 1}
      BY <2>1, <2>4 DEF FirstRow
    <3>. QED BY <3>1, <2>1, <2>4, <2>6, <2>7, <2>8 DEF RowsAreRecords, CsvJob, FirstRow
  <2>. QED BY <2>7, <2>8, <2>9 DEF RecordsInv
<1>. QED BY <1>2, <1>3

LEMMA RecordsStep ==
  ASSUME RecordsInv, [PreprocessNext]_preprocessVars
  PROVE  RecordsInv'
<1>1. CASE TextFile \/ CsvFile
  BY <1>1, FilesBegin
<1>2. CASE Window
  <2>1. job.kind = "txt" /\ UNCHANGED job
    BY <1>2 DEF Window
  <2>2. Windows' /\ records' \in Seq([text : SUBSET Int, offset : Nat])
    BY <1>2, <2>1, WindowsGrow DEF RecordsInv
  <2>. QED BY <2>1, <2>2 DEF RecordsInv
<1>3. CASE Row
  <2>1. job.kind = "csv" /\ UNCHANGED job
    BY <1>3 DEF Row
  <2>2. PICK S : records \in Seq(S)
    BY <2>1 DEF RecordsInv
  <2>3. RowsAreRecords' /\ \E T : records' \in Seq(T)
    BY <1>3, <2>1, <2>2, RowsGrow DEF RecordsInv
  <2>. QED BY <2>1, <2>3 DEF RecordsInv
<1>4. CASE Done
  BY <1>4 DEF Done, RecordsInv, Idle
<1>5. CASE UNCHANGED preprocessVars
  <2>1. UNCHANGED <<job, position, records>>
    BY <1>5 DEF preprocessVars
  <2>2. Windows => Windows'
    BY <2>1 DEF Windows, TextJob, IsWindow
  <2>3. \A row : RecordOf(row)' = RecordOf(row)
    BY <2>1 DEF RecordOf, Cell, Included, Keys
  <2>4. RowsAreRecords => RowsAreRecords'
    BY <2>1, <2>3 DEF RowsAreRecords, CsvJob
  <2>. QED BY <2>1, <2>2, <2>4 DEF RecordsInv
<1>. QED BY <1>1, <1>2, <1>3, <1>4, <1>5 DEF PreprocessNext

LEMMA RecordsInitially == PreprocessInit => RecordsInv
  BY DEF PreprocessInit, RecordsInv, Idle

\* For any text, window and overlap, a phrase that is not longer than the
\* overlap and one more is whole in some chunk, and the offset of a chunk is where
\* it starts (preprocess.py, _chunks).
THEOREM PhrasesHold == PreprocessSpec => []PhrasesStayWhole
<1>1. RecordsInv => PhrasesStayWhole
  BY WindowsHoldPhrases DEF RecordsInv, PhrasesStayWhole
<1>. QED BY <1>1, RecordsInitially, RecordsStep, PTL DEF PreprocessSpec

\* For any CSV file with distinct columns and any metadata columns, every cell
\* under a column is in the text or the metadata of its own row (preprocess.py).
THEOREM CellsAreKept == PreprocessSpec => []NoCellIsLost
<1>1. RecordsInv => NoCellIsLost
  BY RecordsHoldCells DEF RecordsInv, NoCellIsLost
<1>. QED BY <1>1, RecordsInitially, RecordsStep, PTL DEF PreprocessSpec

-----------------------------------------------------------------------------
(* Filters.  What the search has kept matches, in the order of the         *)
(* candidates, and of the candidates it has looked at it has missed none   *)
(* that survived the pushdown and matches.                                 *)

\* The chunks that the canonical filter of the search accepts.
Matching == {c \in Chunk : MatchesFilters(Merged(c), filters)}

Tags == DocTags \cup ChunkTags \cup {<<>>}

\* Metadata is what an ingest may give, and was accepted.
Tagging ==
  /\ \A d \in Doc : docTags[d] \in Tags
  /\ \A c \in Chunk : chunkTags[c] \in Tags
  /\ stage # "none" =>
       /\ \A d \in Doc : Accepts(WithDocid(d, docTags[d]))
       /\ \A c \in Chunk : Accepts(chunkTags[c])

Asking ==
  /\ stage \in {"none", "indexed", "asked", "pushed", "answered"}
  /\ stage \in {"asked", "pushed", "answered"} =>
       asked \in Filterings /\ filters = Normed(asked) /\ wanted \in 1 .. MaxWanted
  /\ stage \in {"pushed", "answered"} => surviving = FilterByMeta(filters)
  /\ stage \notin {"pushed", "answered"} => looked = 0 /\ kept = <<>>

Counting ==
  /\ kept \in Seq(Chunk) /\ looked \in Nat
  /\ looked <= Len(Ranking) /\ Len(kept) <= looked
  /\ stage = "answered" => looked = Len(Ranking) \/ Len(kept) = wanted

KeptMatch == \A j \in DOMAIN kept : kept[j] \in Matching

InOrder ==
  /\ \A j \in DOMAIN kept : \E m \in 1 .. looked : Ranking[m] = kept[j]
  /\ \A j, l \in DOMAIN kept :
       j < l => \E m, n \in 1 .. looked : m < n /\ Ranking[m] = kept[j] /\ Ranking[n] = kept[l]

NoneMissed ==
  \A i \in 1 .. looked :
    Ranking[i] \in surviving \cap Matching => \E j \in DOMAIN kept : kept[j] = Ranking[i]

SearchInv == Tagging /\ Asking /\ Counting /\ KeptMatch /\ InOrder /\ NoneMissed

\* What the canonical filter says depends on the metadata and the filter.
LEMMA MatchingStays ==
  ASSUME UNCHANGED <<docTags, chunkTags, filters>>
  PROVE  Matching' = Matching /\ FilterByMeta(filters)' = FilterByMeta(filters)
<1>1. \A c : ChunkMeta(c)' = ChunkMeta(c)
  BY DEF ChunkMeta
<1>2. \A d : DocMeta(d)' = DocMeta(d)
  BY DEF DocMeta
<1>3. Matching' = Matching
  BY <1>1, <1>2 DEF Matching, Merged
<1>4. \A c, f, text : InTables(c, f, text)' <=> InTables(c, f, text)
  BY <1>1, <1>2 DEF InTables
<1>5. FilterByMeta(filters)' = FilterByMeta(filters)
  BY <1>4 DEF FilterByMeta, Passes
<1>. QED BY <1>3, <1>5

\* While a search is not under way nothing is kept that could be wrong.
LEMMA NothingKept ==
  ASSUME kept' = <<>>, looked' = 0, stage' # "answered"
  PROVE  Counting' /\ KeptMatch' /\ InOrder' /\ NoneMissed'
<1>1. kept' \in Seq(Chunk) /\ DOMAIN kept' = {} /\ Len(kept') = 0
  OBVIOUS
<1>2. Len(Ranking) \in Nat
  BY FilterAssumption
<1>. QED BY <1>1, <1>2 DEF Counting, KeptMatch, InOrder, NoneMissed

LEMMA PostFilterKeeps ==
  ASSUME SearchInv, PostFilter
  PROVE  SearchInv'
<1>1. /\ stage = "pushed" /\ looked < Len(Ranking) /\ Len(kept) < wanted
      /\ looked' = looked + 1
      /\ UNCHANGED <<docTags, chunkTags, stage, asked, filters, wanted, surviving>>
  BY DEF PostFilter
<1>2. PICK c : c = Ranking[looked + 1]
  OBVIOUS
<1>3. /\ kept \in Seq(Chunk) /\ looked \in Nat /\ Ranking \in Seq(Chunk) /\ c \in Chunk
      /\ Len(kept) <= looked /\ Len(kept) \in Nat /\ Len(Ranking) \in Nat
  BY <1>1, <1>2, FilterAssumption DEF SearchInv, Counting
<1>4. kept' = IF c \in surviving \cap Matching THEN Append(kept, c) ELSE kept
  BY <1>2, <1>3 DEF PostFilter, Matching
<1>5. Matching' = Matching /\ FilterByMeta(filters)' = FilterByMeta(filters)
  BY <1>1, MatchingStays
<1>6. Tagging'
  BY <1>1 DEF SearchInv, Tagging
<1>7. Asking'
  BY <1>1, <1>5 DEF SearchInv, Asking
<1>8. PICK n \in Nat : n = Len(kept)
  BY <1>3
<1>9. CASE c \in surviving \cap Matching
  <2>1. /\ kept' \in Seq(Chunk) /\ Len(kept') = n + 1
        /\ DOMAIN kept' = DOMAIN kept \cup {n + 1} /\ DOMAIN kept = 1 .. n
        /\ kept'[n + 1] = c /\ \A j \in DOMAIN kept : kept'[j] = kept[j]
    BY <1>4, <1>3, <1>8, <1>9
  <2>2. Counting'
    BY <2>1, <1>1, <1>3, <1>8 DEF Counting
  <2>3. KeptMatch'
    <3>1. \A j \in DOMAIN kept' : kept'[j] \in Matching
      BY <2>1, <1>9 DEF SearchInv, KeptMatch
    <3>. QED BY <3>1, <1>5 DEF KeptMatch
  <2>4. InOrder'
    <3>1. ASSUME NEW j \in DOMAIN kept'
          PROVE  \E m \in 1 .. looked + 1 : Ranking[m] = kept'[j]
      BY <2>1, <1>2, <1>3 DEF SearchInv, InOrder
    <3>2. ASSUME NEW j \in DOMAIN kept', NEW l \in DOMAIN kept', j < l
          PROVE  \E m, k \in 1 .. looked + 1 :
                   m < k /\ Ranking[m] = kept'[j] /\ Ranking[k] = kept'[l]
      <4>1. CASE l = n + 1
        <5>1. j \in DOMAIN kept
          BY <4>1, <3>2, <2>1
        <5>2. PICK m \in 1 .. looked : Ranking[m] = kept[j]
          BY <5>1 DEF SearchInv, InOrder
        <5>3. m \in 1 .. looked + 1 /\ looked + 1 \in 1 .. looked + 1 /\ m < looked + 1
          BY <1>3
        <5>. QED BY <4>1, <5>1, <5>2, <5>3, <2>1, <1>2
      <4>2. CASE l \in DOMAIN kept
        <5>1. j \in DOMAIN kept
          BY <4>2, <3>2, <2>1
        <5>2. PICK m \in 1 .. looked, k \in 1 .. looked :
                m < k /\ Ranking[m] = kept[j] /\ Ranking[k] = kept[l]
          BY <5>1, <4>2, <3>2 DEF SearchInv, InOrder
        <5>3. m \in 1 .. looked + 1 /\ k \in 1 .. looked + 1
          BY <1>3
        <5>. QED BY <4>2, <5>1, <5>2, <5>3, <2>1
      <4>. QED BY <4>1, <4>2, <2>1
    <3>. QED BY <3>1, <3>2, <1>1 DEF InOrder
  <2>5. NoneMissed'
    <3>1. ASSUME NEW i \in 1 .. looked + 1, Ranking[i] \in surviving \cap Matching
          PROVE  \E j \in DOMAIN kept' : kept'[j] = Ranking[i]
      <4>1. CASE i = looked + 1
        BY <4>1, <2>1, <1>2
      <4>2. CASE i \in 1 .. looked
        BY <4>2, <3>1, <2>1 DEF SearchInv, NoneMissed
      <4>. QED BY <4>1, <4>2, <1>3
    <3>. QED BY <3>1, <1>1, <1>5 DEF NoneMissed
  <2>. QED BY <1>6, <1>7, <2>2, <2>3, <2>4, <2>5 DEF SearchInv
<1>10. CASE ~(c \in surviving \cap Matching)
  <2>1. kept' = kept
    BY <1>4, <1>10
  <2>2. Counting'
    BY <2>1, <1>1, <1>3 DEF Counting
  <2>3. KeptMatch'
    <3>1. \A j \in DOMAIN kept : kept[j] \in Matching
      BY DEF SearchInv, KeptMatch
    <3>. QED BY <3>1, <2>1, <1>5 DEF KeptMatch
  <2>4. InOrder'
    <3>1. \A m \in 1 .. looked : m \in 1 .. looked + 1
      BY <1>3
    <3>2. \A j \in DOMAIN kept : \E m \in 1 .. looked + 1 : Ranking[m] = kept[j]
      BY <3>1 DEF SearchInv, InOrder
    <3>3. ASSUME NEW j \in DOMAIN kept, NEW l \in DOMAIN kept, j < l
          PROVE  \E m, k \in 1 .. looked + 1 : m < k /\ Ranking[m] = kept[j] /\ Ranking[k] = kept[l]
      BY <3>1, <3>3 DEF SearchInv, InOrder
    <3>. QED BY <3>2, <3>3, <2>1, <1>1 DEF InOrder
  <2>5. NoneMissed'
    <3>1. ASSUME NEW i \in 1 .. looked + 1, Ranking[i] \in surviving \cap Matching
          PROVE  \E j \in DOMAIN kept : kept[j] = Ranking[i]
      <4>1. i \in 1 .. looked
        BY <3>1, <1>2, <1>3, <1>10
      <4>. QED BY <4>1, <3>1 DEF SearchInv, NoneMissed
    <3>. QED BY <3>1, <2>1, <1>1, <1>5 DEF NoneMissed
  <2>. QED BY <1>6, <1>7, <2>2, <2>3, <2>4, <2>5 DEF SearchInv
<1>. QED BY <1>9, <1>10


LEMMA SearchInvStep ==
  ASSUME SearchInv, [FilterNext]_filterVars
  PROVE  SearchInv'
<1>1. CASE Ingest
  <2>1. /\ stage = "none" /\ stage' = "indexed" /\ kept' = <<>> /\ looked' = 0
        /\ UNCHANGED <<asked, filters, wanted, surviving, looked, kept>>
    BY <1>1 DEF Ingest, SearchInv, Asking
  <2>2. Tagging'
    <3>1. /\ \A d \in Doc : docTags'[d] \in Tags
          /\ \A c \in Chunk : chunkTags'[c] \in Tags
      BY <1>1 DEF Ingest, Tags
    <3>2. /\ \A d \in Doc : Accepts(WithDocid(d, docTags'[d]))
          /\ \A c \in Chunk : Accepts(chunkTags'[c])
      BY <1>1 DEF Ingest
    <3>. QED BY <3>1, <3>2 DEF Tagging
  <2>3. Asking'
    BY <2>1 DEF Asking
  <2>. QED BY <2>1, <2>2, <2>3, NothingKept DEF SearchInv
<1>2. CASE Search
  <2>1. /\ stage = "indexed" /\ stage' = "asked" /\ kept' = <<>> /\ looked' = 0
        /\ asked' \in Filterings /\ filters' = Normed(asked') /\ wanted' \in 1 .. MaxWanted
        /\ UNCHANGED <<docTags, chunkTags, surviving, looked, kept>>
    BY <1>2 DEF Search, SearchInv, Asking
  <2>2. Tagging' /\ Asking'
    BY <2>1 DEF SearchInv, Tagging, Asking
  <2>. QED BY <2>1, <2>2, NothingKept DEF SearchInv
<1>3. CASE PushDown
  <2>1. /\ stage = "asked" /\ stage' = "pushed" /\ kept' = <<>> /\ looked' = 0
        /\ surviving' = FilterByMeta(filters)
        /\ UNCHANGED <<docTags, chunkTags, asked, filters, wanted, looked, kept>>
    BY <1>3 DEF PushDown, SearchInv, Asking
  <2>2. FilterByMeta(filters)' = FilterByMeta(filters)
    BY <2>1, MatchingStays
  <2>3. Tagging' /\ Asking'
    BY <2>1, <2>2 DEF SearchInv, Tagging, Asking
  <2>. QED BY <2>1, <2>3, NothingKept DEF SearchInv
<1>4. CASE PostFilter
  BY <1>4, PostFilterKeeps
<1>5. CASE Answer \/ UNCHANGED filterVars
  <2>1. /\ UNCHANGED <<docTags, chunkTags, asked, filters, wanted, surviving, looked, kept>>
        /\ \/ stage' = stage
           \/ /\ stage = "pushed" /\ stage' = "answered"
              /\ looked = Len(Ranking) \/ Len(kept) = wanted
    BY <1>5 DEF Answer, filterVars
  <2>2. Matching' = Matching /\ FilterByMeta(filters)' = FilterByMeta(filters)
    BY <2>1, MatchingStays
  <2>3. Tagging' /\ Asking'
    BY <2>1, <2>2 DEF SearchInv, Tagging, Asking
  <2>4. Counting' /\ InOrder'
    BY <2>1 DEF SearchInv, Counting, InOrder
  <2>5. KeptMatch' /\ NoneMissed'
    BY <2>1, <2>2 DEF SearchInv, KeptMatch, NoneMissed
  <2>. QED BY <2>3, <2>4, <2>5 DEF SearchInv
<1>6. CASE Again
  <2>1. /\ stage = "answered" /\ stage' = "indexed" /\ kept' = <<>> /\ looked' = 0
        /\ UNCHANGED <<docTags, chunkTags>>
    BY <1>6 DEF Again
  <2>2. Tagging' /\ Asking'
    BY <2>1 DEF SearchInv, Tagging, Asking
  <2>. QED BY <2>1, <2>2, NothingKept DEF SearchInv
<1>. QED BY <1>1, <1>2, <1>3, <1>4, <1>5, <1>6 DEF FilterNext

LEMMA SearchInitially == FilterInit => SearchInv
<1>. SUFFICES ASSUME FilterInit PROVE SearchInv
  OBVIOUS
<1>1. Tagging /\ Asking
  BY DEF FilterInit, Tagging, Tags, Asking
<1>2. kept = <<>> /\ looked = 0 /\ stage # "answered" /\ Len(Ranking) \in Nat
  BY FilterAssumption DEF FilterInit
<1>3. kept \in Seq(Chunk) /\ DOMAIN kept = {} /\ Len(kept) = 0
  BY <1>2
<1>4. Counting /\ KeptMatch /\ InOrder /\ NoneMissed
  BY <1>2, <1>3 DEF Counting, KeptMatch, InOrder, NoneMissed
<1>. QED BY <1>1, <1>4 DEF SearchInv

-----------------------------------------------------------------------------
(* What the tables hold.                                                   *)

LEMMA TextOfOne ==
  ASSUME NEW v, NEW a, v.items = {a}, v.kind \in {"text", "number"}
  PROVE  Text(v) = a
  BY DEF Text

\* Sanitizing keeps one item one item, and no item none.
LEMMA SafeValues ==
  ASSUME NEW v \in Value
  PROVE  SafeValue(v) \in Value /\ SafeValue(v).kind = v.kind
         /\ SafeValue(v).items = {Safe[a] : a \in v.items}
<1> DEFINE items == {Safe[a] : a \in v.items}
<1>1. /\ v = [kind |-> v.kind, items |-> v.items] /\ v.items \in SUBSET Atom
      /\ v.kind \in {"text", "number", "null", "list"}
  BY DEF Value
<1>2. SafeValue(v) = [kind |-> v.kind, items |-> items]
  BY <1>1 DEF SafeValue
<1>3. items \in SUBSET Atom
  BY <1>1, FilterAssumption
<1>4. v.kind \in {"text", "number"} => \E b \in Atom : items = {b}
  <2>. SUFFICES ASSUME v.kind \in {"text", "number"} PROVE \E b \in Atom : items = {b}
    OBVIOUS
  <2>1. PICK a \in Atom : v.items = {a}
    BY DEF Value
  <2>2. items = {Safe[a]} /\ Safe[a] \in Atom
    BY <2>1, FilterAssumption
  <2>. QED BY <2>2
<1>5. v.kind = "null" => items = {}
  BY DEF Value
<1>. QED BY <1>1, <1>2, <1>3, <1>4, <1>5 DEF Value

\* Every stored value is the sanitized one of some key.
LEMMA StoredValues ==
  ASSUME NEW m, \A r \in DOMAIN m : m[r] \in Value, NEW f \in DOMAIN Stored(m)
  PROVE  Stored(m)[f] \in Value
<1>1. PICK r \in DOMAIN m : Field[r] = f
  BY DEF Stored
<1>2. PICK s : s = CHOOSE x \in DOMAIN m : Field[x] = f
  OBVIOUS
<1>3. s \in DOMAIN m
  BY <1>1, <1>2
<1>4. Stored(m)[f] = SafeValue(m[s])
  BY <1>2 DEF Stored
<1>. QED BY <1>3, <1>4, SafeValues

\* A key that was accepted is stored with its own value.
LEMMA StoredAsGiven ==
  ASSUME NEW m, Accepts(m), NEW r \in DOMAIN m
  PROVE  Field[r] \in DOMAIN Stored(m) /\ Stored(m)[Field[r]] = SafeValue(m[r])
<1>1. PICK s : s = CHOOSE x \in DOMAIN m : Field[x] = Field[r]
  OBVIOUS
<1>2. s = r
  BY <1>1 DEF Accepts
<1>. QED BY <1>1, <1>2 DEF Stored

LEMMA TagValues ==
  ASSUME Tagging
  PROVE  /\ \A d \in Doc : \A r \in DOMAIN WithDocid(d, docTags[d]) :
              WithDocid(d, docTags[d])[r] \in Value
         /\ \A c \in Chunk : \A r \in DOMAIN chunkTags[c] : chunkTags[c][r] \in Value
<1>1. \A m \in Tags : \A r \in DOMAIN m : m[r] \in Value
  BY FilterAssumption DEF Tags
<1>2. ASSUME NEW d \in Doc, NEW r \in DOMAIN WithDocid(d, docTags[d])
      PROVE  WithDocid(d, docTags[d])[r] \in Value
  <2>1. CASE r \in DOMAIN docTags[d]
    BY <2>1, <1>1 DEF Tagging, WithDocid, Over
  <2>2. CASE r \notin DOMAIN docTags[d]
    <3>1. WithDocid(d, docTags[d])[r] = [kind |-> "text", items |-> {d}]
      BY <2>2 DEF WithDocid, Over
    <3>2. d \in Atom
      BY FilterAssumption
    <3>. QED BY <3>1, <3>2 DEF Value
  <2>. QED BY <2>1, <2>2
<1>. QED BY <1>1, <1>2 DEF Tagging

LEMMA MetaValues ==
  ASSUME Tagging, NEW c \in Chunk
  PROVE  /\ \A f \in DOMAIN ChunkMeta(c) : ChunkMeta(c)[f] \in Value
         /\ \A f \in DOMAIN DocMeta(DocOf[c]) : DocMeta(DocOf[c])[f] \in Value
<1>1. PICK m : m = chunkTags[c] /\ \A r \in DOMAIN m : m[r] \in Value
  BY TagValues
<1>2. PICK d \in Doc : d = DocOf[c]
  BY FilterAssumption
<1>3. PICK n : n = WithDocid(d, docTags[d]) /\ \A r \in DOMAIN n : n[r] \in Value
  BY TagValues
<1>4. ChunkMeta(c) = Stored(m) /\ DocMeta(DocOf[c]) = Stored(n)
  BY <1>1, <1>2, <1>3 DEF ChunkMeta, DocMeta
<1>. QED BY <1>1, <1>3, <1>4, StoredValues

\* A filter holds conditions.
LEMMA FilterConds ==
  ASSUME Asking, stage \in {"asked", "pushed", "answered"}, NEW f \in DOMAIN filters
  PROVE  filters[f] \subseteq Cond
<1>1. asked \in Filterings /\ filters = Normed(asked)
  BY DEF Asking
<1>2. PICK s : s = CHOOSE r \in DOMAIN asked : Field[r] = f
  OBVIOUS
<1>3. s \in DOMAIN asked /\ filters[f] = asked[s]
  BY <1>1, <1>2 DEF Normed
<1>. QED BY <1>1, <1>3, FilterAssumption

-----------------------------------------------------------------------------
(* What the pushdown leaves.                                               *)

\* What matches the one item of a value passes the tables that hold the value.
LEMMA PlainPasses ==
  ASSUME Tagging, NEW c \in Chunk, NEW f \in DOMAIN filters, NEW cond \in filters[f],
         Plain(c), f \in DOMAIN Merged(c), Match(Merged(c)[f], cond),
         cond.op \in {"is", "not"}
  PROVE  Passes(c, f, cond)
<1>1. PICK v : v = Merged(c)[f]
  OBVIOUS
<1>2. PICK a \in v.items : MatchText(a, cond)
  BY <1>1 DEF Match
<1>3. /\ cond.op = "is" => a = Safe[cond.val]
      /\ cond.op = "not" => a # Safe[cond.val]
  BY <1>2 DEF MatchText
<1>4. CASE f = "docid"
  <2>1. v.items = {DocOf[c]}
    BY <1>1, <1>4 DEF Plain
  <2>2. InTables(c, f, Safe[cond.val]) <=> a = Safe[cond.val]
    BY <1>2, <1>4, <2>1 DEF InTables
  <2>. QED BY <1>3, <2>2 DEF Passes
<1>5. CASE f # "docid"
  <2>1. v \in Value /\ v.kind # "list"
    <3>1. v.kind # "list"
      BY <1>1 DEF Plain
    <3>2. v = IF f \in DOMAIN ChunkMeta(c) THEN ChunkMeta(c)[f] ELSE DocMeta(DocOf[c])[f]
      BY <1>1 DEF Merged, Over
    <3>3. f \in DOMAIN ChunkMeta(c) \/ f \in DOMAIN DocMeta(DocOf[c])
      BY DEF Merged, Over
    <3>. QED BY <3>1, <3>2, <3>3, MetaValues
  <2>2. v.kind \in {"text", "number"} /\ v.items = {a}
    BY <1>2, <2>1 DEF Value
  <2>3. Text(v) = a
    BY <2>2, TextOfOne
  <2>4. CASE f \in DOMAIN ChunkMeta(c)
    <3>1. v = ChunkMeta(c)[f]
      BY <2>4, <1>1 DEF Merged, Over
    <3>2. cond.op = "is" => Passes(c, f, cond)
      BY <1>3, <1>5, <2>3, <2>4, <3>1 DEF Passes, InTables, Has
    <3>3. cond.op = "not" => f \notin DOMAIN DocMeta(DocOf[c])
      BY <2>4 DEF Plain
    <3>4. cond.op = "not" => Passes(c, f, cond)
      BY <1>3, <1>5, <2>3, <3>1, <3>3 DEF Passes, InTables, Has
    <3>. QED BY <3>2, <3>4
  <2>5. CASE f \notin DOMAIN ChunkMeta(c)
    <3>1. f \in DOMAIN DocMeta(DocOf[c]) /\ v = DocMeta(DocOf[c])[f]
      BY <2>5, <1>1 DEF Merged, Over
    <3>2. cond.op = "is" => Passes(c, f, cond)
      BY <1>3, <1>5, <2>3, <3>1 DEF Passes, InTables, Has
    <3>3. cond.op = "not" => Passes(c, f, cond)
      BY <1>3, <1>5, <2>3, <2>5, <3>1 DEF Passes, InTables, Has
    <3>. QED BY <3>2, <3>3
  <2>. QED BY <2>4, <2>5
<1>. QED BY <1>4, <1>5

\* The pushdown leaves every plain chunk that the canonical filter accepts.
LEMMA PlainSurvives ==
  ASSUME SearchInv, stage = "answered", NEW c \in Matching, Plain(c)
  PROVE  c \in surviving
<1>1. c \in Chunk /\ MatchesFilters(Merged(c), filters)
  BY DEF Matching
<1>2. ASSUME NEW f \in DOMAIN filters
      PROVE  Skipped(filters[f]) \/ \E cond \in Strings(filters[f]) : Passes(c, f, cond)
  <2>1. PICK cond \in filters[f] : f \in DOMAIN Merged(c) /\ Match(Merged(c)[f], cond)
    BY <1>1 DEF MatchesFilters
  <2>2. CASE Strings(filters[f]) = {} \/ \E s \in Strings(filters[f]) : s.op \in {"any", "above"}
    BY <2>2 DEF Skipped
  <2>3. CASE ~(Strings(filters[f]) = {} \/ \E s \in Strings(filters[f]) : s.op \in {"any", "above"})
    <3>1. Strings(filters[f]) = filters[f]
      BY <2>3 DEF Plain
    <3>2. cond \in Cond
      BY FilterConds DEF SearchInv
    <3>3. cond.op \in {"is", "not"}
      BY <3>1, <3>2, <2>3 DEF Strings, Cond
    <3>4. Passes(c, f, cond)
      BY <1>1, <2>1, <3>3, PlainPasses DEF SearchInv
    <3>. QED BY <3>1, <3>4
  <2>. QED BY <2>2, <2>3
<1>3. surviving = FilterByMeta(filters)
  BY DEF SearchInv, Asking
<1>. QED BY <1>1, <1>2, <1>3 DEF FilterByMeta

\* For any metadata and filter, a search returns chunks that match, best first,
\* and the pushdown costs it no chunk whose tables tell the same as its metadata
\* (filters.py, metadb.py: filter_by_meta).
THEOREM FilteredHits == FilterSpec => []HitsAreCanonical
<1>1. SearchInv => HitsAreCanonical
  <2>. SUFFICES ASSUME SearchInv, stage = "answered" PROVE HitsAreCanonical
    BY DEF HitsAreCanonical
  <2>0. /\ Ranking \in Seq(Chunk) /\ kept \in Seq(Chunk) /\ looked \in Nat
        /\ looked <= Len(Ranking) /\ wanted \in Nat \ {0}
    BY FilterAssumption DEF SearchInv, Counting, Asking
  <2>1. ASSUME NEW j \in DOMAIN kept
        PROVE  MatchesFilters(Merged(kept[j]), filters)
    BY DEF SearchInv, KeptMatch, Matching
  <2>2. ASSUME NEW j \in DOMAIN kept, NEW l \in DOMAIN kept, j < l
        PROVE  \E m, n \in DOMAIN Ranking : m < n /\ Ranking[m] = kept[j] /\ Ranking[n] = kept[l]
    <3>1. \A m \in 1 .. looked : m \in DOMAIN Ranking
      BY <2>0
    <3>. QED BY <2>2, <3>1 DEF SearchInv, InOrder
  <2>3. ASSUME NEW i \in DOMAIN Ranking, Plain(Ranking[i]),
               MatchesFilters(Merged(Ranking[i]), filters)
        PROVE  \E j \in DOMAIN kept : kept[j] = Ranking[i] \/ (Len(kept) = wanted /\ looked < i)
    <3>1. PICK c \in Chunk : c = Ranking[i]
      BY <2>0
    <3>2. c \in surviving \cap Matching
      <4>1. c \in Matching
        BY <2>3, <3>1 DEF Matching
      <4>. QED BY <2>3, <3>1, <4>1, PlainSurvives
    <3>3. CASE i <= looked
      <4>1. i \in 1 .. looked
        BY <3>3, <2>0
      <4>. QED BY <4>1, <3>1, <3>2 DEF SearchInv, NoneMissed
    <3>4. CASE ~(i <= looked)
      <4>1. looked < i /\ looked # Len(Ranking)
        BY <3>4, <2>0
      <4>2. Len(kept) = wanted
        BY <4>1 DEF SearchInv, Counting
      <4>3. 1 \in DOMAIN kept
        BY <4>2, <2>0
      <4>. QED BY <4>1, <4>2, <4>3
    <3>. QED BY <3>3, <3>4
  <2>. QED BY <2>1, <2>2, <2>3 DEF HitsAreCanonical, Served
<1>. QED BY <1>1, SearchInitially, SearchInvStep, PTL DEF FilterSpec

-----------------------------------------------------------------------------
(* What an exact filter finds.                                             *)

\* A text that was given under a key is stored, sanitized, under its field.
LEMMA TagStored ==
  ASSUME NEW m, Accepts(m), NEW r \in DOMAIN m, NEW a \in Atom,
         m[r] = [kind |-> "text", items |-> {a}]
  PROVE  /\ Field[r] # Empty /\ Field[r] \in DOMAIN Stored(m)
         /\ Stored(m)[Field[r]].kind = "text" /\ Stored(m)[Field[r]].items = {Safe[a]}
<1>1. PICK v \in Value : v = [kind |-> "text", items |-> {a}]
  BY DEF Value
<1>2. Field[r] \in DOMAIN Stored(m) /\ Stored(m)[Field[r]] = SafeValue(v)
  BY <1>1, StoredAsGiven
<1>3. SafeValue(v).kind = "text" /\ SafeValue(v).items = {Safe[a]}
  <2>1. SafeValue(v).kind = v.kind /\ SafeValue(v).items = {Safe[x] : x \in v.items}
    BY SafeValues
  <2>. QED BY <1>1, <2>1
<1>. QED BY <1>2, <1>3 DEF Accepts

\* A chunk whose merged metadata has a text passes both stages of its filter.
LEMMA ExactFinds ==
  ASSUME Tagging, NEW c \in Chunk, NEW f, f # "docid", NEW a \in Atom,
         NEW e, e = [op |-> "is", val |-> a], filters = [g \in {f} |-> {e}],
         NEW v, v.kind = "text", v.items = {Safe[a]},
         \/ f \in DOMAIN ChunkMeta(c) /\ ChunkMeta(c)[f] = v
         \/ /\ f \notin DOMAIN ChunkMeta(c)
            /\ f \in DOMAIN DocMeta(DocOf[c]) /\ DocMeta(DocOf[c])[f] = v
  PROVE  c \in Matching /\ c \in FilterByMeta(filters)
<1>1. f \in DOMAIN Merged(c) /\ Merged(c)[f] = v
  BY DEF Merged, Over
<1>2. Match(v, e)
  <2>1. MatchText(Safe[a], e)
    BY DEF MatchText
  <2>. QED BY <2>1 DEF Match
<1>3. DOMAIN filters = {f} /\ filters[f] = {e}
  OBVIOUS
<1>4. c \in Matching
  BY <1>1, <1>2, <1>3 DEF Matching, MatchesFilters
<1>5. Text(v) = Safe[a]
  BY TextOfOne
<1>6. InTables(c, f, Safe[a])
  BY <1>5 DEF InTables, Has
<1>7. Passes(c, f, e) /\ e \in Strings(filters[f])
  BY <1>3, <1>6 DEF Passes, Strings
<1>. QED BY <1>3, <1>4, <1>7 DEF FilterByMeta

\* For any metadata, an exact filter with the key and the text as they were given
\* at ingest finds every chunk that has them (filters.py, metadb.py), when k is no
\* less than the candidates.
THEOREM TagsAreFound == FilterSpec => []TaggedIsFound
<1>1. ASSUME SearchInv, stage = "answered", wanted >= Len(Ranking),
             NEW i \in DOMAIN Ranking, NEW r \in RawKey, NEW a \in Atom,
             asked = [s \in {r} |-> {[op |-> "is", val |-> a]}], Field[r] # "docid",
             \/ /\ r \in DOMAIN chunkTags[Ranking[i]]
                /\ chunkTags[Ranking[i]][r] = [kind |-> "text", items |-> {a}]
             \/ /\ r \in DOMAIN docTags[DocOf[Ranking[i]]]
                /\ docTags[DocOf[Ranking[i]]][r] = [kind |-> "text", items |-> {a}]
                /\ Field[r] \notin DOMAIN ChunkMeta(Ranking[i])
      PROVE  Contains(kept, Ranking[i])
  <2>1. /\ Ranking \in Seq(Chunk) /\ kept \in Seq(Chunk) /\ looked \in Nat
        /\ looked <= Len(Ranking) /\ Len(kept) <= looked /\ wanted \in Nat
    BY <1>1, FilterAssumption DEF SearchInv, Counting, Asking
  <2>2. looked = Len(Ranking)
    <3>1. looked = Len(Ranking) \/ Len(kept) = wanted
      BY <1>1 DEF SearchInv, Counting
    <3>. QED BY <1>1, <2>1, <3>1
  <2>3. PICK c \in Chunk, d \in Doc : c = Ranking[i] /\ d = DocOf[c]
    BY <1>1, <2>1, FilterAssumption
  <2>4. PICK f, e : f = Field[r] /\ e = [op |-> "is", val |-> a]
    OBVIOUS
  <2>5. Tagging /\ Accepts(WithDocid(d, docTags[d])) /\ Accepts(chunkTags[c])
    BY <1>1 DEF SearchInv, Tagging
  <2>6. /\ f # Empty
        /\ \E v : /\ v.kind = "text" /\ v.items = {Safe[a]}
                  /\ \/ f \in DOMAIN ChunkMeta(c) /\ ChunkMeta(c)[f] = v
                     \/ /\ f \notin DOMAIN ChunkMeta(c)
                        /\ f \in DOMAIN DocMeta(DocOf[c]) /\ DocMeta(DocOf[c])[f] = v
    <3>1. CASE r \in DOMAIN chunkTags[c] /\ chunkTags[c][r] = [kind |-> "text", items |-> {a}]
      <4>1. PICK m : m = chunkTags[c]
        OBVIOUS
      <4>2. /\ f # Empty /\ f \in DOMAIN Stored(m)
            /\ Stored(m)[f].kind = "text" /\ Stored(m)[f].items = {Safe[a]}
        BY <1>1, <2>4, <2>5, <3>1, <4>1, TagStored
      <4>3. ChunkMeta(c) = Stored(m)
        BY <4>1 DEF ChunkMeta
      <4>. QED BY <4>2, <4>3
    <3>2. CASE /\ r \in DOMAIN docTags[d] /\ docTags[d][r] = [kind |-> "text", items |-> {a}]
               /\ f \notin DOMAIN ChunkMeta(c)
      <4>1. PICK m : m = WithDocid(d, docTags[d])
        OBVIOUS
      <4>2. r \in DOMAIN m /\ m[r] = [kind |-> "text", items |-> {a}]
        BY <3>2, <4>1 DEF WithDocid, Over
      <4>3. /\ f # Empty /\ f \in DOMAIN Stored(m)
            /\ Stored(m)[f].kind = "text" /\ Stored(m)[f].items = {Safe[a]}
        BY <1>1, <2>4, <2>5, <4>1, <4>2, TagStored
      <4>4. DocMeta(DocOf[c]) = Stored(m)
        BY <2>3, <4>1 DEF DocMeta
      <4>. QED BY <3>2, <4>3, <4>4
    <3>. QED BY <1>1, <2>3, <2>4, <3>1, <3>2
  <2>7. filters = [g \in {f} |-> {e}]
    <3>1. filters = Normed(asked)
      BY <1>1 DEF SearchInv, Asking
    <3>2. PICK q : q = asked
      OBVIOUS
    <3>3. DOMAIN q = {r} /\ q[r] = {e}
      BY <1>1, <2>4, <3>2
    <3>4. (CHOOSE s \in {r} : Field[s] = f) = r
      BY <2>4
    <3>5. Normed(q) = [g \in {f} |-> {e}]
      <4>1. {Field[s] : s \in DOMAIN q} \ {Empty} = {f}
        BY <2>4, <2>6, <3>3
      <4>2. \A g \in {f} : q[CHOOSE s \in DOMAIN q : Field[s] = g] = {e}
        BY <3>3, <3>4
      <4>. QED BY <4>1, <4>2 DEF Normed
    <3>. QED BY <3>1, <3>2, <3>5
  <2>8. c \in Matching /\ c \in FilterByMeta(filters)
    <3>1. f # "docid"
      BY <1>1, <2>4
    <3>2. PICK v : /\ v.kind = "text" /\ v.items = {Safe[a]}
                   /\ \/ f \in DOMAIN ChunkMeta(c) /\ ChunkMeta(c)[f] = v
                      \/ /\ f \notin DOMAIN ChunkMeta(c)
                         /\ f \in DOMAIN DocMeta(DocOf[c]) /\ DocMeta(DocOf[c])[f] = v
      BY <2>6
    <3>. QED BY <3>1, <3>2, <2>4, <2>5, <2>7, ExactFinds
  <2>9. c \in surviving
    BY <1>1, <2>8 DEF SearchInv, Asking
  <2>10. i \in 1 .. looked
    BY <1>1, <2>1, <2>2
  <2>11. \E j \in DOMAIN kept : kept[j] = Ranking[i]
    BY <1>1, <2>3, <2>8, <2>9, <2>10 DEF SearchInv, NoneMissed
  <2>. QED BY <2>1, <2>11 DEF Contains
<1>2. SearchInv => TaggedIsFound
  BY <1>1 DEF TaggedIsFound
<1>. QED BY <1>2, SearchInitially, SearchInvStep, PTL DEF FilterSpec
=============================================================================
