----------------------------- MODULE Preprocess -----------------------------
(***************************************************************************)
(* The generators of pave/preprocess.py that cut a file into records: a    *)
(* text into windows that overlap, a CSV file into one record per row.     *)
(*                                                                         *)
(* Characters and cells are abstract: a text is its length, a window the   *)
(* positions it holds, and a cell of a CSV file is named by where it is.   *)
(* What the csv module's Sniffer says of a header is an input.             *)
(***************************************************************************)
EXTENDS Naturals, Sequences, SequencesExt

CONSTANTS
  MaxText,            \* bound on the length of a text
  MaxWindow,          \* bound on txt_chunk_size and txt_chunk_overlap
  Name, ColName,      \* names a header may hold; the names col_0, col_1, ...
  Specs,              \* column specifications: names, and indices from 1
  MaxCols, MaxRows    \* bounds on a CSV file

ASSUME PreprocessAssumption ==
  /\ {MaxText, MaxWindow, MaxCols, MaxRows} \subseteq Nat
  /\ \A i, j \in 1 .. MaxCols : ColName[i] = ColName[j] => i = j
  /\ Specs \subseteq [names : SUBSET Name, idxs : SUBSET (0 .. MaxCols + 1)]

VARIABLES
  job,        \* the file and the options, a record
  position,         \* how far the generator is: a position, or a row
  records     \* what it has yielded

preprocessVars == <<job, position, records>>

Idle == [kind |-> "none"]

PreprocessInit == job = Idle /\ position = 0 /\ records = <<>>

-----------------------------------------------------------------------------
(* Text.                                                                   *)

\* (mutant of Step: the windows do not overlap)
StepApart(size, overlap) == size

\* How far the next window starts from this one, max(size - overlap, 1).
Step(size, overlap) == IF size > overlap THEN size - overlap ELSE 1

TextFile ==
  /\ job = Idle
  /\ \E length \in 0 .. MaxText, size \in 1 .. MaxWindow, overlap \in 0 .. MaxWindow :
       job' = [kind |-> "txt", length |-> length, size |-> size, overlap |-> overlap]
  /\ UNCHANGED <<position, records>>

\* _chunks yields a slice of the text; preprocess numbers it and says where it
\* starts from its number.
Window ==
  /\ job.kind = "txt" /\ position < job.length
  /\ records' = Append(records, [text |-> position .. Min({position + job.size, job.length}) - 1,
                                 offset |-> Len(records) * Step(job.size, job.overlap)])
  /\ position' = position + Step(job.size, job.overlap)
  /\ UNCHANGED job

-----------------------------------------------------------------------------
(* CSV.  The rows of a file are known by their lengths; the first one is   *)
(* the header or data.                                                     *)

Nothing == [names |-> {}, idxs |-> {}]

\* (mutant of FirstRow: the first row is never data)
FirstRowSkipped(header) == 1

\* How many rows are over when the records begin: the header, if there is one.
FirstRow(header) == IF header THEN 1 ELSE 0

CsvFile ==
  /\ job = Idle
  /\ \E rows \in BoundedSeq(0 .. MaxCols, MaxRows), header \in BOOLEAN, meta, include \in Specs :
       /\ rows # <<>>
       /\ \E cols \in IF header THEN [1 .. rows[1] -> Name]
                     ELSE {[i \in 1 .. rows[1] |-> ColName[i]]} :
            job' = [kind |-> "csv", rows |-> rows, header |-> header, cols |-> cols,
                    meta |-> meta, include |-> include]
       /\ position' = FirstRow(header)
  /\ UNCHANGED records

\* What raises ValueError: an index that is zero or too large, a name without
\* a header or not in it.
Refused(spec) ==
  \/ 0 \in spec.idxs \/ \E i \in spec.idxs : i > Len(job.cols)
  \/ spec.names # {} /\ ~job.header
  \/ ~(spec.names \subseteq Range(job.cols))

\* resolve(): the names of the columns of a specification.
Keys(spec) == spec.names \cup {job.cols[i] : i \in spec.idxs}

\* Without include columns the text has all columns but those of the metadata.
Included ==
  IF job.include = Nothing THEN Range(job.cols) \ Keys(job.meta) ELSE Keys(job.include)

\* asdict: of columns with the same name the last one counts.  A short row is
\* filled up with empty cells, a long one is cut.
Cell(row, key) ==
  LET i == Max({j \in DOMAIN job.cols : job.cols[j] = key})
  IN  IF i <= job.rows[row] THEN {<<row, i>>} ELSE {}

\* One record per row; row and has_header take the place of columns so named.
Row ==
  /\ job.kind = "csv" /\ ~Refused(job.meta) /\ ~Refused(job.include)
  /\ position < Len(job.rows)
  /\ records' = Append(records,
       [text |-> UNION {Cell(position + 1, key) : key \in Included},
        meta |-> UNION {Cell(position + 1, key) : key \in Keys(job.meta) \ {"row", "has_header"}}])
  /\ position' = position + 1
  /\ UNCHANGED job

Exhausted ==
  \/ job.kind = "txt" /\ position >= job.length
  \/ job.kind = "csv" /\ (position = Len(job.rows) \/ Refused(job.meta) \/ Refused(job.include))

\* The generator is exhausted, or has raised; the next file is another one.
Done ==
  /\ Exhausted
  /\ job' = Idle /\ position' = 0 /\ records' = <<>>

PreprocessNext == TextFile \/ Window \/ CsvFile \/ Row \/ Done

PreprocessSpec == PreprocessInit /\ [][PreprocessNext]_preprocessVars

-----------------------------------------------------------------------------
(* What the records promise.                                               *)

Shorter(a, b) == IF a < b THEN a ELSE b

\* Every run of characters that is not longer than the overlap and one more is
\* whole in some window, so the whole text is in the windows; and the offset of
\* a window is where it starts.
PhrasesStayWhole ==
  job.kind = "txt" /\ Exhausted =>
    LET size == Shorter(Shorter(job.overlap + 1, job.size), job.length)
    IN  /\ \A p \in 0 .. job.length - 1 :
             p + size <= job.length =>
               \E i \in DOMAIN records : p .. p + size - 1 \subseteq records[i].text
        /\ \A i \in DOMAIN records : records[i].offset = Min(records[i].text)

\* With distinct column names, and none of them one the record uses itself,
\* every cell under a column is in the text or the metadata of its own row, when
\* no columns are chosen for the text.
NoCellIsLost ==
  /\ job.kind = "csv" /\ Exhausted /\ ~Refused(job.meta)
  /\ job.include = Nothing
  /\ \A i, j \in DOMAIN job.cols : job.cols[i] = job.cols[j] => i = j
  /\ {"row", "has_header"} \cap Keys(job.meta) = {}
  => LET heading == IF job.header THEN 1 ELSE 0
     IN  \A row \in heading + 1 .. Len(job.rows) :
           \A i \in 1 .. Shorter(job.rows[row], Len(job.cols)) :
             /\ row - heading \in DOMAIN records
             /\ LET r == records[row - heading] IN <<row, i>> \in r.text \cup r.meta
=============================================================================
