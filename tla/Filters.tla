------------------------------ MODULE Filters ------------------------------
(***************************************************************************)
(* Metadata filters: how pave/filters.py sanitizes keys and values, how    *)
(* index_records stores them, and the two stages of a filtered search.     *)
(* filter_by_meta (SQL over the key/value tables) first throws candidates  *)
(* out; matches_filters (Python over the merged metadata) then decides,    *)
(* best score first, until k chunks are kept.                              *)
(*                                                                         *)
(* A value is a text, a number, a null or a list of texts.  The tables     *)
(* hold str(value): one text for a scalar, and for a null or a list a text *)
(* that is none of its items.  A condition is an exact text, a negated     *)
(* text, a wildcard, a comparison, or a value that is not a string at all. *)
(***************************************************************************)
EXTENDS Naturals, Sequences, SequencesExt

CONSTANTS
  Doc, Chunk, DocOf,     \* documents, their chunks, the document of each chunk
  RawKey, Field,         \* keys as given, and what sanit_field makes of them
  Atom, Safe,            \* texts as given, and what sanit_sql makes of them
  Numeric,               \* the texts that float() accepts
  DocTags, ChunkTags,    \* the metadata an ingest may give a document, a chunk
  Filterings,            \* the filters a search may ask for
  Ranking,               \* the candidates of a search, best score first
  MaxWanted              \* bound on k

\* A value of metadata: a text or a number is one item, a null is none.
Value ==
  {v \in [kind : {"text", "number", "null", "list"}, items : SUBSET Atom] :
     /\ v.kind \in {"text", "number"} => \E a \in Atom : v.items = {a}
     /\ v.kind = "null" => v.items = {}}

Cond == [op : {"is", "not", "any", "above", "value"}, val : Atom]

ASSUME FilterAssumption ==
  /\ DocOf \in [Chunk -> Doc]
  /\ Safe \in [Atom -> Atom]
  /\ Numeric \subseteq Atom
  /\ Doc \subseteq Atom
  /\ \A m \in DocTags \cup ChunkTags :
       DOMAIN m \subseteq RawKey /\ \A r \in DOMAIN m : m[r] \in Value
  /\ \A q \in Filterings :
       DOMAIN q \subseteq RawKey /\ \A r \in DOMAIN q : q[r] \subseteq Cond
  /\ Ranking \in Seq(Chunk)
  /\ MaxWanted \in Nat \ {0}

VARIABLES
  docTags, chunkTags,    \* metadata as given at the last ingest
  stage,                 \* of the search
  asked,                 \* its filter as given
  filters, wanted,       \* the filter with sanitized keys, and k
  surviving,             \* the candidates filter_by_meta leaves
  looked, kept           \* candidates matches_filters has seen, and has kept

filterVars == <<docTags, chunkTags, stage, asked, filters, wanted, surviving, looked,
                kept>>

-----------------------------------------------------------------------------
(* Sanitizing and storing.                                                 *)

Empty == ""

\* sanit_meta_dict raises for a key that vanishes, is reserved, or meets another.
Accepts(m) ==
  /\ \A r \in DOMAIN m : Field[r] \notin {Empty, "text"}
  /\ \A r, s \in DOMAIN m : Field[r] = Field[s] => r = s

SafeValue(v) == [v EXCEPT !.items = {Safe[a] : a \in v.items}]

Stored(m) ==
  [f \in {Field[r] : r \in DOMAIN m} |->
     SafeValue(m[CHOOSE r \in DOMAIN m : Field[r] = f])]

\* The entries of one dict, put over those of another.
Over(top, base) ==
  [f \in DOMAIN top \cup DOMAIN base |-> IF f \in DOMAIN top THEN top[f] ELSE base[f]]

\* ingest_document puts the docid first, so metadata may replace it.
WithDocid(d, m) == Over(m, [r \in {"docid"} |-> [kind |-> "text", items |-> {d}]])
DocMeta(d) == Stored(WithDocid(d, docTags[d]))
ChunkMeta(c) == Stored(chunkTags[c])

\* What upsert_chunks writes in the tables, str(value).
Text(v) ==
  IF v.kind \in {"text", "number"} THEN CHOOSE a \in v.items : TRUE ELSE v.kind

\* get_meta_batch: the chunk's metadata over that of its document.
Merged(c) == Over(ChunkMeta(c), DocMeta(DocOf[c]))

-----------------------------------------------------------------------------
(* The canonical filter.                                                   *)

MatchText(a, cond) ==
  CASE cond.op = "is"    -> a = Safe[cond.val]
    [] cond.op = "not"   -> a # Safe[cond.val]
    [] cond.op = "value" -> a = cond.val
    [] cond.op = "above" -> a \in Numeric
    [] cond.op = "any"   -> TRUE

\* match(): a null never matches, a list does if one of its items does.
Match(v, cond) == \E a \in v.items : MatchText(a, cond)

MatchesFilters(m, fs) ==
  \A f \in DOMAIN fs : \E cond \in fs[f] : f \in DOMAIN m /\ Match(m[f], cond)

-----------------------------------------------------------------------------
(* The pushdown.                                                           *)

Has(m, f, text) == f \in DOMAIN m /\ Text(m[f]) = text

\* _docid_matches, or _chunk_meta_matches and _document_meta_matches.
InTables(c, f, text) ==
  IF f = "docid" THEN DocOf[c] = text
  ELSE Has(ChunkMeta(c), f, text) \/ Has(DocMeta(DocOf[c]), f, text)

Strings(conds) == {cond \in conds : cond.op # "value"}

\* (mutant of Skipped: the conditions SQL cannot express are dropped)
SkippedNever(conds) == {cond \in Strings(conds) : cond.op \in {"is", "not"}} = {}

\* A key is left to the canonical filter when one of its conditions has a
\* wildcard or a comparison, or when none is a string.
Skipped(conds) ==
  \/ Strings(conds) = {}
  \/ \E cond \in Strings(conds) : cond.op \in {"any", "above"}

Passes(c, f, cond) ==
  \/ cond.op = "is" /\ InTables(c, f, Safe[cond.val])
  \/ cond.op = "not" /\ ~InTables(c, f, Safe[cond.val])

FilterByMeta(fs) ==
  {c \in Chunk : \A f \in DOMAIN fs :
     Skipped(fs[f]) \/ \E cond \in Strings(fs[f]) : Passes(c, f, cond)}

-----------------------------------------------------------------------------
(* Ingest and search.                                                      *)

FilterInit ==
  /\ docTags = [d \in Doc |-> <<>>] /\ chunkTags = [c \in Chunk |-> <<>>]
  /\ stage = "none"
  /\ asked = <<>> /\ filters = <<>> /\ wanted = 0
  /\ surviving = {} /\ looked = 0 /\ kept = <<>>

\* The metadata of every document and chunk passes sanit_meta_dict, else the
\* ingest is refused.
Ingest ==
  /\ stage = "none"
  /\ docTags' \in [Doc -> DocTags] /\ chunkTags' \in [Chunk -> ChunkTags]
  /\ \A d \in Doc : Accepts(WithDocid(d, docTags'[d]))
  /\ \A c \in Chunk : Accepts(chunkTags'[c])
  /\ stage' = "indexed"
  /\ UNCHANGED <<asked, filters, wanted, surviving, looked, kept>>

\* (mutant of Normed: the keys of a filter are taken as they are)
NormedNot(q) == q

\* search: keys are sanitized, and those that vanish are dropped.
Normed(q) ==
  [f \in {Field[r] : r \in DOMAIN q} \ {Empty} |->
     q[CHOOSE r \in DOMAIN q : Field[r] = f]]

Search ==
  /\ stage = "indexed"
  /\ asked' \in Filterings
  /\ filters' = Normed(asked')
  /\ wanted' \in 1 .. MaxWanted
  /\ stage' = "asked"
  /\ UNCHANGED <<docTags, chunkTags, surviving, looked, kept>>

PushDown ==
  /\ stage = "asked"
  /\ surviving' = FilterByMeta(filters)
  /\ stage' = "pushed"
  /\ UNCHANGED <<docTags, chunkTags, asked, filters, wanted, looked, kept>>

\* The loop over the candidates: keep one, and stop when there are k.
PostFilter ==
  /\ stage = "pushed"
  /\ looked < Len(Ranking) /\ Len(kept) < wanted
  /\ LET c == Ranking[looked + 1]
     IN kept' = IF c \in surviving /\ MatchesFilters(Merged(c), filters)
                THEN Append(kept, c) ELSE kept
  /\ looked' = looked + 1
  /\ UNCHANGED <<docTags, chunkTags, stage, asked, filters, wanted, surviving>>

Answer ==
  /\ stage = "pushed"
  /\ looked = Len(Ranking) \/ Len(kept) = wanted
  /\ stage' = "answered"
  /\ UNCHANGED <<docTags, chunkTags, asked, filters, wanted, surviving, looked, kept>>

\* The next search.
Again ==
  /\ stage = "answered"
  /\ stage' = "indexed"
  /\ asked' = <<>> /\ filters' = <<>> /\ wanted' = 0
  /\ surviving' = {} /\ looked' = 0 /\ kept' = <<>>
  /\ UNCHANGED <<docTags, chunkTags>>

FilterNext == Ingest \/ Search \/ PushDown \/ PostFilter \/ Answer \/ Again

FilterSpec == FilterInit /\ [][FilterNext]_filterVars

-----------------------------------------------------------------------------
(* What filters promise.                                                   *)

\* The search leaves out no chunk the canonical filter accepts, unless k
\* chunks with better scores are kept.
Served(i) ==
  MatchesFilters(Merged(Ranking[i]), filters) =>
    \E j \in DOMAIN kept : kept[j] = Ranking[i] \/ (Len(kept) = wanted /\ looked < i)

\* Where the tables and the merged metadata tell the same of a chunk: a key
\* that is filtered holds no list, a negated key is not given by chunk and
\* document at once, the docid is not replaced, and the conditions of a key
\* are all strings or all not.
Plain(c) ==
  \A f \in DOMAIN filters :
    /\ Strings(filters[f]) \in {{}, filters[f]}
    /\ f \in DOMAIN Merged(c) => Merged(c)[f].kind # "list"
    /\ f = "docid" => Merged(c)[f].items = {DocOf[c]}
    /\ (\E cond \in filters[f] : cond.op = "not") =>
         ~(f \in DOMAIN ChunkMeta(c) /\ f \in DOMAIN DocMeta(DocOf[c]))

\* A search returns chunks that match, best first, and the pushdown costs it
\* none of the chunks whose tables tell the same as their metadata.
HitsAreCanonical ==
  stage = "answered" =>
    /\ \A j \in DOMAIN kept : MatchesFilters(Merged(kept[j]), filters)
    /\ \A j, l \in DOMAIN kept :
         j < l => \E m, n \in DOMAIN Ranking :
                    m < n /\ Ranking[m] = kept[j] /\ Ranking[n] = kept[l]
    /\ \A i \in DOMAIN Ranking : Plain(Ranking[i]) => Served(i)

\* What a chunk was tagged with finds it: an exact filter with the same key and
\* text, as they were given at ingest, returns every chunk that has them from
\* its record, or from its document and nothing else from its record.
TaggedIsFound ==
  stage = "answered" /\ wanted >= Len(Ranking) =>
    \A i \in DOMAIN Ranking, r \in RawKey, a \in Atom :
      LET c == Ranking[i]
          Tagged(m) == r \in DOMAIN m /\ m[r] = [kind |-> "text", items |-> {a}]
      IN  /\ asked = [s \in {r} |-> {[op |-> "is", val |-> a]}] /\ Field[r] # "docid"
          /\ \/ Tagged(chunkTags[c])
             \/ Tagged(docTags[DocOf[c]]) /\ Field[r] \notin DOMAIN ChunkMeta(c)
          => Contains(kept, c)

\* The pushdown is only an optimization: a search returns what the canonical
\* filter alone would have returned.
PushdownOnlyOptimizes == stage = "answered" => \A i \in DOMAIN Ranking : Served(i)
=============================================================================
