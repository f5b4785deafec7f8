----------------------------- MODULE MCFilters -----------------------------
\* A small instance of Filters for TLC: two chunks of two documents, and every
\* kind of value and condition.
EXTENDS Filters

MCDoc == {"d1", "d2"}
MCChunk == {"c1", "c2"}
MCDocOf == [c \in MCChunk |-> IF c = "c1" THEN "d1" ELSE "d2"]
MCRanking == <<"c1", "c2">>

\* "t.ag" is another way to write the key "tag", "?" sanitizes to nothing.
MCRawKey == {"tag", "t.ag", "docid", "?"}
MCField == [r \in MCRawKey |-> CASE r = "t.ag" -> "tag" [] r = "?" -> "" [] OTHER -> r]

\* A quote is doubled.
MCAtom == {"d1", "d2", "a", "o'", "o''", "5"}
MCSafe == [t \in MCAtom |-> IF t = "o'" THEN "o''" ELSE t]
MCNumeric == {"5"}

A == [kind |-> "text", items |-> {"a"}]
Quoted == [kind |-> "text", items |-> {"o'"}]
Five == [kind |-> "number", items |-> {"5"}]
Null == [kind |-> "null", items |-> {}]
Several == [kind |-> "list", items |-> {"a", "o'"}]

MCDocTags == {<<>>, "tag" :> A, "tag" :> Several, "docid" :> A}
MCChunkTags == {<<>>, "tag" :> A, "t.ag" :> Quoted, "tag" :> Five, "tag" :> Null,
                "tag" :> Several, "tag" :> A @@ "t.ag" :> Quoted, "?" :> A}

Is(a) == [op |-> "is", val |-> a]
Not(a) == [op |-> "not", val |-> a]
Wild == [op |-> "any", val |-> "a"]
Above == [op |-> "above", val |-> "5"]
Is5 == [op |-> "value", val |-> "5"]

MCFilterings ==
  {<<>>, "?" :> {Is("a")}, "t.ag" :> {Is("o'")}, "t.ag" :> {Is("a"), Not("o'")}}
  \cup {"tag" :> conds : conds \in {{Is("a")}, {Is("o'")}, {Not("a")}, {Not("o'")},
           {Is("a"), Wild}, {Not("a"), Above}, {Above}, {Is5}, {Is5, Is("a")}, {}}}
  \cup {"docid" :> {cond} : cond \in {Is("d1"), Not("d1"), Is("a")}}
  \cup {"tag" :> {Not("a")} @@ "docid" :> {Is("d1")}}
=============================================================================
