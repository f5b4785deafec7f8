----------------------------- MODULE MCServices -----------------------------
\* Small instances of four modules that share no state, checked in one run: the
\* initial state chooses one of them, and only it takes steps.
EXTENDS Api, MCFilters, Metrics, Preprocess

VARIABLE part       \* the module that runs

\* Two collections of a tenant, and the common one of another; two documents, so
\* that one can be lost without the other.
MCColl == {<<"acme", "a">>, <<"acme", "b">>, <<"beta", "c">>}
MCCommon == <<"beta", "c">>
MCRanked == <<"d", "e">>

MCColName == <<"col_0", "col_1">>

\* Columns by name, by index from 1, and indices that are refused.
Cols(names, idxs) == [names |-> names, idxs |-> idxs]
MCSpecs == {Nothing, Cols({"a"}, {}), Cols({"b"}, {1}), Cols({"row"}, {}), Cols({"a"}, {2}),
            Cols({}, {1, 2}), Cols({}, {0}), Cols({}, {3})}

MCInit ==
  /\ part \in {"api", "filters", "metrics", "preprocess"}
  /\ ApiInit /\ FilterInit /\ MetricsInit /\ PreprocessInit

MCNext ==
  /\ UNCHANGED part
  /\ \/ /\ part = "api" /\ ApiNext
        /\ UNCHANGED <<filterVars, metricsVars, preprocessVars>>
     \/ /\ part = "filters" /\ FilterNext
        /\ UNCHANGED <<apiVars, metricsVars, preprocessVars>>
     \/ /\ part = "metrics" /\ MetricsNext
        /\ UNCHANGED <<apiVars, filterVars, preprocessVars>>
     \/ /\ part = "preprocess" /\ PreprocessNext
        /\ UNCHANGED <<apiVars, filterVars, metricsVars>>

MCSpec == MCInit /\ [][MCNext]_<<part, apiVars, filterVars, metricsVars, preprocessVars>>
=============================================================================
