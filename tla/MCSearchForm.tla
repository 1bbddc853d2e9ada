----------------------------- MODULE MCSearchForm -----------------------------
(* Instances of SearchForm for TLC: three records, two queries, two facets.   *)
EXTENDS SearchForm, TLC
CONSTANTS q0, q1, f1, f2

ThreeRecords == 1 .. 3
TwoQueries   == {q0, q1}
OneFacet     == {f1}
TwoFacets    == {f1, f2}
OneFacetHits == q0 :> {1, 2, 3} @@ q1 :> {2, 3} @@ f1 :> {1, 3}
TwoFacetHits == OneFacetHits @@ f2 :> {2, 3}
==============================================================================
