-------------------------- MODULE SearchForm_proofs --------------------------
(***************************************************************************)
(* Proofs about SearchForm, for any records, queries, facets, clicks and   *)
(* failures, pages of any size and answers in any order: the page number,  *)
(* the number of pages and the records shown belong together; the results  *)
(* are those of the address, and the check boxes those of the session but  *)
(* for the records that add-all leaves out.                                *)
(*                                                                         *)
(* Every search begins at the first record of some page (Aligned), and the *)
(* page counts as many searches as loading as there are unanswered, or     *)
(* more.  What the paginator shows is then either that of the results, or  *)
(* something is loading.  That there are no pages yet (-1) tells that no   *)
(* results with records have come, whatever stands for no results.         *)
(*                                                                         *)
(* For a user who waits for every answer, OrderInv says more: at most one  *)
(* request is on its way, and what its answer will make of the page is     *)
(* what the address and the session hold by then.                          *)
(***************************************************************************)
EXTENDS SearchForm, FiniteSetTheorems, TLAPS

-----------------------------------------------------------------------------
(* Pages.                                                                   *)

Aligned(n) == \E k \in Nat \ {0} : n = FirstOf(k)

\* Multiplication and division, as the prover knows them only for numbers.
LEMMA Multiples ==
  ASSUME NEW a \in Nat, NEW b \in Nat \ {0}
  PROVE  a * b \in Nat /\ (a * b) \div b = a
<1>1. a * b \in Nat
  OBVIOUS
<1> DEFINE d == (a * b) \div b  m == (a * b) % b
<1>2. d \in Int /\ m \in 0 .. b - 1 /\ a * b = b * d + m
  BY <1>1
<1> HIDE DEF d, m
<1>3. CASE d < a
  <2>1. b * (a - d) = m
    BY <1>2
  <2>2. a - d >= 1
    BY <1>2, <1>3
  <2>3. b * (a - d) >= b
    BY <1>2, <2>2
  <2> QED
    BY <1>2, <2>1, <2>3
<1>4. CASE d > a
  <2>1. b * (d - a) = 0 - m
    BY <1>2
  <2>2. d - a >= 1
    BY <1>2, <1>4
  <2>3. b * (d - a) >= b
    BY <1>2, <2>2
  <2> QED
    BY <1>2, <2>1, <2>3
<1>5. d = a
  BY <1>2, <1>3, <1>4
<1> QED
  BY <1>1, <1>5 DEF d

LEMMA FirstOfPage ==
  ASSUME NEW k \in Nat \ {0}
  PROVE  FirstOf(k) \in Nat \ {0} /\ PageFrom(FirstOf(k)) = k
<1>1. (k - 1) * PageSize \in Nat /\ ((k - 1) * PageSize) \div PageSize = k - 1
  BY PageAssumption, Multiples
<1>2. FirstOf(k) = (k - 1) * PageSize + 1
  BY DEF FirstOf
<1>3. FirstOf(k) - 1 = (k - 1) * PageSize
  BY <1>1, <1>2
<1>4. PageFrom(FirstOf(k)) = k - 1 + 1
  BY <1>1, <1>3 DEF PageFrom
<1> QED
  BY <1>1, <1>2, <1>4

LEMMA LastPage ==
  ASSUME NEW k \in Nat \ {0}, NEW c \in Nat, FirstOf(k) <= c
  PROVE  k <= (c + PageSize - 1) \div PageSize
<1> DEFINE b == PageSize
           n == c + b - 1
           d == n \div b
           m == n % b
<1>1. b \in Nat \ {0}
  BY PageAssumption
<1>2. n \in Nat /\ d \in Int /\ m \in 0 .. b - 1 /\ n = b * d + m
  BY <1>1
<1>3. (k - 1) * b + 1 <= c
  BY DEF FirstOf
<1> HIDE DEF b, n, d, m
<1>4. (k - 1) * b \in Int /\ k * b = (k - 1) * b + b
  BY <1>1
<1>5. k * b <= n
  BY <1>1, <1>3, <1>4 DEF n
<1>6. CASE d < k
  <2>1. k - d >= 1 /\ k - d \in Int
    BY <1>2, <1>6
  <2>2. b * (k - d) >= b
    BY <1>1, <2>1
  <2>3. b * (k - d) = k * b - b * d
    BY <1>1, <1>2
  <2> QED
    BY <1>1, <1>2, <1>5, <2>2, <2>3
<1> QED
  BY <1>2, <1>6 DEF d, n, b

LEMMA PositionIs ==
  ASSUME NEW M, IsFiniteSet(M), NEW x
  PROVE  Position(x, M) \in Nat /\ Position(x, M) <= Cardinality(M) /\ Cardinality(M) \in Nat
<1>1. {y \in M : y <= x} \subseteq M
  OBVIOUS
<1> QED
  BY <1>1, FS_Subset, FS_CardinalityType DEF Position

-----------------------------------------------------------------------------
(* The invariant.                                                           *)

GoodSearch(s)  == DOMAIN s = {"q", "facets", "from"} /\ s.q \in Queries /\ Aligned(s.from)
GoodParams(p)  == /\ DOMAIN p = {"q", "facets", "from", "extra"}
                  /\ p.q \in Queries /\ Aligned(p.from)
GoodAddress(u) == /\ DOMAIN u = {"path", "q", "facets", "from", "extra"} /\ u.q \in Queries
                  /\ u.from = 0 \/ Aligned(u.from)
IsResult(res)  == DOMAIN res = {"of", "checked"} /\ GoodSearch(res.of)

Names == {"n", "kind", "search", "ids", "stage", "answer"}
GoodRequest(r) == DOMAIN r = Names /\ (r.kind = "search" => GoodSearch(r.search))
Searches(R)    == {r \in R : r.kind = "search"}

\* The requests R, of which at most n are searches.
Loading(R, n) ==
  /\ IsFiniteSet(R) /\ \A r \in R : GoodRequest(r)
  /\ n \in Nat /\ Cardinality(Searches(R)) <= n

AddressInv == /\ GoodAddress(url) /\ GoodAddress(leftParams)
              /\ \A u \in visited : GoodAddress(u)
FormInv    == /\ DOMAIN params = {"q", "facets", "from", "extra"} /\ params.q \in Queries
              /\ page \in Nat \ {0}
\* There are pages as soon as there were results to show.
Received   == IsResult(results) /\ (pages = -1 => PageOf(results.of) = {})
ResultInv  == /\ results = None \/ Received
              /\ (\E r \in requests : r.kind # "search") => Received
AgreeInv   == /\ searching = 0 /\ ~skipped /\ pages # -1
              /\ IsResult(results) /\ PageOf(results.of) # {}
              => FirstOf(page) = results.of.from /\ pages = PagesOf(results.of)
SearchInv  == /\ AddressInv /\ FormInv /\ ResultInv /\ AgreeInv
              /\ Loading(requests, searching)

LEMMA SearchInit == Init => SearchInv
<1> SUFFICES ASSUME Init PROVE SearchInv
  OBVIOUS
<1>1. Aligned(1)
  <2>1. (1 - 1) * PageSize + 1 = 1
    BY PageAssumption
  <2> QED
    BY <2>1 DEF Aligned, FirstOf
<1>2. AddressInv
  <2>1. GoodAddress(url) /\ GoodAddress(leftParams)
    BY <1>1, QueryAssumption DEF Init, GoodAddress, Elsewhere, SearchAddress
  <2>2. \A u \in Bookmarks : GoodAddress(u)
    BY <1>1, QueryAssumption DEF Bookmarks, GoodAddress, Elsewhere, SearchAddress, ParamsOf
  <2>3. GoodAddress(Elsewhere("home"))
    BY QueryAssumption DEF GoodAddress, Elsewhere
  <2> QED
    BY <2>1, <2>2, <2>3 DEF Init, AddressInv
<1>3. FormInv /\ ResultInv /\ AgreeInv
  BY QueryAssumption DEF Init, FormInv, ResultInv, AgreeInv
<1>4. Loading(requests, searching)
  <2>1. requests = {} /\ searching = 0 /\ Searches(requests) = {}
    BY DEF Init, Searches
  <2> QED
    BY <2>1, FS_EmptySet DEF Loading
<1> QED
  BY <1>2, <1>3, <1>4 DEF SearchInv

\* The invariant says what it should: a page that shows a record is one of the
\* pages there are.
LEMMA SearchImplies == SearchInv => PaginationAgrees
<1> SUFFICES ASSUME SearchInv, searching = 0, ~skipped, Shown # {}
             PROVE  /\ FirstOf(page) = results.of.from
                    /\ pages = PagesOf(results.of)
                    /\ page \in 1 .. pages
  BY DEF PaginationAgrees
<1>1. Received /\ Shown = PageOf(results.of)
  BY DEF SearchInv, ResultInv, Shown
<1>2. /\ IsResult(results)
      /\ FirstOf(page) = results.of.from /\ pages = PagesOf(results.of)
  BY <1>1 DEF SearchInv, AgreeInv, Received
<1> DEFINE M == Matches(results.of)
           c == Cardinality(M)
<1>3. IsFiniteSet(M)
  <2>1. M \subseteq Records
    BY <1>2, QueryAssumption DEF Matches, IsResult, GoodSearch
  <2> QED
    BY <2>1, RecordAssumption, FS_Subset
<1>4. PICK r : Position(r, M) \in results.of.from .. results.of.from + PageSize - 1
  BY <1>1 DEF PageOf
<1>5. c \in Nat /\ Position(r, M) \in Nat /\ Position(r, M) <= c
  BY <1>3, PositionIs
<1>6. page \in Nat \ {0} /\ FirstOf(page) \in Nat
  BY FirstOfPage DEF SearchInv, FormInv
<1>7. pages = (c + PageSize - 1) \div PageSize
  BY <1>2 DEF PagesOf
<1> HIDE DEF M, c
<1>8. FirstOf(page) <= c
  BY <1>2, <1>4, <1>5, <1>6, PageAssumption
<1>9. page <= (c + PageSize - 1) \div PageSize
  BY <1>5, <1>6, <1>8, LastPage
<1>10. (c + PageSize - 1) \div PageSize \in Int
  BY <1>5, PageAssumption
<1> QED
  BY <1>2, <1>6, <1>7, <1>9, <1>10

-----------------------------------------------------------------------------
(* Requests.                                                                *)

Alike(q, r) == DOMAIN q = Names /\ \A name \in Names \ {"n"} : q[name] = r[name]

\* A new request is told apart from all that are on their way, by a number.
LEMMA WithIsNumbered ==
  ASSUME NEW pending, IsFiniteSet(pending), NEW r, DOMAIN r = Names
  PROVE  \E n \in Nat : /\ With(pending, r) = pending \cup {[r EXCEPT !.n = n]}
                        /\ [r EXCEPT !.n = n] \notin pending
<1> DEFINE c == Cardinality(pending)
           I == 1 .. c + 1
           Nth(n) == [r EXCEPT !.n = n]
<1>1. c \in Nat
  BY FS_CardinalityType
<1>2. IsFiniteSet(I) /\ Cardinality(I) = c + 1
  BY <1>1, FS_Interval
<1>3. \E n \in I : Nth(n) \notin pending
  <2> SUFFICES ASSUME \A n \in I : Nth(n) \in pending PROVE FALSE
    OBVIOUS
  <2> DEFINE f == [n \in I |-> Nth(n)]
  <2>1. f \in [I -> pending]
    OBVIOUS
  <2>2. \A n \in I : f[n].n = n
    BY DEF Names
  <2> HIDE DEF f, I
  <2>3. c < Cardinality(I)
    BY <1>1, <1>2
  <2>4. \E x, y \in I : x # y /\ f[x] = f[y]
    BY <1>2, <2>1, <2>3, FS_PigeonHole
  <2> QED
    BY <2>2, <2>4
<1> DEFINE n == CHOOSE k \in I : Nth(k) \notin pending
<1>4. n \in I /\ Nth(n) \notin pending
  BY <1>3
<1>5. With(pending, r) = pending \cup {Nth(n)}
  BY DEF With
<1> HIDE DEF n
<1>6. n \in Nat
  BY <1>1, <1>4
<1> QED
  BY <1>4, <1>5, <1>6

LEMMA WithIsNew ==
  ASSUME NEW pending, IsFiniteSet(pending), NEW r, DOMAIN r = Names
  PROVE  \E q : Alike(q, r) /\ With(pending, r) = pending \cup {q} /\ q \notin pending
<1>1. PICK n \in Nat : /\ With(pending, r) = pending \cup {[r EXCEPT !.n = n]}
                       /\ [r EXCEPT !.n = n] \notin pending
  BY WithIsNumbered
<1>2. Alike([r EXCEPT !.n = n], r)
  BY DEF Alike, Names
<1> QED
  BY <1>1, <1>2

\* One more request, and one search more if it is one.
LEMMA LoadingWith ==
  ASSUME NEW R, NEW n, Loading(R, n), NEW r, GoodRequest(r)
  PROVE  /\ r.kind = "search" => Loading(With(R, r), n + 1)
         /\ r.kind # "search" => Loading(With(R, r), n)
         /\ \A x \in With(R, r) : x \in R \/ x.kind = r.kind
<1>1. PICK q : Alike(q, r) /\ With(R, r) = R \cup {q} /\ q \notin R
  BY WithIsNew DEF Loading, GoodRequest
<1>2. GoodRequest(q) /\ q.kind = r.kind
  BY <1>1 DEF Alike, Names, GoodRequest
<1>3. IsFiniteSet(With(R, r)) /\ \A x \in With(R, r) : GoodRequest(x)
  BY <1>1, <1>2, FS_AddElement DEF Loading
<1>4. IsFiniteSet(Searches(R)) /\ Cardinality(Searches(R)) \in Nat
  <2>1. Searches(R) \subseteq R
    BY DEF Searches
  <2> QED
    BY <2>1, FS_Subset, FS_CardinalityType DEF Loading
<1>5. CASE r.kind = "search"
  <2>1. Searches(With(R, r)) = Searches(R) \cup {q}
    BY <1>1, <1>2, <1>5 DEF Searches
  <2>2. Cardinality(Searches(With(R, r))) <= Cardinality(Searches(R)) + 1
    BY <1>4, <2>1, FS_AddElement
  <2>3. Cardinality(Searches(With(R, r))) \in Nat
    BY <1>4, <2>1, FS_AddElement, FS_CardinalityType
  <2> QED
    BY <1>1, <1>2, <1>3, <1>4, <1>5, <2>2, <2>3 DEF Loading
<1>6. CASE r.kind # "search"
  <2>1. Searches(With(R, r)) = Searches(R)
    BY <1>1, <1>2, <1>6 DEF Searches
  <2> QED
    BY <1>1, <1>2, <1>3, <1>6, <2>1 DEF Loading
<1> QED
  BY <1>5, <1>6

\* One request less.
LEMMA LoadingWithout ==
  ASSUME NEW R, NEW n, Loading(R, n), NEW r \in R
  PROVE  /\ Loading(R \ {r}, n) /\ GoodRequest(r)
         /\ r.kind = "search" => Loading(R \ {r}, n - 1)
<1>1. IsFiniteSet(R \ {r}) /\ \A x \in R \ {r} : GoodRequest(x)
  BY FS_RemoveElement DEF Loading
<1>2. IsFiniteSet(Searches(R)) /\ Cardinality(Searches(R)) \in Nat
  <2>1. Searches(R) \subseteq R
    BY DEF Searches
  <2> QED
    BY <2>1, FS_Subset, FS_CardinalityType DEF Loading
<1>3. CASE r.kind = "search"
  <2>1. Searches(R \ {r}) = Searches(R) \ {r} /\ r \in Searches(R)
    BY <1>3 DEF Searches
  <2>2. /\ Cardinality(Searches(R \ {r})) = Cardinality(Searches(R)) - 1
        /\ Cardinality(Searches(R \ {r})) \in Nat
    BY <1>2, <2>1, FS_RemoveElement, FS_CardinalityType
  <2> QED
    BY <1>1, <1>2, <2>2 DEF Loading
<1>4. CASE r.kind # "search"
  <2>1. Searches(R \ {r}) = Searches(R)
    BY <1>4 DEF Searches
  <2> QED
    BY <1>1, <1>4, <2>1 DEF Loading
<1> QED
  BY <1>3, <1>4

\* When nothing is loading, no search is on its way.
LEMMA NothingLoading ==
  ASSUME NEW R, Loading(R, 0)
  PROVE  \A r \in R : r.kind # "search"
<1>1. IsFiniteSet(Searches(R)) /\ Cardinality(Searches(R)) \in Nat
  <2>1. Searches(R) \subseteq R
    BY DEF Searches
  <2> QED
    BY <2>1, FS_Subset, FS_CardinalityType DEF Loading
<1>2. Cardinality(Searches(R)) = 0
  BY <1>1 DEF Loading
<1>3. Searches(R) = {}
  BY <1>1, <1>2, FS_EmptySet
<1> QED
  BY <1>3 DEF Searches

LEMMA SendsIs ==
  ASSUME SearchInv, NEW s, GoodSearch(s), Sends(s)
  PROVE  /\ Loading(requests', searching') /\ searching' # 0
         /\ \A r \in requests' : r \in requests \/ r.kind = "search"
<1> DEFINE q == [Blank("search") EXCEPT !.search = s]
<1>1. GoodRequest(q) /\ q.kind = "search"
  BY DEF GoodRequest, Blank, Names
<1>2. requests' = With(requests, q) /\ searching' = searching + 1
  BY DEF Sends
<1> HIDE DEF q
<1>3. Loading(requests, searching) /\ searching \in Nat
  BY DEF SearchInv, Loading
<1> QED
  BY <1>1, <1>2, <1>3, LoadingWith

-----------------------------------------------------------------------------
(* The steps.                                                               *)

\* The address changes, to one whose page is pg or where there are no pages.
LEMMA GoesToKeeps ==
  ASSUME SearchInv, NEW u, GoodAddress(u), NEW asText, NEW p, NEW list, NEW asked,
         NEW pg \in Nat \ {0},
         DOMAIN p = {"q", "facets", "from", "extra"}, p.q \in Queries,
         pg = page \/ (u.path = "search" /\ SearchOf(u).from = FirstOf(pg)),
         GoesTo(u, asText, p, list, asked, pg), UNCHANGED <<pages, results>>
  PROVE  SearchInv'
<1> DEFINE kept == Kept(list, u.facets)
           plain == PlainFacets(u, asked)
           s == [SearchOf(u) EXCEPT !.facets = FacetsOf(kept, plain)]
<1>1. Aligned(1)
  <2>1. (1 - 1) * PageSize + 1 = 1
    BY PageAssumption
  <2> QED
    BY <2>1 DEF Aligned, FirstOf
<1>2. GoodSearch(SearchOf(u))
  BY <1>1 DEF GoodAddress, GoodSearch, SearchOf
<1>3. AddressInv'
  BY DEF GoesTo, SearchInv, AddressInv
<1>4. CASE /\ params' = ParamsOf([SearchOf(u) EXCEPT !.facets = plain])
           /\ page' = IF u.from = 0 THEN 1 ELSE pg
           /\ Sends(s)
  <2>1. GoodSearch(s)
    BY <1>2 DEF GoodSearch
  <2> HIDE DEF s
  <2>2. /\ Loading(requests', searching') /\ searching' # 0
        /\ \A r \in requests' : r \in requests \/ r.kind = "search"
    BY <1>4, <2>1, SendsIs
  <2>3. FormInv'
    BY <1>2, <1>4 DEF GoodSearch, FormInv, ParamsOf
  <2>4. ResultInv' /\ AgreeInv'
    BY <2>2 DEF SearchInv, ResultInv, AgreeInv, Received
  <2> QED
    BY <1>3, <2>2, <2>3, <2>4 DEF SearchInv
<1>5. CASE /\ params' = p /\ page' = pg
           /\ skipped' = (skipped \/ (u.path = "search" /\ ~IsComing(SearchOf(u))))
           /\ UNCHANGED <<requests, searching>>
  <2>1. FormInv' /\ ResultInv' /\ Loading(requests', searching')
    BY <1>5 DEF SearchInv, FormInv, ResultInv, Received, Loading
  <2>2. AgreeInv'
    <3> SUFFICES ASSUME searching' = 0, ~skipped', pages' # -1,
                        IsResult(results'), PageOf(results'.of) # {}
                 PROVE  FirstOf(page') = results'.of.from /\ pages' = PagesOf(results'.of)
      BY DEF AgreeInv
    <3>1. searching = 0 /\ ~skipped
      BY <1>5
    <3>2. FirstOf(page) = results.of.from /\ pages = PagesOf(results.of)
      BY <3>1 DEF SearchInv, AgreeInv
    <3>3. CASE pg = page
      BY <1>5, <3>2, <3>3
    <3>4. CASE pg # page
      <4>1. IsComing(SearchOf(u)) /\ SearchOf(u).from = FirstOf(pg)
        BY <1>5, <3>4
      <4>2. \A r \in requests : r.kind # "search"
        BY <3>1, NothingLoading DEF SearchInv
      <4>3. results.of = SearchOf(u)
        BY <4>1, <4>2 DEF IsComing
      <4> QED
        BY <1>5, <3>2, <4>1, <4>3
    <3> QED
      BY <3>3, <3>4
  <2> QED
    BY <1>3, <2>1, <2>2 DEF SearchInv
<1> QED
  BY <1>4, <1>5 DEF GoesTo

\* A page other than that of the form is turned to without a search only when
\* its results are coming.
LEMMA NothingKeeps ==
  ASSUME SearchInv, NEW p, GoodParams(p), NEW s, NEW pg \in Nat \ {0}, s.from = FirstOf(pg),
         params' = p, page' = pg, skipped' = (skipped \/ ~IsComing(s)),
         UNCHANGED <<url, visited, leftParams, requests, searching, pages, results>>
  PROVE  SearchInv'
<1>1. AddressInv' /\ FormInv' /\ ResultInv' /\ Loading(requests', searching')
  BY DEF SearchInv, AddressInv, FormInv, GoodParams, ResultInv, Received, Loading
<1>2. AgreeInv'
  <2> SUFFICES ASSUME searching' = 0, ~skipped', pages' # -1,
                      IsResult(results'), PageOf(results'.of) # {}
               PROVE  FirstOf(page') = results'.of.from /\ pages' = PagesOf(results'.of)
    BY DEF AgreeInv
  <2>1. searching = 0 /\ ~skipped /\ IsComing(s)
    OBVIOUS
  <2>2. pages = PagesOf(results.of)
    BY <2>1 DEF SearchInv, AgreeInv
  <2>3. \A r \in requests : r.kind # "search"
    BY <2>1, NothingLoading DEF SearchInv
  <2>4. results.of = s
    BY <2>1, <2>3 DEF IsComing
  <2> QED
    BY <2>2, <2>4
<1> QED
  BY <1>1, <1>2 DEF SearchInv

\* A search: again, at a new address, or none.
LEMMA TriggersKeeps ==
  ASSUME SearchInv, NEW p, GoodParams(p), NEW list, NEW pg \in Nat \ {0},
         p.from = FirstOf(pg), Triggers(p, list, pg), UNCHANGED <<pages, results>>
  PROVE  SearchInv'
<1> DEFINE asked == [p EXCEPT !.facets = FacetsOf(list, @)]
           s == SearchOf(asked)
           u == SearchAddress(asked)
<1>1. GoodParams(asked) /\ asked.from = p.from
  BY DEF GoodParams
<1> HIDE DEF asked
<1>0. FirstOf(pg) # 0
  BY FirstOfPage
<1>2. /\ GoodAddress(u) /\ u.path = "search" /\ u.from = p.from
  BY <1>1 DEF GoodAddress, GoodParams, SearchAddress
<1>3. SearchOf(u).from = FirstOf(pg) /\ GoodSearch(s) /\ s.from = FirstOf(pg)
  BY <1>0, <1>1, <1>2 DEF SearchOf, GoodSearch, GoodParams
<1> HIDE DEF s
<1>4. CASE SendsAgain(p, s) /\ page' = pg /\ UNCHANGED <<url, visited, leftParams>>
  <2>0. params' = ParamsOf(p) /\ Sends(s)
    BY <1>4 DEF SendsAgain
  <2>1. /\ Loading(requests', searching') /\ searching' # 0
        /\ \A r \in requests' : r \in requests \/ r.kind = "search"
    BY <1>3, <2>0, SendsIs
  <2>2. AddressInv' /\ FormInv'
    BY <1>4, <2>0 DEF SearchInv, AddressInv, FormInv, GoodParams, ParamsOf
  <2>3. ResultInv' /\ AgreeInv'
    BY <2>1 DEF SearchInv, ResultInv, AgreeInv, Received
  <2> QED
    BY <2>1, <2>2, <2>3 DEF SearchInv
<1>5. CASE GoesTo(u, FALSE, p, list, ToSet(list), pg)
  <2> HIDE DEF u
  <2>1. DOMAIN p = {"q", "facets", "from", "extra"} /\ p.q \in Queries
    BY DEF GoodParams
  <2> QED
    BY <1>2, <1>3, <1>5, <2>1, GoesToKeeps
<1>6. CASE SendsNothing(p, s) /\ page' = pg /\ UNCHANGED <<url, visited, leftParams>>
  BY <1>3, <1>6, NothingKeeps DEF SendsNothing
<1> QED
  BY <1>4, <1>5, <1>6 DEF Triggers, s, asked

\* What users do.
LEMMA SearchingKeeps ==
  ASSUME SearchInv,
         \/ \E q \in Queries : SearchFor(q)
         \/ ResetSearch
         \/ \E f \in Facets : AddFacet(f) \/ RemoveFacet(f)
         \/ \E p \in 1 .. pages : TurnTo(p)
  PROVE  SearchInv'
<1>1. FirstOf(1) = 1 /\ 1 \in Nat \ {0}
  BY PageAssumption DEF FirstOf
<1>2. \A k \in Nat \ {0} : Aligned(FirstOf(k))
  BY DEF Aligned
<1>3. DOMAIN params = {"q", "facets", "from", "extra"} /\ params.q \in Queries
  BY DEF SearchInv, FormInv
<1>4. UNCHANGED <<pages, results>>
  BY DEF SearchFor, ResetSearch, AddFacet, RemoveFacet, TurnTo, Click
<1>5. \E p, list, pg : /\ GoodParams(p) /\ pg \in Nat \ {0} /\ p.from = FirstOf(pg)
                       /\ Triggers(p, list, pg)
  <2>1. CASE \E q \in Queries : SearchFor(q)
    <3>1. PICK q \in Queries : SearchFor(q)
      BY <2>1
    <3> DEFINE p == [params EXCEPT !.q = q, !.from = 1]
    <3>2. GoodParams(p) /\ p.from = FirstOf(1)
      BY <1>1, <1>2, <1>3 DEF GoodParams
    <3>3. Triggers(p, current, 1)
      BY <3>1 DEF SearchFor
    <3> QED
      BY <1>1, <3>2, <3>3
  <2>2. CASE ResetSearch
    <3> DEFINE p == [q |-> AnyQuery, facets |-> {}, from |-> 1, extra |-> "sorted"]
    <3>1. GoodParams(p) /\ p.from = FirstOf(1)
      BY <1>1, <1>2, QueryAssumption DEF GoodParams
    <3>2. Triggers(p, <<>>, 1)
      BY <2>2 DEF ResetSearch
    <3> QED
      BY <1>1, <3>1, <3>2
  <2>3. CASE \E f \in Facets : AddFacet(f) \/ RemoveFacet(f)
    <3> DEFINE p == [params EXCEPT !.from = 1]
    <3>1. GoodParams(p) /\ p.from = FirstOf(1)
      BY <1>1, <1>2, <1>3 DEF GoodParams
    <3>2. \E list : Triggers(p, list, 1)
      BY <2>3 DEF AddFacet, RemoveFacet
    <3> QED
      BY <1>1, <3>1, <3>2
  <2>4. CASE \E k \in 1 .. pages : TurnTo(k)
    <3>1. PICK k \in 1 .. pages : TurnTo(k)
      BY <2>4
    <3> DEFINE p == [params EXCEPT !.from = FirstOf(k)]
    <3>2. k \in Nat \ {0}
      OBVIOUS
    <3>3. GoodParams(p) /\ p.from = FirstOf(k)
      BY <1>2, <1>3, <3>2 DEF GoodParams
    <3>4. Triggers(p, current, k)
      BY <3>1 DEF TurnTo
    <3> QED
      BY <3>2, <3>3, <3>4
  <2> QED
    BY <2>1, <2>2, <2>3, <2>4
<1> QED
  BY <1>4, <1>5, TriggersKeeps

LEMMA StayKeeps ==
  ASSUME SearchInv, NEW u, GoodAddress(u), NEW asText, Stay(u, asText), UNCHANGED <<pages, results>>
  PROVE  SearchInv'
  BY GoesToKeeps DEF Stay, SearchInv, FormInv

LEMMA MovingKeeps ==
  ASSUME SearchInv, OpenRecord \/ CloseRecord \/ Restored \/ \E u \in visited : GoTo(u)
  PROVE  SearchInv'
<1>1. CASE OpenRecord
  <2>1. GoodAddress(Elsewhere("metadata"))
    BY QueryAssumption DEF GoodAddress, Elsewhere
  <2> QED
    BY <1>1, <2>1, StayKeeps DEF OpenRecord, Click
<1>2. CASE CloseRecord
  <2>1. GoodAddress(Elsewhere(origin))
    BY QueryAssumption DEF GoodAddress, Elsewhere
  <2>2. GoodAddress(leftParams)
    BY DEF SearchInv, AddressInv
  <2>3. UNCHANGED <<pages, results>>
    BY <1>2 DEF CloseRecord, Click
  <2>4. Stay(leftParams, text.left) \/ Stay(Elsewhere(origin), FALSE)
    BY <1>2 DEF CloseRecord
  <2> QED
    BY <2>1, <2>2, <2>3, <2>4, StayKeeps
<1>3. CASE Restored
  BY <1>3 DEF Restored, formVars, resultVars, sessionVars, historyVars,
              SearchInv, AddressInv, FormInv, ResultInv, AgreeInv, Received
<1>4. CASE \E u \in visited : GoTo(u)
  BY <1>4, StayKeeps DEF GoTo, Click, SearchInv, AddressInv
<1> QED
  BY <1>1, <1>2, <1>3, <1>4

\* The results stay those of the same search.
LEMMA CheckedKeeps ==
  ASSUME SearchInv, UNCHANGED <<params, page, pages, url, leftParams, visited, searching, skipped>>,
         Loading(requests', searching'),
         \/ results' = results
         \/ \E checked : results' = [results EXCEPT !.checked = checked],
         Received
  PROVE  SearchInv'
<1>1. AddressInv' /\ FormInv'
  BY DEF SearchInv, AddressInv, FormInv
<1>2. IsResult(results') /\ results'.of = results.of
  BY DEF Received, IsResult
<1>3. ResultInv'
  BY <1>2 DEF ResultInv, Received
<1>4. AgreeInv'
  BY <1>2 DEF SearchInv, AgreeInv, Received
<1> QED
  BY <1>1, <1>3, <1>4 DEF SearchInv

LEMMA CheckingKeeps ==
  ASSUME SearchInv,
         \/ \E r \in Shown : Select(r)
         \/ \E on \in BOOLEAN : SelectPage(on)
         \/ SelectAll \/ SelectNone
  PROVE  SearchInv'
<1>1. results # None
  BY DEF Select, SelectPage, Check, SelectAll, SelectNone, SelectionClick
<1>2. Received
  BY <1>1 DEF SearchInv, ResultInv
<1>3. UNCHANGED <<params, page, pages, url, leftParams, visited, searching, skipped>>
  BY DEF Select, SelectPage, Check, SelectAll, SelectNone, SelectionClick, formVars, addressVars
<1>4. \/ results' = results
      \/ \E checked : results' = [results EXCEPT !.checked = checked]
  BY DEF Select, SelectPage, Check, SelectAll, SelectNone, SelectionClick, Click
<1>5. \E kind \in Kinds \ {"search"} : \E ids : Ask(kind, ids)
  BY DEF Select, SelectPage, Check, SelectAll, SelectNone, Kinds
<1>6. Loading(requests', searching')
  <2>1. PICK kind \in Kinds \ {"search"} : \E idset : Ask(kind, idset)
    BY <1>5
  <2>0. PICK ids : Ask(kind, ids)
    BY <2>1
  <2> DEFINE q == [Blank(kind) EXCEPT !.ids = ids]
  <2>2. GoodRequest(q) /\ q.kind # "search"
    BY DEF GoodRequest, Blank, Names
  <2>3. requests' = With(requests, q)
    BY <2>0 DEF Ask
  <2> HIDE DEF q
  <2> QED
    BY <1>3, <2>2, <2>3, LoadingWith DEF SearchInv
<1> QED
  BY <1>2, <1>3, <1>4, <1>6, CheckedKeeps

\* What the server does, and what other windows do.
LEMMA ServerKeeps ==
  ASSUME SearchInv, OtherSearch \/ \E r \in requests : Handle(r) \/ Fail(r)
  PROVE  SearchInv'
<1>1. UNCHANGED <<params, page, pages, results, url, leftParams, visited, searching, skipped>>
  BY DEF OtherSearch, Handle, Fail, formVars, resultVars, addressVars, historyVars
<1>2. AddressInv' /\ FormInv' /\ AgreeInv' /\ Received' = Received
  BY <1>1 DEF SearchInv, AddressInv, FormInv, AgreeInv, Received
<1>3. /\ Loading(requests', searching')
      /\ \A q \in requests' : q.kind # "search" => \E r \in requests : r.kind # "search"
  <2>1. CASE OtherSearch
    BY <1>1, <2>1 DEF SearchInv, OtherSearch
  <2>2. CASE \E r \in requests : Fail(r)
    <3>1. PICK r \in requests : requests' = requests \ {r}
      BY <2>2 DEF Fail
    <3> QED
      BY <1>1, <3>1, LoadingWithout DEF SearchInv
  <2>3. CASE \E r \in requests : Handle(r)
    <3>1. PICK r \in requests : \E a : Answered(r, a)
      BY <2>3 DEF Handle, HandleSearch, HandleSelection, SelectAllFails
    <3>0. PICK answer : Answered(r, answer)
      BY <3>1
    <3> DEFINE q == [r EXCEPT !.stage = "handled", !.answer = answer]
    <3>2. /\ GoodRequest(r) /\ Loading(requests \ {r}, searching)
          /\ r.kind = "search" => Loading(requests \ {r}, searching - 1)
      BY LoadingWithout DEF SearchInv
    <3>3. GoodRequest(q) /\ q.kind = r.kind
      BY <3>2 DEF GoodRequest, Names
    <3>4. requests' = With(requests \ {r}, q)
      BY <3>0 DEF Answered
    <3> HIDE DEF q
    <3>5. \A x \in requests' : x \in requests \ {r} \/ x.kind = r.kind
      BY <3>2, <3>3, <3>4, LoadingWith
    <3>6. CASE r.kind = "search"
      <4>1. Loading(requests', searching - 1 + 1)
        BY <3>2, <3>3, <3>4, <3>6, LoadingWith
      <4>2. searching - 1 + 1 = searching
        BY DEF SearchInv, Loading
      <4> QED
        BY <1>1, <3>5, <3>6, <4>1, <4>2
    <3>7. CASE r.kind # "search"
      BY <1>1, <3>2, <3>3, <3>4, <3>5, <3>7, LoadingWith
    <3> QED
      BY <3>6, <3>7
  <2> QED
    BY <2>1, <2>2, <2>3
<1>4. ResultInv'
  BY <1>1, <1>2, <1>3 DEF SearchInv, ResultInv
<1> QED
  BY <1>2, <1>3, <1>4 DEF SearchInv

\* The results of a search arrive: the paginator turns to their page.
LEMMA ReceiveKeeps ==
  ASSUME SearchInv, NEW r \in requests, Receive(r)
  PROVE  SearchInv'
<1>1. /\ requests' = requests \ {r}
      /\ UNCHANGED <<params, url, leftParams, visited, skipped>>
  BY DEF Receive, addressVars
<1>2. /\ GoodRequest(r) /\ Loading(requests \ {r}, searching)
      /\ r.kind = "search" => Loading(requests \ {r}, searching - 1)
  BY LoadingWithout DEF SearchInv
<1>3. CASE ReceiveSelection(r)
  <2>1. Received
    BY <1>3 DEF ReceiveSelection, SearchInv, ResultInv
  <2>2. UNCHANGED <<page, pages, searching>>
    BY <1>3 DEF ReceiveSelection
  <2>3. \/ results' = results
        \/ \E checked : results' = [results EXCEPT !.checked = checked]
    BY <1>3 DEF ReceiveSelection
  <2> QED
    BY <1>1, <1>2, <2>1, <2>2, <2>3, CheckedKeeps
<1>4. CASE ReceiveSearch(r)
  <2> DEFINE s == r.search
  <2>1. /\ GoodSearch(s) /\ searching' = searching - 1
        /\ results' = [of |-> s, checked |-> r.answer]
        /\ Loading(requests', searching')
    BY <1>1, <1>2, <1>4 DEF ReceiveSearch, GoodRequest
  <2>2. IsResult(results') /\ results'.of = s
    BY <2>1 DEF IsResult
  <2>3. AddressInv'
    BY <1>1 DEF SearchInv, AddressInv
  <2>4. CASE PageOf(s) = {}
    <3>1. UNCHANGED <<page, pages>>
      BY <1>4, <2>4 DEF ReceiveSearch
    <3>2. FormInv' /\ ResultInv' /\ AgreeInv'
      BY <1>1, <2>2, <2>4, <3>1 DEF SearchInv, FormInv, ResultInv, AgreeInv, Received
    <3> QED
      BY <2>1, <2>3, <3>2 DEF SearchInv
  <2>5. CASE PageOf(s) # {}
    <3>1. page' = PageAfter(s) /\ pages' = PagesOf(s)
      BY <1>4, <2>5 DEF ReceiveSearch
    <3>2. PICK k \in Nat \ {0} : s.from = FirstOf(k)
      BY <2>1 DEF GoodSearch, Aligned
    <3>3. PageFrom(s.from) = k
      BY <3>2, FirstOfPage
    <3>4. page' \in Nat \ {0} /\ FirstOf(page') = s.from
      BY <3>1, <3>2, <3>3 DEF PageAfter, SearchInv, FormInv
    <3>5. PagesOf(s) # -1
      <4>1. IsFiniteSet(Matches(s))
        <5>1. Matches(s) \subseteq Records
          BY <2>1, QueryAssumption DEF Matches, GoodSearch
        <5> QED
          BY <5>1, RecordAssumption, FS_Subset
      <4>2. Cardinality(Matches(s)) \in Nat
        BY <4>1, FS_CardinalityType
      <4> DEFINE n == Cardinality(Matches(s)) + PageSize - 1
      <4>3. n \in Nat /\ PageSize \in Nat \ {0}
        BY <4>2, PageAssumption
      <4>4. PagesOf(s) = n \div PageSize
        BY DEF PagesOf
      <4> HIDE DEF n
      <4> QED
        BY <4>3, <4>4
    <3>6. FormInv' /\ ResultInv' /\ AgreeInv'
      BY <1>1, <2>2, <3>1, <3>4, <3>5 DEF SearchInv, FormInv, ResultInv, AgreeInv, Received
    <3> QED
      BY <2>1, <2>3, <3>6 DEF SearchInv
  <2> QED
    BY <2>4, <2>5
<1> QED
  BY <1>3, <1>4 DEF Receive

-----------------------------------------------------------------------------
LEMMA SearchNext == SearchInv /\ [Next]_vars => SearchInv'
<1> SUFFICES ASSUME SearchInv, [Next]_vars PROVE SearchInv'
  OBVIOUS
<1>1. CASE UNCHANGED vars
  BY <1>1 DEF vars, formVars, resultVars, addressVars, sessionVars, historyVars,
              SearchInv, AddressInv, FormInv, ResultInv, AgreeInv, Received, Loading
<1>2. CASE Next
  <2>1. CASE \/ \E q \in Queries : SearchFor(q)
             \/ ResetSearch
             \/ \E f \in Facets : AddFacet(f) \/ RemoveFacet(f)
             \/ \E p \in 1 .. pages : TurnTo(p)
    BY <2>1, SearchingKeeps
  <2>2. CASE OpenRecord \/ CloseRecord \/ Restored \/ \E u \in visited : GoTo(u)
    BY <2>2, MovingKeeps
  <2>3. CASE \/ \E r \in Shown : Select(r)
             \/ \E on \in BOOLEAN : SelectPage(on)
             \/ SelectAll \/ SelectNone
    BY <2>3, CheckingKeeps
  <2>4. CASE OtherSearch \/ \E r \in requests : Handle(r) \/ Fail(r)
    BY <2>4, ServerKeeps
  <2>5. CASE \E r \in requests : Receive(r)
    BY <2>5, ReceiveKeeps
  <2> QED
    BY <1>2, <2>1, <2>2, <2>3, <2>4, <2>5 DEF Next
<1> QED
  BY <1>1, <1>2

\* Whatever the order in which searches are answered, and whichever requests are
\* lost, the page number and the number of pages are those of the records shown
\* as soon as nothing is loading (SearchFormDirective.js, PaginationDirective.js).
THEOREM PagesBelongToResults == SearchSpec => []PaginationAgrees
<1>1. SearchSpec => []SearchInv
  BY SearchInit, SearchNext, PTL DEF SearchSpec
<1> QED
  BY <1>1, SearchImplies, PTL

-----------------------------------------------------------------------------
(* Types.                                                                   *)

LEMMA MatchesAre ==
  ASSUME NEW s \in Search
  PROVE  /\ Matches(s) \subseteq Records /\ IsFiniteSet(Matches(s))
         /\ PageOf(s) \subseteq Matches(s) /\ PagesOf(s) \in Int
<1>1. Matches(s) \subseteq Records
  BY QueryAssumption DEF Matches, Search
<1>2. IsFiniteSet(Matches(s))
  BY <1>1, RecordAssumption, FS_Subset
<1> DEFINE n == Cardinality(Matches(s)) + PageSize - 1
<1>3. n \in Nat /\ PageSize \in Nat \ {0}
  BY <1>2, FS_CardinalityType, PageAssumption
<1>4. PagesOf(s) = n \div PageSize
  BY DEF PagesOf
<1> HIDE DEF n
<1>5. PagesOf(s) \in Int
  BY <1>3, <1>4
<1> QED
  BY <1>1, <1>2, <1>5 DEF PageOf

LEMMA ToSetIs ==
  ASSUME NEW S, NEW list \in Seq(S)
  PROVE  ToSet(list) \subseteq S
  BY DEF ToSet

\* Two numbers of a set of numbers have different places in it.
LEMMA PositionsDiffer ==
  ASSUME NEW M \in SUBSET Int, IsFiniteSet(M), NEW x \in M, NEW y \in M, x < y
  PROVE  Position(x, M) < Position(y, M)
<1> DEFINE X == {z \in M : z <= x}
           Y == {z \in M : z <= y}
<1>0. x \in Int /\ y \in Int /\ \A z \in M : z \in Int
  OBVIOUS
<1>1. X \subseteq Y /\ y \in Y /\ y \notin X
  <2>1. \A z \in M : z <= x => z <= y
    BY <1>0
  <2>2. y <= y /\ ~(y <= x)
    BY <1>0
  <2> QED
    BY <2>1, <2>2
<1>2. Y \subseteq M
  OBVIOUS
<1>3. Position(x, M) = Cardinality(X) /\ Position(y, M) = Cardinality(Y)
  BY DEF Position
<1> HIDE DEF X, Y
<1>4. IsFiniteSet(Y) /\ Cardinality(Y) \in Nat
  BY <1>2, FS_Subset, FS_CardinalityType
<1>5. IsFiniteSet(X) /\ Cardinality(X) \in Nat /\ Cardinality(X) <= Cardinality(Y)
  BY <1>1, <1>4, FS_Subset, FS_CardinalityType
<1>6. Cardinality(X) # Cardinality(Y)
  BY <1>1, <1>4, FS_Subset
<1> QED
  BY <1>3, <1>4, <1>5, <1>6

\* Every place up to the size of the set is taken.
LEMMA PlacesTaken ==
  ASSUME NEW M \in SUBSET Int, IsFiniteSet(M), NEW k \in 1 .. Cardinality(M)
  PROVE  \E i \in M : Position(i, M) = k
<1> DEFINE c == Cardinality(M)
<1>1. c \in Nat
  BY FS_CardinalityType
<1>2. \A i \in M : Position(i, M) \in 1 .. c
  <2> SUFFICES ASSUME NEW i \in M PROVE Position(i, M) \in 1 .. c
    OBVIOUS
  <2>1. Position(i, M) \in Nat /\ Position(i, M) <= c
    BY PositionIs
  <2>2. Position(i, M) # 0
    <3>1. i \in {x \in M : x <= i} /\ {x \in M : x <= i} \subseteq M
      OBVIOUS
    <3>2. IsFiniteSet({x \in M : x <= i})
      BY <3>1, FS_Subset
    <3> QED
      BY <3>1, <3>2, FS_EmptySet DEF Position
  <2> QED
    BY <1>1, <2>1, <2>2
<1> SUFFICES ASSUME \A i \in M : Position(i, M) # k PROVE FALSE
  OBVIOUS
<1> DEFINE T == (1 .. c) \ {k}
           f == [i \in M |-> Position(i, M)]
<1>3. IsFiniteSet(T) /\ Cardinality(T) = c - 1
  <2>1. IsFiniteSet(1 .. c) /\ Cardinality(1 .. c) = c
    BY <1>1, FS_Interval
  <2> QED
    BY <1>1, <2>1, FS_RemoveElement
<1>4. f \in [M -> T] /\ \A i \in M : f[i] = Position(i, M)
  BY <1>2
<1> HIDE DEF T, f
<1>5. PICK x \in M, y \in M : x # y /\ f[x] = f[y]
  <2>1. Cardinality(T) < Cardinality(M)
    BY <1>1, <1>3
  <2>2. IsFiniteSet(T) /\ f \in [M -> T]
    BY <1>3, <1>4
  <2>3. \E x, y \in M : x # y /\ f[x] = f[y]
    BY <2>1, <2>2, FS_PigeonHole
  <2> QED
    BY <2>3
<1>6. Position(x, M) = Position(y, M) /\ Position(x, M) \in Nat
  BY <1>2, <1>4, <1>5
<1>7. x < y \/ y < x
  BY <1>5
<1> QED
  BY <1>6, <1>7, PositionsDiffer

\* Facets are kept in their order, none but those there were, and all of them if
\* none has to go.
LEMMA KeptIs ==
  ASSUME NEW list \in Seq(Facets), NEW facets
  PROVE  Kept(list, facets) \in Seq(Facets)
<1> DEFINE at == Looked(list, facets)
           kept == {i \in DOMAIN list : list[i] \in facets \/ ~at[i]}
           n == Cardinality(kept)
           At(k) == CHOOSE i \in kept : Position(i, kept) = k
<1>1. Kept(list, facets) = [k \in 1 .. n |-> list[At(k)]]
  BY DEF Kept
<1>2. kept \subseteq 1 .. Len(list) /\ DOMAIN list = 1 .. Len(list) /\ Len(list) \in Nat
  OBVIOUS
<1> HIDE DEF kept, at
<1>3. IsFiniteSet(kept) /\ n \in Nat /\ kept \in SUBSET Int
  <2>1. IsFiniteSet(1 .. Len(list))
    BY <1>2, FS_Interval
  <2>2. IsFiniteSet(kept)
    BY <1>2, <2>1, FS_Subset
  <2> QED
    BY <1>2, <2>2, FS_CardinalityType
<1>4. \A k \in 1 .. n : list[At(k)] \in Facets
  <2> SUFFICES ASSUME NEW k \in 1 .. n PROVE list[At(k)] \in Facets
    OBVIOUS
  <2>1. At(k) \in kept
    BY <1>3, PlacesTaken
  <2>2. \A i \in kept : list[i] \in Facets
    BY <1>2
  <2> HIDE DEF At
  <2> QED
    BY <2>1, <2>2
<1> HIDE DEF At
<1> DEFINE g == [k \in 1 .. n |-> list[At(k)]]
<1>5. g \in [1 .. n -> Facets]
  BY <1>4
<1> HIDE DEF g, n
<1>6. g \in Seq(Facets)
  BY <1>3, <1>5
<1> QED
  BY <1>1, <1>6 DEF g, n, At

LEMMA NoneKept == \A facets : Kept(<<>>, facets) = <<>>
<1> SUFFICES ASSUME NEW facets PROVE Kept(<<>>, facets) = <<>>
  OBVIOUS
<1> DEFINE list == <<>>
           at == Looked(list, facets)
           kept == {i \in DOMAIN list : list[i] \in facets \/ ~at[i]}
           At(k) == CHOOSE i \in kept : Position(i, kept) = k
<1>1. Kept(list, facets) = [k \in 1 .. Cardinality(kept) |-> list[At(k)]]
  BY DEF Kept
<1> HIDE DEF at
<1>2. kept = {}
  OBVIOUS
<1>3. Cardinality(kept) = 0
  BY <1>2, FS_EmptySet
<1> HIDE DEF kept
<1>4. [k \in 1 .. Cardinality(kept) |-> list[At(k)]] = [k \in 1 .. 0 |-> list[At(k)]]
  BY <1>3
<1>5. \A h : [k \in 1 .. 0 |-> h[At(k)]] = <<>>
  OBVIOUS
<1> QED
  BY <1>1, <1>4, <1>5

LEMMA AllKept ==
  ASSUME NEW list \in Seq(Facets)
  PROVE  Kept(list, ToSet(list)) = list
<1> DEFINE at == Looked(list, ToSet(list))
           kept == {i \in DOMAIN list : list[i] \in ToSet(list) \/ ~at[i]}
           At(k) == CHOOSE i \in kept : Position(i, kept) = k
           n == Len(list)
<1>1. Kept(list, ToSet(list)) = [k \in 1 .. Cardinality(kept) |-> list[At(k)]]
  BY DEF Kept
<1>2. n \in Nat /\ DOMAIN list = 1 .. n
  OBVIOUS
<1> HIDE DEF at, n
<1>3. kept = 1 .. n
  BY <1>2 DEF ToSet
<1> HIDE DEF kept
<1>4. IsFiniteSet(kept) /\ Cardinality(kept) = n
  BY <1>2, <1>3, FS_Interval
<1>5. \A i \in kept : Position(i, kept) = i
  <2> SUFFICES ASSUME NEW i \in kept PROVE Position(i, kept) = i
    OBVIOUS
  <2>1. {x \in kept : x <= i} = 1 .. i
    BY <1>2, <1>3
  <2>2. i \in Nat \ {0}
    BY <1>2, <1>3
  <2>3. Cardinality(1 .. i) = i
    BY <2>2, FS_Interval
  <2> QED
    BY <2>1, <2>3 DEF Position
<1>6. \A k \in 1 .. n : At(k) = k
  BY <1>3, <1>5
<1> HIDE DEF At
<1>7. [k \in 1 .. Cardinality(kept) |-> list[At(k)]] = [k \in 1 .. n |-> list[k]]
  BY <1>4, <1>6
<1>8. [k \in 1 .. n |-> list[k]] = list
  BY <1>2
<1> QED
  BY <1>1, <1>7, <1>8 DEF At

\* What splice leaves.
LEMMA RemoveAtIs ==
  ASSUME NEW list \in Seq(Facets), NEW i \in DOMAIN list
  PROVE  RemoveAt(list, i) \in Seq(Facets)
<1>1. i \in 1 .. Len(list) /\ Len(list) \in Nat
  OBVIOUS
<1> DEFINE a == SubSeq(list, 1, i - 1)
           b == SubSeq(list, i + 1, Len(list))
<1>2. a \in Seq(Facets)
  BY <1>1
<1>3. b \in Seq(Facets)
  BY <1>1
<1> HIDE DEF a, b
<1>4. a \o b \in Seq(Facets)
  BY <1>2, <1>3
<1> QED
  BY <1>4 DEF RemoveAt, a, b

Sent(r) == IF r.kind = "search" THEN r.search \in Search ELSE results \in Results
TypeInv == FormTypeOK /\ \A r \in requests : Sent(r)

LEMMA RequestIs ==
  ASSUME NEW r \in Request
  PROVE  /\ DOMAIN r = Names
         /\ r.kind \in Kinds /\ r.search \in Search \cup {None} /\ r.ids \subseteq Records
         /\ r.stage \in {"sent", "handled", "failed"} /\ r.answer \subseteq Records
  BY DEF Request, Names

\* One more request of the right type.
LEMMA TypedWith ==
  ASSUME NEW R \in SUBSET Request, IsFiniteSet(R), NEW r \in Request
  PROVE  /\ With(R, r) \subseteq Request
         /\ \A x \in With(R, r) : x \in R \/ Alike(x, r)
<1>1. DOMAIN r = Names
  BY RequestIs
<1>2. PICK n \in Nat : With(R, r) = R \cup {[r EXCEPT !.n = n]}
  BY <1>1, WithIsNumbered
<1>3. [r EXCEPT !.n = n] \in Request
  BY DEF Request
<1>4. Alike([r EXCEPT !.n = n], r)
  BY <1>1 DEF Alike, Names
<1> QED
  BY <1>2, <1>3, <1>4

LEMMA AlikeIs ==
  ASSUME NEW x, NEW r, Alike(x, r)
  PROVE  /\ x.kind = r.kind /\ x.search = r.search /\ x.ids = r.ids
         /\ x.stage = r.stage /\ x.answer = r.answer
  BY DEF Alike, Names

LEMMA SearchOfIs ==
  ASSUME NEW u \in Address \cup Params
  PROVE  SearchOf(u) \in Search /\ u.facets \subseteq Facets /\ u.q \in Queries
  BY DEF Address, Params, Search, SearchOf

LEMMA ParamsOfIs ==
  ASSUME NEW s \in Search \cup Params
  PROVE  ParamsOf(s) \in Params
  BY DEF Search, Params, ParamsOf, Extras

LEMMA FacetsOfIs ==
  ASSUME NEW list \in Seq(Facets), NEW plain \in SUBSET Facets
  PROVE  FacetsOf(list, plain) \subseteq Facets /\ ToSet(list) \subseteq Facets
  BY ToSetIs DEF FacetsOf

LEMMA SearchAddressIs ==
  ASSUME NEW p \in Params
  PROVE  SearchAddress(p) \in Address
  BY DEF Params, SearchAddress, Address, Paths

LEMMA ElsewhereIs ==
  ASSUME NEW path \in Paths
  PROVE  Elsewhere(path) \in Address
  BY QueryAssumption DEF Elsewhere, Address, Extras

LEMMA TypeInit == Init => TypeInv
<1> SUFFICES ASSUME Init PROVE TypeInv
  OBVIOUS
<1>1. params \in Params /\ current \in Seq(Facets) /\ facetsParams \subseteq Facets
  BY QueryAssumption DEF Init, Params, Extras
<1>2. url \in Address /\ leftParams \in Address /\ visited \subseteq Address
  <2>1. leftParams \in Address
    BY <1>1, SearchAddressIs DEF Init
  <2>2. Elsewhere("home") \in Address
    BY ElsewhereIs DEF Paths
  <2>3. \A u \in Bookmarks : u \in Address
    BY QueryAssumption DEF Bookmarks, Elsewhere, SearchAddress, ParamsOf, Address, Paths, Extras
  <2> QED
    BY <2>1, <2>2, <2>3 DEF Init
<1>3. requests = {}
  BY DEF Init
<1>4. FormTypeOK
  <2>1. page \in Nat \ {0} /\ pages \in Int /\ searching \in Nat /\ count \in Nat
    BY DEF Init
  <2>2. clicks \in 0 .. MaxClicks /\ failures \in 0 .. MaxFailures
    BY LimitAssumption DEF Init
  <2>3. /\ results = None /\ left = None /\ latest = None /\ lastRequest = None
        /\ restoring = FALSE /\ skipped = FALSE /\ orderly = TRUE /\ selection = {}
        /\ cut = FALSE
    BY DEF Init
  <2>4. text \in [now : BOOLEAN, seen : BOOLEAN, left : BOOLEAN] /\ origin \in Paths \ {"metadata"}
    BY DEF Init, Paths
  <2> QED
    BY <1>1, <1>2, <1>3, <2>1, <2>2, <2>3, <2>4 DEF FormTypeOK
<1> QED
  BY <1>3, <1>4 DEF TypeInv

\* A search is sent.
LEMMA SendsTyped ==
  ASSUME TypeInv, IsFiniteSet(requests), NEW s \in Search, Sends(s),
         UNCHANGED results
  PROVE  /\ requests' \subseteq Request /\ latest' \in Search \cup {None}
         /\ \A x \in requests' : Sent(x)'
<1>1. PICK q : q = [Blank("search") EXCEPT !.search = s]
  OBVIOUS
<1>2. q \in Request /\ q.kind = "search" /\ q.search = s
  BY <1>1 DEF Request, Blank, Kinds
<1>3. requests' = With(requests, q) /\ latest' = s
  BY <1>1 DEF Sends
<1>4. requests \in SUBSET Request
  BY DEF TypeInv, FormTypeOK
<1>5. /\ With(requests, q) \subseteq Request
      /\ \A x \in With(requests, q) : x \in requests \/ Alike(x, q)
  BY <1>2, <1>4, TypedWith
<1>6. \A x \in requests' : Sent(x)'
  <2> SUFFICES ASSUME NEW x \in requests' PROVE Sent(x)'
    OBVIOUS
  <2>1. CASE x \in requests
    BY <2>1 DEF TypeInv, Sent
  <2>2. CASE Alike(x, q)
    BY <1>2, <2>2, AlikeIs DEF Sent
  <2> QED
    BY <1>3, <1>5, <2>1, <2>2
<1> QED
  BY <1>3, <1>5, <1>6

\* What a click leaves alone, apart from the address and the search.
Clicked ==
  /\ clicks' \in 0 .. MaxClicks /\ orderly' \in BOOLEAN /\ restoring' \in BOOLEAN
  /\ facetsParams' \subseteq Facets
  /\ UNCHANGED <<pages, results, count, sessionVars, failures, cut>>

LEMMA GoesToTyped ==
  ASSUME TypeInv, SearchInv, SearchInv', Clicked, NEW u \in Address, NEW asText \in BOOLEAN,
         NEW p \in Params, NEW list \in Seq(Facets), NEW asked, NEW pg \in Nat,
         GoesTo(u, asText, p, list, asked, pg)
  PROVE  TypeInv'
<1>1. FormTypeOK /\ IsFiniteSet(requests)
  BY DEF TypeInv, SearchInv, Loading
<1>2. /\ url' \in Address /\ left' \in Address \cup {None} /\ leftParams' \in Address
      /\ visited' \subseteq Address
      /\ text' \in [now : BOOLEAN, seen : BOOLEAN, left : BOOLEAN]
      /\ origin' \in Paths \ {"metadata"}
  <2>1. /\ url' \in Address /\ left' \in Address \cup {None} /\ leftParams' \in Address
        /\ visited' \subseteq Address
    BY <1>1 DEF GoesTo, LeftAfter, FormTypeOK
  <2>2. text' \in [now : BOOLEAN, seen : BOOLEAN, left : BOOLEAN]
    BY <1>1 DEF GoesTo, FormTypeOK
  <2>3. origin' \in Paths \ {"metadata"}
    BY <1>1 DEF GoesTo, FormTypeOK, Address
  <2> QED
    BY <2>1, <2>2, <2>3
<1>3. page' \in Nat \ {0} /\ searching' \in Nat
  BY DEF SearchInv, FormInv, Loading
<1> DEFINE kept == Kept(list, u.facets)
           plain == PlainFacets(u, asked)
           s == [SearchOf(u) EXCEPT !.facets = FacetsOf(kept, plain)]
<1>4. SearchOf(u) \in Search /\ u.facets \subseteq Facets
  BY SearchOfIs
<1>5. kept \in Seq(Facets)
  BY KeptIs
<1>6. plain \subseteq Facets
  BY <1>4 DEF PlainFacets
<1>7. /\ params' \in Params /\ current' \in Seq(Facets)
      /\ requests' \subseteq Request /\ latest' \in Search \cup {None}
      /\ skipped' \in BOOLEAN /\ \A x \in requests' : Sent(x)'
  <2>1. CASE /\ params' = ParamsOf([SearchOf(u) EXCEPT !.facets = plain])
             /\ current' = kept /\ Sends(s) /\ UNCHANGED skipped
    <3>1. FacetsOf(kept, plain) \subseteq Facets
      BY <1>5, <1>6, FacetsOfIs
    <3> HIDE DEF kept, plain
    <3>0. s \in Search /\ [SearchOf(u) EXCEPT !.facets = plain] \in Search
      BY <1>4, <1>6, <3>1 DEF Search
    <3>2. s \in Search /\ params' \in Params
      BY <2>1, <3>0, ParamsOfIs
    <3>3. results' = results
      BY DEF Clicked
    <3> HIDE DEF s
    <3>4. /\ requests' \subseteq Request /\ latest' \in Search \cup {None}
          /\ \A x \in requests' : Sent(x)'
      BY <1>1, <2>1, <3>2, <3>3, SendsTyped
    <3>5. skipped' \in BOOLEAN
      BY <1>1, <2>1 DEF FormTypeOK
    <3> QED
      BY <1>5, <2>1, <3>2, <3>4, <3>5
  <2>2. CASE /\ params' = p /\ current' = list
             /\ skipped' = (skipped \/ (u.path = "search" /\ ~IsComing(SearchOf(u))))
             /\ UNCHANGED <<requests, searching, latest>>
    <3>1. requests' \subseteq Request /\ latest' \in Search \cup {None}
      BY <1>1, <2>2 DEF FormTypeOK
    <3>2. skipped' \in BOOLEAN
      BY <2>2
    <3>3. \A x \in requests' : Sent(x)'
      BY <2>2 DEF TypeInv, Sent, Clicked
    <3> QED
      BY <2>2, <3>1, <3>2, <3>3
  <2> QED
    BY <2>1, <2>2 DEF GoesTo
<1>8. FormTypeOK'
  BY <1>1, <1>2, <1>3, <1>7 DEF FormTypeOK, Clicked, sessionVars
<1> QED
  BY <1>7, <1>8 DEF TypeInv

LEMMA TriggersTyped ==
  ASSUME TypeInv, SearchInv, SearchInv', NEW p \in Params, NEW list \in Seq(Facets),
         NEW pg \in Nat, Triggers(p, list, pg),
         clicks' \in 0 .. MaxClicks, orderly' \in BOOLEAN, restoring' \in BOOLEAN,
         UNCHANGED <<pages, results, count, sessionVars, failures, cut>>
  PROVE  TypeInv'
<1> DEFINE asked == [p EXCEPT !.facets = FacetsOf(list, @)]
           s == SearchOf(asked)
           u == SearchAddress(asked)
<1>1. p.facets \subseteq Facets
  BY DEF Params
<1>2. FacetsOf(list, p.facets) \subseteq Facets /\ ToSet(list) \subseteq Facets
  BY <1>1, FacetsOfIs
<1>3. asked \in Params
  BY <1>2 DEF Params
<1> HIDE DEF asked
<1>0. s \in Search /\ u \in Address
  BY <1>3, SearchOfIs, SearchAddressIs
<1>4. Clicked
  BY <1>2 DEF Triggers, Clicked
<1>5. FormTypeOK /\ IsFiniteSet(requests)
  BY DEF TypeInv, SearchInv, Loading
<1> HIDE DEF s, u
<1>6. page' \in Nat \ {0} /\ searching' \in Nat
  BY DEF SearchInv, FormInv, Loading
<1>7. CASE /\ SendsAgain(p, s) /\ current' = list
           /\ UNCHANGED <<url, visited, left, leftParams, origin>>
  <2>1. Sends(s) /\ params' = ParamsOf(p) /\ results' = results /\ UNCHANGED <<text, skipped>>
    BY <1>7 DEF SendsAgain
  <2>2. /\ requests' \subseteq Request /\ latest' \in Search \cup {None}
        /\ \A x \in requests' : Sent(x)'
    BY <1>0, <1>5, <2>1, SendsTyped
  <2>3. params' \in Params
    BY <2>1, ParamsOfIs
  <2>4. FormTypeOK'
    BY <1>4, <1>5, <1>6, <1>7, <2>1, <2>2, <2>3 DEF FormTypeOK, Clicked, sessionVars
  <2> QED
    BY <2>2, <2>4 DEF TypeInv
<1>8. CASE GoesTo(u, FALSE, p, list, ToSet(list), pg)
  BY <1>0, <1>4, <1>8, GoesToTyped
<1>9. CASE /\ SendsNothing(p, s) /\ current' = list
           /\ UNCHANGED <<url, visited, left, leftParams, origin>>
  <2>1. /\ params' = p /\ skipped' \in BOOLEAN /\ UNCHANGED <<requests, latest, results>>
        /\ text' \in [now : BOOLEAN, seen : BOOLEAN, left : BOOLEAN]
    BY <1>5, <1>9 DEF SendsNothing, FormTypeOK
  <2>2. FormTypeOK'
    BY <1>4, <1>5, <1>6, <1>9, <2>1 DEF FormTypeOK, Clicked, sessionVars
  <2>3. \A x \in requests' : Sent(x)'
    BY <2>1 DEF TypeInv, Sent
  <2> QED
    BY <2>2, <2>3 DEF TypeInv
<1> QED
  BY <1>7, <1>8, <1>9 DEF Triggers, asked, s, u

LEMMA ClickTyped ==
  ASSUME TypeInv, NEW name, Click(name)
  PROVE  /\ clicks' \in 0 .. MaxClicks
         /\ UNCHANGED <<pages, results, count, sessionVars, failures, cut>>
  BY LimitAssumption DEF TypeInv, FormTypeOK, Click

\* A search: some click, for the search p with the facets of the list.
Searching == \/ \E q \in Queries : SearchFor(q)
             \/ ResetSearch
             \/ \E f \in Facets : AddFacet(f) \/ RemoveFacet(f)
             \/ \E p \in 1 .. pages : TurnTo(p)

LEMMA SearchingIs ==
  ASSUME TypeInv, Searching
  PROVE  /\ \E name : Click(name)
         /\ Waits /\ UNCHANGED restoring
         /\ \E p \in Params, list \in Seq(Facets), pg \in Nat :
               p.from # 0 /\ Triggers(p, list, pg)
<1>1. params \in Params /\ current \in Seq(Facets) /\ pages \in Int
  BY DEF TypeInv, FormTypeOK
<1>2. \E name : Click(name)
  BY DEF Searching, SearchFor, ResetSearch, AddFacet, RemoveFacet, TurnTo
<1>3. Waits /\ UNCHANGED restoring
  BY DEF Searching, SearchFor, ResetSearch, AddFacet, RemoveFacet, TurnTo
<1>4. \E p \in Params, list \in Seq(Facets), pg \in Nat :
        p.from # 0 /\ Triggers(p, list, pg)
  <2>1. CASE \E q \in Queries : SearchFor(q)
    <3>1. PICK q \in Queries : SearchFor(q)
      BY <2>1
    <3>2. PICK p : p = [params EXCEPT !.q = q, !.from = 1]
      OBVIOUS
    <3>3. p \in Params /\ p.from # 0
      <4>1. [params EXCEPT !.q = q, !.from = 1] \in Params
        BY <1>1 DEF Params
      <4>2. p.from = 1
        BY <1>1, <3>2 DEF Params
      <4> QED
        BY <3>2, <4>1, <4>2
    <3>4. Triggers(p, current, 1)
      BY <3>1, <3>2 DEF SearchFor
    <3>5. 1 \in Nat
      OBVIOUS
    <3> QED
      BY <1>1, <3>3, <3>4, <3>5
  <2>2. CASE ResetSearch
    <3>1. PICK p : p = [q |-> AnyQuery, facets |-> {}, from |-> 1, extra |-> "sorted"]
      OBVIOUS
    <3>2. p \in Params /\ p.from # 0
      BY QueryAssumption, <3>1 DEF Params, Extras
    <3>3. <<>> \in Seq(Facets)
      OBVIOUS
    <3>4. Triggers(p, <<>>, 1)
      BY <2>2, <3>1 DEF ResetSearch
    <3> QED
      BY <3>2, <3>3, <3>4
  <2>3. CASE \E f \in Facets : AddFacet(f) \/ RemoveFacet(f)
    <3>1. PICK f \in Facets : AddFacet(f) \/ RemoveFacet(f)
      BY <2>3
    <3>0. PICK p : p = [params EXCEPT !.from = 1]
      OBVIOUS
    <3>2. p \in Params /\ p.from # 0
      BY <1>1, <3>0 DEF Params
    <3>3. CASE AddFacet(f)
      <4>1. Append(current, f) \in Seq(Facets)
        BY <1>1
      <4>2. Triggers(p, Append(current, f), 1)
        BY <3>0, <3>3 DEF AddFacet
      <4> QED
        BY <3>2, <4>1, <4>2
    <3>4. CASE RemoveFacet(f)
      <4>1. PICK i \in DOMAIN current : Triggers(p, RemoveAt(current, i), 1)
        BY <3>0, <3>4 DEF RemoveFacet
      <4>2. RemoveAt(current, i) \in Seq(Facets)
        BY <1>1, RemoveAtIs
      <4> QED
        BY <3>2, <4>1, <4>2
    <3> QED
      BY <3>1, <3>3, <3>4
  <2>4. CASE \E k \in 1 .. pages : TurnTo(k)
    <3>1. PICK k \in 1 .. pages : TurnTo(k)
      BY <2>4
    <3>2. k \in Nat \ {0}
      BY <1>1
    <3>3. FirstOf(k) \in Nat \ {0}
      BY <3>2, FirstOfPage
    <3>0. PICK p : p = [params EXCEPT !.from = FirstOf(k)]
      OBVIOUS
    <3>4. p \in Params /\ p.from # 0
      BY <1>1, <3>0, <3>3 DEF Params
    <3>5. Triggers(p, current, k)
      BY <3>0, <3>1 DEF TurnTo
    <3> QED
      BY <1>1, <3>2, <3>4, <3>5
  <2> QED
    BY <2>1, <2>2, <2>3, <2>4 DEF Searching
<1> QED
  BY <1>2, <1>3, <1>4

LEMMA SearchingTyped ==
  ASSUME TypeInv, SearchInv, SearchInv', Searching
  PROVE  TypeInv'
<1>1. PICK p \in Params, list \in Seq(Facets), pg \in Nat : Triggers(p, list, pg)
  BY SearchingIs
<1>2. clicks' \in 0 .. MaxClicks /\ UNCHANGED <<pages, results, count, sessionVars, failures, cut>>
  BY SearchingIs, ClickTyped
<1>3. orderly' \in BOOLEAN /\ restoring' \in BOOLEAN
  BY SearchingIs DEF Waits, TypeInv, FormTypeOK
<1> QED
  BY <1>1, <1>2, <1>3, TriggersTyped

LEMMA StayTyped ==
  ASSUME TypeInv, SearchInv, SearchInv', NEW u \in Address, NEW asText \in BOOLEAN,
         Stay(u, asText),
         clicks' \in 0 .. MaxClicks, orderly' \in BOOLEAN, restoring' \in BOOLEAN,
         UNCHANGED <<pages, results, count, sessionVars, failures, cut>>
  PROVE  TypeInv'
<1>1. params \in Params /\ current \in Seq(Facets) /\ page \in Nat
  BY DEF TypeInv, FormTypeOK
<1>2. Clicked
  BY DEF Stay, Clicked, TypeInv, FormTypeOK
<1> QED
  BY <1>1, <1>2, GoesToTyped DEF Stay

LEMMA MovingTyped ==
  ASSUME TypeInv, SearchInv, SearchInv',
         OpenRecord \/ CloseRecord \/ Restored \/ \E u \in visited : GoTo(u)
  PROVE  TypeInv'
<1>1. restoring \in BOOLEAN /\ leftParams \in Address /\ visited \subseteq Address
  BY DEF TypeInv, FormTypeOK
<1>2. CASE Restored
  <2>1. FormTypeOK'
    BY <1>2 DEF Restored, TypeInv, FormTypeOK, formVars, resultVars, sessionVars, historyVars
  <2>2. \A r \in requests' : Sent(r)'
    BY <1>2 DEF Restored, TypeInv, Sent, resultVars
  <2> QED
    BY <2>1, <2>2 DEF TypeInv
<1>3. ASSUME NEW u \in Address, NEW asText \in BOOLEAN, NEW name, Click(name),
             Stay(u, asText), orderly' \in BOOLEAN,
             restoring' \in BOOLEAN
      PROVE  TypeInv'
  <2>1. /\ clicks' \in 0 .. MaxClicks
        /\ UNCHANGED <<pages, results, count, sessionVars, failures, cut>>
    BY <1>3, ClickTyped
  <2> QED
    BY <1>3, <2>1, StayTyped
<1>4. CASE OpenRecord
  <2>1. Elsewhere("metadata") \in Address
    BY ElsewhereIs DEF Paths
  <2> QED
    BY <1>1, <1>3, <1>4, <2>1 DEF OpenRecord, Waits
<1>5. CASE CloseRecord
  <2>1. Elsewhere(origin) \in Address /\ text.left \in BOOLEAN
    BY ElsewhereIs DEF TypeInv, FormTypeOK
  <2>2. /\ Stay(leftParams, text.left) \/ Stay(Elsewhere(origin), FALSE)
        /\ restoring' \in BOOLEAN /\ orderly' \in BOOLEAN /\ Click("close")
    BY <1>1, <1>5 DEF CloseRecord, Waits
  <2> QED
    BY <1>1, <1>3, <2>1, <2>2
<1>6. CASE \E u \in visited : GoTo(u)
  <2>1. PICK u \in visited : GoTo(u)
    BY <1>6
  <2>2. Click("goto") /\ Stay(u, u.from # 0) /\ orderly' \in BOOLEAN /\ restoring' \in BOOLEAN
    BY <1>1, <2>1 DEF GoTo
  <2> QED
    BY <1>1, <1>3, <2>2
<1> QED
  BY <1>2, <1>4, <1>5, <1>6

LEMMA ShownIs ==
  ASSUME TypeInv
  PROVE  Shown \subseteq Records
<1>1. results = None \/ results.of \in Search
  BY DEF TypeInv, FormTypeOK, Results
<1> QED
  BY <1>1, MatchesAre DEF Shown

\* The results are checked or not: they stay results.
LEMMA CheckedTyped ==
  ASSUME NEW res \in Results, NEW checked \in SUBSET Records
  PROVE  [res EXCEPT !.checked = checked] \in Results
  BY DEF Results

\* A request for the selection is sent.
LEMMA AskTyped ==
  ASSUME TypeInv, SearchInv, results' \in Results,
         NEW kind \in Kinds \ {"search"}, NEW ids \in SUBSET Records, Ask(kind, ids)
  PROVE  /\ requests' \subseteq Request
         /\ \A x \in requests' : Sent(x)'
<1>1. PICK q : q = [Blank(kind) EXCEPT !.ids = ids]
  OBVIOUS
<1>2. q \in Request /\ q.kind = kind
  BY <1>1 DEF Request, Blank
<1>3. requests' = With(requests, q)
  BY <1>1 DEF Ask
<1>4. requests \in SUBSET Request /\ IsFiniteSet(requests)
  BY DEF TypeInv, FormTypeOK, SearchInv, Loading
<1>5. /\ With(requests, q) \subseteq Request
      /\ \A x \in With(requests, q) : x \in requests \/ Alike(x, q)
  BY <1>2, <1>4, TypedWith
<1>6. \A x \in requests' : Sent(x)'
  <2> SUFFICES ASSUME NEW x \in requests' PROVE Sent(x)'
    OBVIOUS
  <2>1. CASE x \in requests
    BY <2>1 DEF TypeInv, Sent
  <2>2. CASE Alike(x, q)
    BY <1>2, <2>2, AlikeIs DEF Sent
  <2> QED
    BY <1>3, <1>5, <2>1, <2>2
<1> QED
  BY <1>3, <1>5, <1>6

LEMMA CheckingTyped ==
  ASSUME TypeInv, SearchInv, SearchInv',
         \/ \E r \in Shown : Select(r)
         \/ \E on \in BOOLEAN : SelectPage(on)
         \/ SelectAll \/ SelectNone
  PROVE  TypeInv'
<1>1. results \in Results
  <2>1. results # None
    BY DEF Select, SelectPage, Check, SelectAll, SelectNone, SelectionClick
  <2> QED
    BY <2>1 DEF TypeInv, FormTypeOK
<1>2. Shown \subseteq Records
  BY ShownIs
<1>3. ASSUME NEW name, NEW records \in SUBSET Records, NEW on, Check(name, records, on)
      PROVE  TypeInv'
  <2>1. results' = [results EXCEPT !.checked = IF on THEN @ \cup records ELSE @ \ records]
    BY <1>3 DEF Check
  <2>2. results.checked \subseteq Records
    BY <1>1 DEF Results
  <2>3. results' \in Results
    <3>1. PICK checked : checked = IF on THEN results.checked \cup records
                                         ELSE results.checked \ records
      OBVIOUS
    <3>2. checked \in SUBSET Records
      BY <2>2, <3>1
    <3>3. results' = [results EXCEPT !.checked = checked]
      BY <2>1, <3>1
    <3> QED
      BY <1>1, <3>2, <3>3, CheckedTyped
  <2>4. \E kind \in Kinds \ {"search"} : Ask(kind, records)
    BY <1>3 DEF Check, Kinds
  <2>5. requests' \subseteq Request /\ \A x \in requests' : Sent(x)'
    BY <2>3, <2>4, AskTyped
  <2>6. FormTypeOK'
    BY <1>3, <2>3, <2>5, LimitAssumption DEF Check, Waits, TypeInv, FormTypeOK, formVars,
       addressVars, sessionVars
  <2> QED
    BY <2>5, <2>6 DEF TypeInv
<1>4. ASSUME NEW name, SelectionClick(name), NEW kind \in Kinds \ {"search"}, Ask(kind, {})
      PROVE  TypeInv'
  <2>1. results' \in Results
    BY <1>1, <1>4 DEF SelectionClick, Click
  <2>2. requests' \subseteq Request /\ \A x \in requests' : Sent(x)'
    BY <1>4, <2>1, AskTyped
  <2>3. FormTypeOK'
    BY <1>4, <2>1, <2>2, LimitAssumption DEF SelectionClick, Click, Waits, TypeInv, FormTypeOK,
       formVars, addressVars, sessionVars
  <2> QED
    BY <2>2, <2>3 DEF TypeInv
<1>5. CASE \E r \in Shown : Select(r)
  <2>1. PICK r \in Shown : Select(r)
    BY <1>5
  <2>2. Check("select", {r}, r \notin results.checked) /\ {r} \in SUBSET Records
    BY <1>2, <2>1 DEF Select
  <2> QED
    BY <1>3, <2>2
<1>6. CASE \E on \in BOOLEAN : SelectPage(on)
  BY <1>2, <1>3, <1>6 DEF SelectPage
<1>7. CASE SelectAll \/ SelectNone
  <2>1. "add-all" \in Kinds \ {"search"} /\ "remove-all" \in Kinds \ {"search"}
    BY DEF Kinds
  <2> QED
    BY <1>4, <1>7, <2>1 DEF SelectAll, SelectNone
<1> QED
  BY <1>5, <1>6, <1>7

LEMMA SelectedByIs ==
  ASSUME TypeInv, NEW r \in Request
  PROVE  SelectedBy(r) \subseteq Records
<1>1. selection \subseteq Records /\ (lastRequest = None \/ lastRequest \in Search)
  BY DEF TypeInv, FormTypeOK
<1>2. lastRequest # None => Matches(lastRequest) \subseteq Records
  BY <1>1, MatchesAre
<1>3. r.ids \subseteq Records
  BY RequestIs
<1>4. AllSelected \subseteq Records
  BY <1>2 DEF AllSelected
<1> QED
  BY <1>1, <1>3, <1>4 DEF SelectedBy

LEMMA AnsweredTyped ==
  ASSUME TypeInv, SearchInv, NEW r \in requests, NEW answer \in SUBSET Records,
         Answered(r, answer), UNCHANGED results
  PROVE  requests' \subseteq Request /\ \A x \in requests' : Sent(x)'
<1>1. r \in Request /\ requests \subseteq Request /\ IsFiniteSet(requests) /\ Sent(r)
  BY DEF TypeInv, FormTypeOK, SearchInv, Loading
<1>2. PICK q : q = [r EXCEPT !.stage = "handled", !.answer = answer]
  OBVIOUS
<1>3. q \in Request /\ q.kind = r.kind /\ q.search = r.search
  BY <1>1, <1>2 DEF Request
<1>4. requests' = With(requests \ {r}, q)
  BY <1>2 DEF Answered
<1>5. requests \ {r} \in SUBSET Request /\ IsFiniteSet(requests \ {r})
  BY <1>1, FS_RemoveElement
<1>6. /\ With(requests \ {r}, q) \subseteq Request
      /\ \A x \in With(requests \ {r}, q) : x \in requests \ {r} \/ Alike(x, q)
  BY <1>3, <1>5, TypedWith
<1>7. \A x \in requests' : Sent(x)'
  <2> SUFFICES ASSUME NEW x \in requests' PROVE Sent(x)'
    OBVIOUS
  <2>1. CASE x \in requests
    BY <2>1 DEF TypeInv, Sent
  <2>2. CASE Alike(x, q)
    BY <1>1, <1>3, <2>2, AlikeIs DEF Sent
  <2> QED
    BY <1>4, <1>6, <2>1, <2>2
<1> QED
  BY <1>4, <1>6, <1>7

LEMMA ServerTyped ==
  ASSUME TypeInv, SearchInv, OtherSearch \/ \E r \in requests : Handle(r) \/ Fail(r)
  PROVE  TypeInv'
<1>1. CASE OtherSearch
  <2>1. lastRequest' \in Search
    BY <1>1 DEF OtherSearch, Search
  <2>2. FormTypeOK'
    <3>1. clicks' \in 0 .. MaxClicks /\ orderly' = FALSE
      BY <1>1, LimitAssumption DEF OtherSearch, TypeInv, FormTypeOK
    <3>2. UNCHANGED <<formVars, resultVars, addressVars, selection, requests, failures,
                      latest, skipped, cut>>
      BY <1>1 DEF OtherSearch
    <3> QED
      BY <2>1, <3>1, <3>2 DEF TypeInv, FormTypeOK, formVars, resultVars, addressVars
  <2>3. \A r \in requests' : Sent(r)'
    BY <1>1 DEF OtherSearch, TypeInv, Sent, resultVars
  <2> QED
    BY <2>2, <2>3 DEF TypeInv
<1>2. CASE \E r \in requests : Fail(r)
  <2>1. PICK r \in requests : Fail(r)
    BY <1>2
  <2>2. FormTypeOK'
    <3>1. failures' \in 0 .. MaxFailures /\ orderly' = FALSE /\ requests' \subseteq Request
      BY <2>1, LimitAssumption DEF Fail, TypeInv, FormTypeOK
    <3>2. UNCHANGED <<formVars, resultVars, addressVars, sessionVars, clicks, latest, skipped,
                      cut>>
      BY <2>1 DEF Fail
    <3> QED
      BY <3>1, <3>2 DEF TypeInv, FormTypeOK, formVars, resultVars, addressVars, sessionVars
  <2>3. \A x \in requests' : Sent(x)'
    BY <2>1 DEF Fail, TypeInv, Sent, resultVars
  <2> QED
    BY <2>2, <2>3 DEF TypeInv
<1>3. CASE \E r \in requests : Handle(r)
  <2>1. PICK r \in requests : Handle(r)
    BY <1>3
  <2>2. r \in Request /\ Sent(r) /\ selection \subseteq Records
    BY DEF TypeInv, FormTypeOK
  <2>3. \E answer \in SUBSET Records : Answered(r, answer)
    <3>1. CASE HandleSearch(r)
      <4>1. PageOf(r.search) \cap selection \in SUBSET Records
        BY <2>2
      <4> QED
        BY <3>1, <4>1 DEF HandleSearch
    <3>2. CASE HandleSelection(r)
      BY <2>2, <3>2, SelectedByIs DEF HandleSelection
    <3>3. CASE SelectAllFails(r)
      BY <3>3 DEF SelectAllFails
    <3> QED
      BY <2>1, <3>1, <3>2, <3>3 DEF Handle
  <2>4. /\ lastRequest' \in Search \cup {None} /\ selection' \subseteq Records
        /\ failures' \in 0 .. MaxFailures
    <3>1. CASE HandleSearch(r)
      BY <2>2, <3>1 DEF HandleSearch, Sent, TypeInv, FormTypeOK
    <3>2. CASE HandleSelection(r)
      BY <2>2, <3>2, SelectedByIs DEF HandleSelection, TypeInv, FormTypeOK
    <3>3. CASE SelectAllFails(r)
      <4>1. failures' \in 0 .. MaxFailures
        BY <3>3, LimitAssumption DEF SelectAllFails, TypeInv, FormTypeOK
      <4>2. lastRequest' \in Search \cup {None} /\ selection' \subseteq Records
        BY <3>3 DEF SelectAllFails, TypeInv, FormTypeOK
      <4> QED
        BY <4>1, <4>2
    <3> QED
      BY <2>1, <3>1, <3>2, <3>3 DEF Handle
  <2>5. UNCHANGED <<formVars, resultVars, addressVars, clicks, historyVars>>
    BY <2>1 DEF Handle
  <2>6. requests' \subseteq Request /\ \A x \in requests' : Sent(x)'
    BY <2>3, <2>5, AnsweredTyped DEF resultVars
  <2>7. FormTypeOK'
    BY <2>4, <2>5, <2>6 DEF TypeInv, FormTypeOK, formVars, resultVars, addressVars, historyVars
  <2> QED
    BY <2>6, <2>7 DEF TypeInv
<1> QED
  BY <1>1, <1>2, <1>3

LEMMA ReceiveTyped ==
  ASSUME TypeInv, SearchInv, SearchInv', NEW r \in requests, Receive(r)
  PROVE  TypeInv'
<1>1. r \in Request /\ Sent(r) /\ r.answer \subseteq Records
  BY RequestIs DEF TypeInv, FormTypeOK
<1>2. page' \in Nat \ {0} /\ searching' \in Nat
  BY DEF SearchInv, FormInv, Loading
<1>3. CASE ReceiveSearch(r)
  <2>1. r.search \in Search
    BY <1>1, <1>3 DEF ReceiveSearch, Sent
  <2>2. results' \in Results
    BY <1>1, <1>3, <2>1 DEF ReceiveSearch, Results
  <2>3. pages' \in Int
    BY <1>3, <2>1, MatchesAre DEF ReceiveSearch, TypeInv, FormTypeOK
  <2>4. FormTypeOK'
    BY <1>2, <1>3, <2>2, <2>3 DEF Receive, ReceiveSearch, TypeInv, FormTypeOK, addressVars,
       sessionVars
  <2>5. \A x \in requests' : Sent(x)'
    BY <2>2 DEF Receive, TypeInv, Sent
  <2> QED
    BY <2>4, <2>5 DEF TypeInv
<1>4. CASE ReceiveSelection(r)
  <2>1. results \in Results
    BY <1>1, <1>4 DEF ReceiveSelection, Sent
  <2>2. results' \in Results
    <3>1. Shown \in SUBSET Records /\ {} \in SUBSET Records
      BY ShownIs
    <3> QED
      BY <1>4, <2>1, <3>1, CheckedTyped DEF ReceiveSelection
  <2>3. count' \in Nat
    <3>1. IsFiniteSet(r.answer)
      BY <1>1, RecordAssumption, FS_Subset
    <3> QED
      BY <1>4, <3>1, FS_CardinalityType DEF ReceiveSelection
  <2>6. cut' \in BOOLEAN
    BY <1>4 DEF ReceiveSelection, TypeInv, FormTypeOK
  <2>4. FormTypeOK'
    BY <1>2, <1>4, <2>2, <2>3, <2>6 DEF Receive, ReceiveSelection, TypeInv, FormTypeOK,
       addressVars, sessionVars
  <2>5. \A x \in requests' : Sent(x)'
    BY <2>2 DEF Receive, TypeInv, Sent
  <2> QED
    BY <2>4, <2>5 DEF TypeInv
<1> QED
  BY <1>3, <1>4 DEF Receive

LEMMA TypeNext == TypeInv /\ SearchInv /\ [Next]_vars => TypeInv'
<1> SUFFICES ASSUME TypeInv, SearchInv, [Next]_vars PROVE TypeInv'
  OBVIOUS
<1>1. SearchInv'
  BY SearchNext
<1>2. CASE UNCHANGED vars
  BY <1>2 DEF vars, formVars, resultVars, addressVars, sessionVars, historyVars,
              TypeInv, FormTypeOK, Sent
<1>3. CASE Next
  <2>1. CASE Searching
    BY <1>1, <2>1, SearchingTyped
  <2>2. CASE OpenRecord \/ CloseRecord \/ Restored \/ \E u \in visited : GoTo(u)
    BY <1>1, <2>2, MovingTyped
  <2>3. CASE \/ \E r \in Shown : Select(r)
             \/ \E on \in BOOLEAN : SelectPage(on)
             \/ SelectAll \/ SelectNone
    BY <1>1, <2>3, CheckingTyped
  <2>4. CASE OtherSearch \/ \E r \in requests : Handle(r) \/ Fail(r)
    BY <2>4, ServerTyped
  <2>5. CASE \E r \in requests : Receive(r)
    BY <1>1, <2>5, ReceiveTyped
  <2> QED
    BY <1>3, <2>1, <2>2, <2>3, <2>4, <2>5 DEF Next, Searching
<1> QED
  BY <1>2, <1>3

LEMMA TypesHold == SearchSpec => [](SearchInv /\ TypeInv)
<1>1. Init => SearchInv /\ TypeInv
  BY SearchInit, TypeInit
<1>2. SearchInv /\ TypeInv /\ [Next]_vars => (SearchInv /\ TypeInv)'
  BY SearchNext, TypeNext
<1> QED
  BY <1>1, <1>2, PTL DEF SearchSpec

\* The form, the address, the results and the requests are well-typed in every
\* reachable state, whichever facets removeFacetsFromParams keeps
\* (FacetsService.js) and whatever number the paginator computes.
THEOREM SearchTypeCorrect == SearchSpec => []FormTypeOK
<1>1. TypeInv => FormTypeOK
  BY DEF TypeInv
<1> QED
  BY <1>1, TypesHold, PTL

-----------------------------------------------------------------------------
(* A user who waits for every answer.                                       *)

\* What closing a record goes back to, when it was opened from the search, is
\* what is not searched again.
LeftInv ==
  /\ leftParams.path = "search"
  /\ restoring => url.path = "search"
  /\ url.path # "metadata" => origin = url.path
  /\ url.path = "metadata" /\ origin = "search" => left = leftParams

\* The search that was sent last is shown, or will be.
Coming ==
  \/ \E r \in requests : r.kind = "search" /\ r.search = latest
  \/ (\A r \in requests : r.kind # "search") /\ results # None /\ results.of = latest
AddressShown ==
  /\ url.path = "search" => latest = SearchOf(url)
  /\ latest # None => /\ params.q = latest.q /\ ToSet(current) \subseteq latest.facets
                      /\ Coming

\* The check boxes are those of the records of the set, apart from those that
\* add-all has left out.
Marked(set) == results # None => /\ set \cap Shown \subseteq results.checked
                                 /\ ~cut => results.checked \subseteq set
Idle == searching = 0 /\ count = Cardinality(selection) /\ Marked(selection)
SearchBusy(r) ==
  /\ searching = 1 /\ count = Cardinality(selection)
  /\ IF r.stage = "sent" THEN Marked(selection)
     ELSE r.answer = PageOf(r.search) \cap selection
SelectionBusy(r) ==
  /\ searching = 0 /\ results # None
  /\ IF r.stage = "sent" THEN r.kind \in {"add", "remove"} => Marked(SelectedBy(r))
     ELSE /\ r.answer = selection
          /\ r.kind \in {"add", "remove"} => Marked(selection)
          /\ r.kind = "remove-all" => selection = {}
Busy(r) == IF r.kind = "search" THEN SearchBusy(r) ELSE SelectionBusy(r)
\* At most one request is on its way.
Settled == \/ requests = {} /\ Idle
           \/ \E r \in requests : requests = {r} /\ Busy(r)

OrderInv == /\ LeftInv
            /\ orderly => Settled
            /\ orderly /\ ~skipped => AddressShown

LEMMA OrderInit == Init => OrderInv
<1> SUFFICES ASSUME Init PROVE OrderInv
  OBVIOUS
<1>1. Cardinality({}) = 0
  BY FS_EmptySet
<1>2. Settled
  BY <1>1 DEF Init, Settled, Idle, Marked
<1>3. AddressShown
  BY DEF Init, AddressShown, Elsewhere
<1>4. LeftInv
  <2>1. /\ leftParams.path = "search" /\ restoring = FALSE
        /\ url.path = "home" /\ origin = "home"
    BY DEF Init, SearchAddress, Elsewhere
  <2> QED
    BY <2>1 DEF LeftInv
<1> QED
  BY <1>2, <1>3, <1>4 DEF OrderInv

LEMMA OrderImplies ==
  OrderInv /\ TypeInv => ResultsAreOfAddress /\ SelectionAgrees
<1> SUFFICES ASSUME OrderInv, TypeInv PROVE ResultsAreOfAddress /\ SelectionAgrees
  OBVIOUS
<1>1. ASSUME orderly, IsQuiet PROVE Idle
  BY <1>1 DEF OrderInv, Settled, IsQuiet
<1>2. SelectionAgrees
  BY <1>1 DEF SelectionAgrees, Idle, Marked
<1>3. ResultsAreOfAddress
  <2> SUFFICES ASSUME orderly, ~skipped, IsQuiet, url.path = "search"
               PROVE  /\ results # None /\ searching = 0
                      /\ results.of = SearchOf(url)
                      /\ params.q = url.q /\ ToSet(current) \subseteq url.facets
    BY DEF ResultsAreOfAddress
  <2>1. AddressShown /\ searching = 0 /\ url \in Address
    BY <1>1 DEF OrderInv, Idle, TypeInv, FormTypeOK
  <2>2. latest = SearchOf(url) /\ SearchOf(url) \in Search
    BY <2>1, SearchOfIs DEF AddressShown
  <2>3. params.q = latest.q /\ ToSet(current) \subseteq latest.facets /\ Coming
    BY <2>1, <2>2, NoneAssumption DEF AddressShown
  <2>4. results # None /\ results.of = latest
    BY <2>3 DEF Coming, IsQuiet
  <2>5. latest.q = url.q /\ latest.facets = url.facets
    BY <2>2 DEF SearchOf
  <2> QED
    BY <2>1, <2>2, <2>3, <2>4, <2>5
<1> QED
  BY <1>2, <1>3

-----------------------------------------------------------------------------
(* Where closing a record goes back to.                                     *)

LEMMA LeftGoes ==
  ASSUME LeftInv, NEW u, NEW asText, NEW p, NEW list, NEW asked, NEW pg,
         GoesTo(u, asText, p, list, asked, pg), restoring' => u.path = "search"
  PROVE  LeftInv'
<1>1. /\ url' = u /\ left' = LeftAfter(u)
      /\ leftParams' = IF Leaves(u) THEN url ELSE leftParams
      /\ origin' = IF u.path = "metadata" THEN origin ELSE u.path
  BY DEF GoesTo
<1>2. leftParams'.path = "search"
  BY <1>1 DEF LeftInv, Leaves
<1>3. ASSUME u.path = "metadata", origin' = "search" PROVE left' = leftParams'
  BY <1>1, <1>3 DEF LeftInv, LeftAfter, Leaves
<1> QED
  BY <1>1, <1>2, <1>3 DEF LeftInv

LEMMA LeftTriggers ==
  ASSUME LeftInv, NEW p, NEW list, NEW pg,
         Triggers(p, list, pg), UNCHANGED restoring, ~restoring
  PROVE  LeftInv'
<1> DEFINE u == SearchAddress([p EXCEPT !.facets = FacetsOf(list, @)])
<1>1. CASE UNCHANGED <<url, left, leftParams, origin>>
  BY <1>1 DEF LeftInv
<1>2. CASE GoesTo(u, FALSE, p, list, ToSet(list), pg)
  <2> HIDE DEF u
  <2> QED
    BY <1>2, LeftGoes
<1> QED
  BY <1>1, <1>2 DEF Triggers, u

LEMMA LeftNext == TypeInv /\ LeftInv /\ [Next]_vars => LeftInv'
<1> SUFFICES ASSUME TypeInv, LeftInv, [Next]_vars PROVE LeftInv'
  OBVIOUS
<1>1. ASSUME UNCHANGED <<url, left, leftParams, origin, restoring>> PROVE LeftInv'
  BY <1>1 DEF LeftInv
<1>2. CASE UNCHANGED vars
  BY <1>1, <1>2 DEF vars, addressVars
<1>3. CASE Searching
  <2>1. PICK p \in Params, list \in Seq(Facets), pg \in Nat : Triggers(p, list, pg)
    BY <1>3, SearchingIs
  <2>2. ~restoring /\ UNCHANGED restoring
    BY <1>3, SearchingIs DEF Click
  <2> QED
    BY <2>1, <2>2, LeftTriggers
<1>4. CASE OpenRecord
  <2>1. Stay(Elsewhere("metadata"), FALSE) /\ ~restoring /\ UNCHANGED restoring
    BY <1>4 DEF OpenRecord, Click
  <2> QED
    BY <2>1, LeftGoes DEF Stay
<1>5. CASE CloseRecord
  <2>1. ~restoring
    BY <1>5 DEF CloseRecord, Click
  <2>2. CASE origin = "search"
    <3>1. Stay(leftParams, text.left) /\ leftParams.path = "search"
      BY <1>5, <2>2 DEF CloseRecord, LeftInv
    <3> QED
      BY <3>1, LeftGoes DEF Stay
  <2>3. CASE origin # "search"
    <3>1. Stay(Elsewhere(origin), FALSE) /\ UNCHANGED restoring
      BY <1>5, <2>3 DEF CloseRecord
    <3> QED
      BY <2>1, <3>1, LeftGoes DEF Stay
  <2> QED
    BY <2>2, <2>3
<1>6. CASE Restored
  <2>1. url.path = "search" /\ UNCHANGED <<url, leftParams, origin>> /\ restoring' = FALSE
    BY <1>6 DEF Restored, LeftInv
  <2> QED
    BY <2>1 DEF LeftInv
<1>7. CASE \E u \in visited : GoTo(u)
  <2>1. PICK u \in visited : GoTo(u)
    BY <1>7
  <2>2. Stay(u, u.from # 0) /\ ~restoring /\ UNCHANGED restoring
    BY <2>1 DEF GoTo, Click
  <2> QED
    BY <2>2, LeftGoes DEF Stay
<1>8. CASE \/ \E r \in Shown : Select(r)
           \/ \E on \in BOOLEAN : SelectPage(on)
           \/ SelectAll \/ SelectNone
  BY <1>1, <1>8 DEF Select, SelectPage, Check, SelectAll, SelectNone, SelectionClick, addressVars
<1>9. CASE OtherSearch \/ \E r \in requests : Handle(r) \/ Receive(r) \/ Fail(r)
  BY <1>1, <1>9 DEF OtherSearch, Handle, Receive, Fail, addressVars
<1> QED
  BY <1>2, <1>3, <1>4, <1>5, <1>6, <1>7, <1>8, <1>9 DEF Next, Searching

-----------------------------------------------------------------------------
(* One request at a time.                                                   *)

LEMMA OneRequest ==
  ASSUME NEW r, DOMAIN r = Names
  PROVE  \E x : With({}, r) = {x} /\ Alike(x, r)
<1>1. IsFiniteSet({})
  BY FS_EmptySet
<1>2. \E q : Alike(q, r) /\ With({}, r) = {} \cup {q} /\ q \notin {}
  BY <1>1, WithIsNew
<1> QED
  BY <1>2

\* Nothing that the check boxes and the session have to agree on changes.
LEMMA SameSettled ==
  ASSUME Settled, UNCHANGED <<requests, searching, count, results, selection, lastRequest, cut>>
  PROVE  Settled'
<1>1. Idle => Idle'
  BY DEF Idle, Marked, Shown
<1>2. \A r \in requests : Busy(r) => Busy(r)'
  BY DEF Busy, SearchBusy, SelectionBusy, Marked, Shown, SelectedBy, AllSelected
<1> QED
  BY <1>1, <1>2 DEF Settled

\* A search is sent.
LEMMA SendsSettled ==
  ASSUME requests = {}, Idle, NEW s, Sends(s),
         UNCHANGED <<count, results, selection, cut>>
  PROVE  Settled'
<1>1. PICK q : q = [Blank("search") EXCEPT !.search = s]
  OBVIOUS
<1>2. DOMAIN q = Names /\ q.kind = "search" /\ q.stage = "sent"
  BY <1>1 DEF Blank, Names
<1>3. requests' = With({}, q)
  BY <1>1 DEF Sends
<1>4. PICK x : requests' = {x} /\ Alike(x, q)
  BY <1>2, <1>3, OneRequest
<1>5. x.kind = "search" /\ x.stage = "sent"
  BY <1>2, <1>4, AlikeIs
<1>6. searching' = 1
  BY DEF Sends, Idle
<1>7. SearchBusy(x)'
  BY <1>5, <1>6 DEF SearchBusy, Idle, Marked, Shown
<1> QED
  BY <1>4, <1>5, <1>7 DEF Settled, Busy

LEMMA GoesSettled ==
  ASSUME requests = {}, Idle, NEW u, NEW asText, NEW p, NEW list, NEW asked,
         NEW pg, GoesTo(u, asText, p, list, asked, pg),
         UNCHANGED <<count, results, selection, lastRequest, cut>>
  PROVE  Settled'
<1>1. (\E s : Sends(s)) \/ UNCHANGED <<requests, searching>>
  BY DEF GoesTo
<1>2. Settled
  BY DEF Settled
<1> QED
  BY <1>1, <1>2, SendsSettled, SameSettled

LEMMA TriggersSettled ==
  ASSUME requests = {}, Idle, NEW p, NEW list, NEW pg, Triggers(p, list, pg),
         UNCHANGED <<count, results, selection, lastRequest, cut>>
  PROVE  Settled'
<1>1. \/ \E s : Sends(s)
      \/ \E u : GoesTo(u, FALSE, p, list, ToSet(list), pg)
      \/ UNCHANGED <<requests, searching>>
  BY DEF Triggers, SendsAgain, SendsNothing
<1>2. Settled
  BY DEF Settled
<1> QED
  BY <1>1, <1>2, SendsSettled, GoesSettled, SameSettled

\* The check boxes that change are among those that are shown.
LEMMA CheckSettled ==
  ASSUME TypeInv, requests = {}, Idle, NEW name, NEW records, records \subseteq Shown,
         NEW on \in BOOLEAN, Check(name, records, on)
  PROVE  Settled'
<1>1. results \in Results /\ results # None
  BY DEF Check, TypeInv, FormTypeOK
<1>2. PICK checked : checked = IF on THEN results.checked \cup records
                                     ELSE results.checked \ records
  OBVIOUS
<1>3. results' = [results EXCEPT !.checked = checked]
  BY <1>2 DEF Check
<1>4. results'.of = results.of /\ results'.checked = checked /\ results' # None
  <2>1. results.checked \subseteq Records /\ records \subseteq Records
    BY <1>1, ShownIs DEF Results
  <2>2. checked \in SUBSET Records
    BY <1>2, <2>1
  <2>3. results' \in Results
    BY <1>1, <1>3, <2>2, CheckedTyped
  <2> QED
    BY <1>1, <1>3, <2>3, NoneAssumption DEF Results
<1>5. Shown' = Shown
  BY <1>1, <1>4 DEF Shown, PageOf
<1>6. /\ selection \cap Shown \subseteq results.checked
      /\ ~cut => results.checked \subseteq selection
      /\ searching = 0
  BY <1>1 DEF Idle, Marked
<1>7. UNCHANGED <<searching, selection, cut>>
  BY DEF Check, sessionVars
<1>8. searching' = 0
  BY <1>6, <1>7
<1>9. on => /\ (selection \cup records) \cap Shown \subseteq checked
            /\ ~cut => checked \subseteq selection \cup records
  BY <1>2, <1>6
<1>10. ~on => /\ (selection \ records) \cap Shown \subseteq checked
              /\ ~cut => checked \subseteq selection \ records
  BY <1>2, <1>6
<1>11. PICK x : requests' = {x} /\ DOMAIN x = Names /\ x.kind = (IF on THEN "add" ELSE "remove")
                /\ x.stage = "sent" /\ x.ids = records
  <2>1. PICK q : q = [Blank(IF on THEN "add" ELSE "remove") EXCEPT !.ids = records]
    OBVIOUS
  <2>2. /\ DOMAIN q = Names /\ q.kind = (IF on THEN "add" ELSE "remove")
        /\ q.stage = "sent" /\ q.ids = records
    BY <2>1 DEF Blank, Names
  <2>3. requests' = With({}, q)
    BY <2>1 DEF Ask, Check
  <2>4. PICK x : requests' = {x} /\ Alike(x, q)
    BY <2>2, <2>3, OneRequest
  <2> QED
    BY <2>2, <2>4, AlikeIs DEF Alike
<1>12. Marked(SelectedBy(x))'
  <2>1. CASE on
    <3>1. SelectedBy(x)' = selection \cup records
      BY <1>7, <1>11, <2>1 DEF SelectedBy
    <3> QED
      BY <1>4, <1>5, <1>7, <1>9, <2>1, <3>1 DEF Marked
  <2>2. CASE ~on
    <3>1. SelectedBy(x)' = selection \ records
      BY <1>7, <1>11, <2>2 DEF SelectedBy
    <3> QED
      BY <1>4, <1>5, <1>7, <1>10, <2>2, <3>1 DEF Marked
  <2> QED
    BY <2>1, <2>2
<1>13. SelectionBusy(x)'
  BY <1>4, <1>8, <1>11, <1>12 DEF SelectionBusy
<1> QED
  BY <1>11, <1>13 DEF Settled, Busy

LEMMA AllSettled ==
  ASSUME requests = {}, Idle, NEW name, SelectionClick(name),
         NEW kind \in {"add-all", "remove-all"}, Ask(kind, {})
  PROVE  Settled'
<1>1. PICK q : q = [Blank(kind) EXCEPT !.ids = {}]
  OBVIOUS
<1>2. DOMAIN q = Names /\ q.kind = kind /\ q.stage = "sent"
  BY <1>1 DEF Blank, Names
<1>3. requests' = With({}, q)
  BY <1>1 DEF Ask
<1>4. PICK x : requests' = {x} /\ Alike(x, q)
  BY <1>2, <1>3, OneRequest
<1>5. x.kind = kind /\ x.stage = "sent"
  BY <1>2, <1>4, AlikeIs
<1>6. results # None /\ UNCHANGED <<results, searching>>
  BY DEF SelectionClick, Click
<1>7. SelectionBusy(x)'
  BY <1>5, <1>6 DEF SelectionBusy, Idle
<1> QED
  BY <1>4, <1>5, <1>7 DEF Settled, Busy

\* The server answers the request that is on its way.
LEMMA HandleSettled ==
  ASSUME TypeInv, NEW r \in requests, requests = {r}, Busy(r), Handle(r)
  PROVE  Settled'
<1>1. r \in Request /\ DOMAIN r = Names
  BY RequestIs DEF TypeInv, FormTypeOK
<1>2. UNCHANGED <<searching, count, results, cut>> /\ Shown' = Shown
  BY DEF Handle, resultVars, historyVars, Shown
<1>3. ASSUME NEW answer, Answered(r, answer)
      PROVE  \E x : /\ requests' = {x} /\ x.kind = r.kind /\ x.search = r.search
                    /\ x.stage = "handled" /\ x.answer = answer
  <2>1. PICK q : q = [r EXCEPT !.stage = "handled", !.answer = answer]
    OBVIOUS
  <2>2. /\ DOMAIN q = Names /\ q.kind = r.kind /\ q.search = r.search
        /\ q.stage = "handled" /\ q.answer = answer
    BY <1>1, <2>1 DEF Names
  <2>3. requests' = With({}, q)
    <3>1. requests \ {r} = {}
      OBVIOUS
    <3> QED
      BY <1>3, <2>1, <3>1 DEF Answered
  <2>4. PICK x : requests' = {x} /\ Alike(x, q)
    BY <2>2, <2>3, OneRequest
  <2> QED
    BY <2>2, <2>4, AlikeIs
<1>4. CASE HandleSearch(r)
  <2>1. PICK x : /\ requests' = {x} /\ x.kind = r.kind /\ x.search = r.search
                 /\ x.stage = "handled" /\ x.answer = PageOf(r.search) \cap selection
    BY <1>3, <1>4 DEF HandleSearch
  <2>2. /\ r.kind = "search" /\ lastRequest' = r.search /\ UNCHANGED selection
    BY <1>4 DEF HandleSearch
  <2>3. SearchBusy(r)
    BY <2>2 DEF Busy
  <2>4. SearchBusy(x)'
    BY <1>2, <2>1, <2>2, <2>3 DEF SearchBusy, PageOf
  <2> QED
    BY <2>1, <2>2, <2>4 DEF Settled, Busy
<1>5. CASE HandleSelection(r)
  <2>1. PICK x : /\ requests' = {x} /\ x.kind = r.kind
                 /\ x.stage = "handled" /\ x.answer = SelectedBy(r)
    BY <1>3, <1>5 DEF HandleSelection
  <2>2. /\ r.kind # "search" /\ selection' = SelectedBy(r) /\ UNCHANGED lastRequest
    BY <1>5 DEF HandleSelection
  <2>3. SelectionBusy(r) /\ r.stage = "sent"
    BY <2>2 DEF Busy, Handle
  <2>4. searching' = 0 /\ results' # None
    BY <1>2, <2>3 DEF SelectionBusy
  <2>6. x.kind \in {"add", "remove"} => Marked(selection)'
    BY <1>2, <2>1, <2>2, <2>3 DEF SelectionBusy, Marked
  <2>7. x.kind = "remove-all" => selection' = {}
    BY <2>1, <2>2 DEF SelectedBy
  <2>8. SelectionBusy(x)'
    BY <2>1, <2>2, <2>4, <2>6, <2>7 DEF SelectionBusy
  <2> QED
    BY <2>1, <2>2, <2>8 DEF Settled, Busy
<1>6. CASE SelectAllFails(r)
  <2>1. PICK x : /\ requests' = {x} /\ x.kind = r.kind /\ x.stage = "handled" /\ x.answer = {}
    BY <1>3, <1>6 DEF SelectAllFails
  <2>2. r.kind = "add-all" /\ selection' = {}
    BY <1>6 DEF SelectAllFails
  <2>3. SelectionBusy(r)
    BY <2>2 DEF Busy
  <2>4. SelectionBusy(x)'
    BY <1>2, <2>1, <2>2, <2>3 DEF SelectionBusy
  <2> QED
    BY <2>1, <2>2, <2>4 DEF Settled, Busy
<1> QED
  BY <1>4, <1>5, <1>6 DEF Handle

\* The answer arrives, and nothing is on its way any more.
LEMMA ReceiveSettled ==
  ASSUME TypeInv, NEW r \in requests, requests = {r}, Busy(r), Receive(r)
  PROVE  Settled'
<1>1. r.stage = "handled" /\ requests' = {} /\ UNCHANGED <<selection, lastRequest>>
  BY DEF Receive, sessionVars
<1>2. CASE ReceiveSearch(r)
  <2>1. SearchBusy(r)
    BY <1>2 DEF ReceiveSearch, Busy
  <2>2. /\ count = Cardinality(selection)
        /\ r.answer = PageOf(r.search) \cap selection /\ searching = 1
    BY <1>1, <2>1 DEF SearchBusy
  <2>3. /\ searching' = 0 /\ UNCHANGED count
        /\ results' = [of |-> r.search, checked |-> r.answer]
    BY <1>2, <2>2 DEF ReceiveSearch
  <2>4. results'.of = r.search /\ results'.checked = r.answer
    BY <2>3
  <2>5. results' # None => Shown' = PageOf(r.search)
    BY <2>4 DEF Shown, PageOf
  <2>6. Marked(selection)'
    BY <1>1, <2>2, <2>4, <2>5 DEF Marked
  <2>7. Idle'
    BY <1>1, <2>2, <2>3, <2>6 DEF Idle
  <2> QED
    BY <1>1, <2>7 DEF Settled
<1>3. CASE ReceiveSelection(r)
  <2>1. SelectionBusy(r) /\ r.kind \in Kinds \ {"search"}
    BY <1>3, RequestIs DEF ReceiveSelection, Busy, TypeInv, FormTypeOK
  <2>2. results \in Results /\ results # None /\ searching = 0
    BY <2>1 DEF SelectionBusy, TypeInv, FormTypeOK
  <2>3. r.answer = selection
    BY <1>1, <2>1 DEF SelectionBusy
  <2>4. count' = Cardinality(selection') /\ searching' = 0
    BY <1>1, <1>3, <2>2, <2>3 DEF ReceiveSelection
  <2>5. results'.of = results.of
    BY <1>3, <2>2 DEF ReceiveSelection, Results
  <2>6. results' # None => Shown' = Shown
    BY <2>2, <2>5 DEF Shown, PageOf
  <2>8. Marked(selection)'
    <3>1. CASE r.kind = "add-all"
      <4>1. results'.checked = Shown /\ cut' = ~(Shown \subseteq r.answer)
        BY <1>3, <2>2, <3>1 DEF ReceiveSelection, Results
      <4> QED
        BY <1>1, <2>3, <2>6, <4>1 DEF Marked
    <3>2. CASE r.kind = "remove-all"
      <4>1. results'.checked = {}
        BY <1>3, <2>2, <3>2 DEF ReceiveSelection, Results
      <4>2. selection = {}
        BY <1>1, <2>1, <3>2 DEF SelectionBusy
      <4> QED
        BY <1>1, <4>1, <4>2 DEF Marked
    <3>3. CASE r.kind \in {"add", "remove"}
      <4>1. results' = results /\ cut' = cut
        BY <1>3, <3>3 DEF ReceiveSelection
      <4>2. Marked(selection)
        BY <1>1, <2>1, <3>3 DEF SelectionBusy
      <4> QED
        BY <1>1, <2>6, <4>1, <4>2 DEF Marked
    <3> QED
      BY <2>1, <3>1, <3>2, <3>3 DEF Kinds
  <2>9. Idle'
    BY <2>4, <2>8 DEF Idle
  <2> QED
    BY <1>1, <2>9 DEF Settled
<1> QED
  BY <1>2, <1>3 DEF Receive

LEMMA SettledNext == TypeInv /\ OrderInv /\ [Next]_vars => (orderly' => Settled')
<1> SUFFICES ASSUME TypeInv, OrderInv, [Next]_vars, orderly' PROVE Settled'
  OBVIOUS
<1>1. orderly => Settled
  BY DEF OrderInv
<1>2. ASSUME orderly, IsQuiet PROVE requests = {} /\ Idle
  BY <1>1, <1>2 DEF Settled, IsQuiet
<1>3. ASSUME orderly, NEW r \in requests PROVE requests = {r} /\ Busy(r)
  BY <1>1, <1>3 DEF Settled
<1>4. CASE UNCHANGED vars
  <2>1. /\ orderly
        /\ UNCHANGED <<requests, searching, count, results, selection, lastRequest, cut>>
    BY <1>4 DEF vars, resultVars, sessionVars, historyVars
  <2> QED
    BY <1>1, <2>1, SameSettled
<1>5. CASE Searching
  <2>1. PICK p \in Params, list \in Seq(Facets), pg \in Nat : Triggers(p, list, pg)
    BY <1>5, SearchingIs
  <2>2. PICK name : Click(name) /\ Waits
    BY <1>5, SearchingIs
  <2>3. requests = {} /\ Idle
    BY <1>2, <2>2 DEF Waits
  <2>4. UNCHANGED <<count, results, selection, lastRequest, cut>>
    BY <2>2 DEF Click, sessionVars
  <2> QED
    BY <2>1, <2>3, <2>4, TriggersSettled
<1>6. CASE OpenRecord \/ CloseRecord \/ \E u \in visited : GoTo(u)
  <2>1. PICK u, asText : Stay(u, asText)
    BY <1>6 DEF OpenRecord, CloseRecord, GoTo
  <2>2. (\E name : Click(name)) /\ orderly /\ IsQuiet
    BY <1>6 DEF OpenRecord, CloseRecord, GoTo, Waits
  <2>3. UNCHANGED <<count, results, selection, lastRequest, cut>>
    BY <2>2 DEF Click, sessionVars
  <2> QED
    BY <1>2, <2>1, <2>2, <2>3, GoesSettled DEF Stay
<1>7. CASE Restored
  <2>1. /\ orderly
        /\ UNCHANGED <<requests, searching, count, results, selection, lastRequest, cut>>
    BY <1>7 DEF Restored, resultVars, sessionVars, historyVars
  <2> QED
    BY <1>1, <2>1, SameSettled
<1>8. CASE \E r \in Shown : Select(r)
  <2>1. PICK r \in Shown : Select(r)
    BY <1>8
  <2>2. Check("select", {r}, r \notin results.checked) /\ orderly /\ IsQuiet
    BY <2>1 DEF Select, Check, Waits
  <2>3. requests = {} /\ Idle
    BY <1>2, <2>2
  <2>4. PICK on \in BOOLEAN : on = (r \notin results.checked)
    OBVIOUS
  <2> QED
    BY <2>1, <2>2, <2>3, <2>4, CheckSettled
<1>9. CASE \E on \in BOOLEAN : SelectPage(on)
  <2>1. PICK on \in BOOLEAN : Check("selectPage", Shown, on)
    BY <1>9 DEF SelectPage
  <2>2. requests = {} /\ Idle
    BY <1>2, <2>1 DEF Check, Waits
  <2> QED
    BY <2>1, <2>2, CheckSettled
<1>10. CASE SelectAll \/ SelectNone
  <2>1. PICK name : SelectionClick(name)
    BY <1>10 DEF SelectAll, SelectNone
  <2>2. \E kind \in {"add-all", "remove-all"} : Ask(kind, {})
    BY <1>10 DEF SelectAll, SelectNone
  <2>3. requests = {} /\ Idle
    BY <1>2, <2>1 DEF SelectionClick, Waits
  <2> QED
    BY <2>1, <2>2, <2>3, AllSettled
<1>11. CASE OtherSearch \/ \E r \in requests : Fail(r)
  BY <1>11 DEF OtherSearch, Fail
<1>12. CASE \E r \in requests : Handle(r)
  <2>1. PICK r \in requests : Handle(r)
    BY <1>12
  <2>2. orderly
    BY <2>1 DEF Handle, historyVars
  <2> QED
    BY <1>3, <2>1, <2>2, HandleSettled
<1>13. CASE \E r \in requests : Receive(r)
  <2>1. PICK r \in requests : Receive(r)
    BY <1>13
  <2>2. orderly
    BY <2>1 DEF Receive
  <2> QED
    BY <1>3, <2>1, <2>2, ReceiveSettled
<1> QED
  BY <1>4, <1>5, <1>6, <1>7, <1>8, <1>9, <1>10, <1>11, <1>12, <1>13 DEF Next, Searching

-----------------------------------------------------------------------------
(* The search of the address.                                               *)

\* A search is sent: it is coming.
LEMMA SendsComing ==
  ASSUME IsFiniteSet(requests), NEW s, Sends(s)
  PROVE  latest' = s /\ Coming'
<1>1. PICK q : q = [Blank("search") EXCEPT !.search = s]
  OBVIOUS
<1>2. DOMAIN q = Names /\ q.kind = "search" /\ q.search = s
  BY <1>1 DEF Blank, Names
<1>3. requests' = With(requests, q) /\ latest' = s
  BY <1>1 DEF Sends
<1>4. PICK x : Alike(x, q) /\ With(requests, q) = requests \cup {x}
  BY <1>2, WithIsNew
<1>5. x \in requests' /\ x.kind = "search" /\ x.search = s
  BY <1>2, <1>3, <1>4, AlikeIs
<1> QED
  BY <1>3, <1>5 DEF Coming

\* Those facets of an address that the form keeps make up the address.
IsFormed(u, list, asked) ==
  FacetsOf(Kept(list, u.facets), PlainFacets(u, asked)) = u.facets

LEMMA GoesShown ==
  ASSUME TypeInv, IsFiniteSet(requests), UNCHANGED results,
         NEW u \in Address, NEW asText, NEW p, NEW list, NEW asked, NEW pg,
         GoesTo(u, asText, p, list, asked, pg),
         u.path = "search" /\ u # LeftAfter(u) => IsFormed(u, list, asked),
         u.path = "search" /\ latest = SearchOf(u)
           => p.q = u.q /\ ToSet(list) \subseteq u.facets,
         u.path # "search" => p = params /\ list = current,
         ~skipped => AddressShown, ~skipped'
  PROVE  AddressShown'
<1> DEFINE kept == Kept(list, u.facets)
           plain == PlainFacets(u, asked)
           s == [SearchOf(u) EXCEPT !.facets = FacetsOf(kept, plain)]
<1>1. SearchOf(u) \in Search /\ SearchOf(u).q = u.q /\ SearchOf(u).facets = u.facets
  BY SearchOfIs DEF SearchOf
<1>2. CASE /\ u.path = "search" /\ u # LeftAfter(u)
           /\ params' = ParamsOf([SearchOf(u) EXCEPT !.facets = plain])
           /\ current' = kept /\ Sends(s) /\ url' = u
  <2>1. FacetsOf(kept, plain) = u.facets
    BY <1>2 DEF IsFormed
  <2>2. ToSet(kept) \subseteq u.facets
    <3>1. CASE kept = <<>>
      BY <3>1 DEF ToSet
    <3>2. CASE kept # <<>>
      BY <2>1, <3>2 DEF FacetsOf
    <3> QED
      BY <3>1, <3>2
  <2> HIDE DEF kept, plain
  <2>3. s = SearchOf(u)
    BY <1>1, <2>1 DEF Search
  <2>4. params'.q = u.q
    BY <1>1, <1>2 DEF Search, ParamsOf
  <2> HIDE DEF s
  <2>5. latest' = s /\ Coming'
    BY <1>2, SendsComing
  <2> QED
    BY <1>1, <1>2, <2>2, <2>3, <2>4, <2>5 DEF AddressShown
<1>3. CASE /\ ~(u.path = "search" /\ u # LeftAfter(u))
           /\ params' = p /\ current' = list /\ url' = u
           /\ skipped' = (skipped \/ (u.path = "search" /\ ~IsComing(SearchOf(u))))
           /\ UNCHANGED <<requests, searching, latest>>
  <2>1. ~skipped /\ AddressShown
    BY <1>3
  <2>2. u.path = "search" => latest = SearchOf(u)
    BY <1>3 DEF IsComing
  <2>3. latest # None => Coming'
    BY <1>3, <2>1 DEF AddressShown, Coming
  <2>4. latest # None => p.q = latest.q /\ ToSet(list) \subseteq latest.facets
    BY <1>1, <2>1, <2>2 DEF AddressShown
  <2> QED
    BY <1>3, <2>2, <2>3, <2>4 DEF AddressShown
<1> QED
  BY <1>2, <1>3 DEF GoesTo

LEMMA TriggersShown ==
  ASSUME TypeInv, IsFiniteSet(requests), UNCHANGED results,
         NEW p \in Params, p.from # 0, NEW list \in Seq(Facets), NEW pg,
         Triggers(p, list, pg),
         ~skipped => AddressShown, ~skipped'
  PROVE  AddressShown'
<1> DEFINE asked == [p EXCEPT !.facets = FacetsOf(list, @)]
           s == SearchOf(asked)
           u == SearchAddress(asked)
<1>1. p.facets \subseteq Facets
  BY DEF Params
<1>2. FacetsOf(list, p.facets) \subseteq Facets /\ ToSet(list) \subseteq Facets
  BY <1>1, FacetsOfIs
<1>3. /\ asked \in Params /\ asked.q = p.q /\ asked.from # 0
      /\ asked.facets = FacetsOf(list, p.facets)
  BY <1>2 DEF Params
<1>4. ToSet(list) \subseteq asked.facets
  <2>1. CASE list = <<>>
    BY <2>1 DEF ToSet
  <2>2. CASE list # <<>>
    BY <1>3, <2>2 DEF FacetsOf
  <2> QED
    BY <2>1, <2>2
<1> HIDE DEF asked
<1>5. /\ u \in Address /\ u.path = "search" /\ u.q = p.q /\ u.facets = asked.facets
      /\ SearchOf(u) = s /\ s.q = p.q /\ s.facets = asked.facets
  BY <1>3, SearchAddressIs DEF SearchAddress, SearchOf
<1> HIDE DEF s
<1>6. CASE SendsAgain(p, s) /\ current' = list /\ url = u /\ UNCHANGED url
  <2>1. params' = ParamsOf(p) /\ Sends(s)
    BY <1>6 DEF SendsAgain
  <2>2. latest' = s /\ Coming'
    BY <2>1, SendsComing
  <2>3. params'.q = p.q
    BY <2>1 DEF ParamsOf
  <2> QED
    BY <1>4, <1>5, <1>6, <2>2, <2>3 DEF AddressShown
<1>7. CASE GoesTo(u, FALSE, p, list, ToSet(list), pg)
  <2>1. IsFormed(u, list, ToSet(list))
    <3>1. CASE list = <<>>
      <4>1. ToSet(list) = {} /\ Kept(list, u.facets) = <<>>
        BY <3>1, NoneKept DEF ToSet
      <4> QED
        BY <4>1 DEF IsFormed, FacetsOf, PlainFacets
    <3>2. CASE list # <<>>
      <4>1. u.facets = ToSet(list)
        BY <1>3, <1>5, <3>2 DEF FacetsOf
      <4>2. Kept(list, u.facets) = list
        BY <4>1, AllKept
      <4> QED
        BY <3>2, <4>1, <4>2 DEF IsFormed, FacetsOf
    <3> QED
      BY <3>1, <3>2
  <2> HIDE DEF u
  <2> QED
    BY <1>4, <1>5, <1>7, <2>1, GoesShown
<1>8. CASE SendsNothing(p, s) /\ current' = list /\ url = u /\ UNCHANGED url
  <2>1. /\ ~skipped /\ IsComing(s) /\ params' = p
        /\ UNCHANGED <<requests, latest, results>>
    BY <1>8 DEF SendsNothing
  <2>2. AddressShown /\ latest = s
    BY <2>1 DEF IsComing
  <2>3. latest # None => Coming'
    BY <2>1, <2>2 DEF AddressShown, Coming
  <2> QED
    BY <1>4, <1>5, <1>8, <2>1, <2>2, <2>3 DEF AddressShown
<1> QED
  BY <1>6, <1>7, <1>8 DEF Triggers, asked, s, u

\* Nothing changes but a request that is handled.
LEMMA SameShown ==
  ASSUME AddressShown, UNCHANGED <<url, latest, params, current>>, Coming => Coming'
  PROVE  AddressShown'
  BY DEF AddressShown

\* The check boxes are not part of it.
LEMMA AskShown ==
  ASSUME SearchInv, results' # None, results'.of = results.of, NEW kind, kind # "search",
         NEW ids, Ask(kind, ids), latest' = latest, Coming
  PROVE  Coming'
<1>1. PICK q : q = [Blank(kind) EXCEPT !.ids = ids]
  OBVIOUS
<1>2. DOMAIN q = Names /\ q.kind = kind
  BY <1>1 DEF Blank, Names
<1>3. requests' = With(requests, q) /\ IsFiniteSet(requests)
  BY <1>1 DEF Ask, SearchInv, Loading
<1>4. PICK x : Alike(x, q) /\ With(requests, q) = requests \cup {x}
  BY <1>2, <1>3, WithIsNew
<1>5. x.kind # "search"
  BY <1>2, <1>4, AlikeIs
<1> QED
  BY <1>3, <1>4, <1>5 DEF Coming

LEMMA ShownNext ==
  TypeInv /\ SearchInv /\ OrderInv /\ [Next]_vars
    => (orderly' /\ ~skipped' => AddressShown')
<1> SUFFICES ASSUME TypeInv, SearchInv, OrderInv, [Next]_vars, orderly', ~skipped'
             PROVE  AddressShown'
  OBVIOUS
<1>0. /\ params \in Params /\ current \in Seq(Facets) /\ visited \subseteq Address
      /\ leftParams \in Address /\ results \in Results \cup {None}
      /\ IsFiniteSet(requests)
  BY DEF TypeInv, FormTypeOK, SearchInv, Loading
<1>1. orderly /\ ~skipped => AddressShown
  BY DEF OrderInv
<1>2. ASSUME orderly, UNCHANGED <<url, latest, params, current, skipped>>, Coming => Coming'
      PROVE  AddressShown'
  BY <1>1, <1>2, SameShown
<1>3. ASSUME orderly,
             UNCHANGED <<url, latest, params, current, skipped, requests, results>>
      PROVE  AddressShown'
  BY <1>2, <1>3 DEF Coming
<1>4. CASE UNCHANGED vars
  BY <1>3, <1>4 DEF vars, formVars, resultVars, addressVars, historyVars
<1>5. CASE Searching
  <2>1. PICK p \in Params, list \in Seq(Facets), pg \in Nat :
          p.from # 0 /\ Triggers(p, list, pg)
    BY <1>5, SearchingIs
  <2>2. orderly /\ UNCHANGED results
    BY <1>5, SearchingIs DEF Waits, Click
  <2> QED
    BY <1>0, <1>1, <2>1, <2>2, TriggersShown
<1>6. ASSUME orderly, UNCHANGED results, NEW u \in Address, NEW asText,
             Stay(u, asText),
             u.path = "search" /\ u # LeftAfter(u) => IsFormed(u, current, facetsParams)
      PROVE  AddressShown'
  <2>1. GoesTo(u, asText, params, current, facetsParams, page)
    BY <1>6 DEF Stay
  <2>2. ASSUME u.path = "search", latest = SearchOf(u)
        PROVE  params.q = u.q /\ ToSet(current) \subseteq u.facets
    <3>1. SearchOf(u) \in Search /\ SearchOf(u).q = u.q /\ SearchOf(u).facets = u.facets
      BY SearchOfIs DEF SearchOf
    <3>2. ~skipped
      BY <2>1 DEF GoesTo
    <3>3. latest # None
      BY <2>2, <3>1, NoneAssumption
    <3> QED
      BY <1>1, <1>6, <2>2, <3>1, <3>2, <3>3 DEF AddressShown
  <2> QED
    BY <1>0, <1>1, <1>6, <2>1, <2>2, GoesShown
<1>7. CASE OpenRecord
  <2>1. orderly /\ UNCHANGED results /\ Stay(Elsewhere("metadata"), FALSE)
    BY <1>7 DEF OpenRecord, Waits, Click
  <2>2. Elsewhere("metadata") \in Address /\ Elsewhere("metadata").path # "search"
    BY ElsewhereIs DEF Paths, Elsewhere
  <2> QED
    BY <1>6, <2>1, <2>2
<1>8. CASE CloseRecord
  <2>1. orderly /\ UNCHANGED results /\ url.path = "metadata"
    BY <1>8 DEF CloseRecord, Waits, Click
  <2>2. CASE origin = "search"
    <3>1. Stay(leftParams, text.left)
      BY <1>8, <2>2 DEF CloseRecord
    <3>2. leftParams = LeftAfter(leftParams)
      BY <2>1, <2>2 DEF OrderInv, LeftInv, LeftAfter, Leaves
    <3> QED
      BY <1>0, <1>6, <2>1, <3>1, <3>2
  <2>3. CASE origin # "search"
    <3>1. Stay(Elsewhere(origin), FALSE)
      BY <1>8, <2>3 DEF CloseRecord
    <3>2. Elsewhere(origin) \in Address /\ Elsewhere(origin).path # "search"
      BY <2>3, ElsewhereIs DEF TypeInv, FormTypeOK, Elsewhere
    <3> QED
      BY <1>6, <2>1, <3>1, <3>2
  <2> QED
    BY <2>2, <2>3
<1>9. CASE \E u \in visited : GoTo(u)
  <2>1. PICK u \in visited : GoTo(u)
    BY <1>9
  <2>2. /\ orderly /\ UNCHANGED results /\ Stay(u, u.from # 0)
        /\ current = <<>> /\ facetsParams = {}
    BY <2>1 DEF GoTo, Click
  <2>3. IsFormed(u, current, facetsParams)
    BY <2>2, NoneKept DEF IsFormed, FacetsOf, PlainFacets
  <2> QED
    BY <1>0, <1>6, <2>2, <2>3
<1>10. CASE Restored
  BY <1>3, <1>10 DEF Restored, formVars, resultVars, historyVars
<1>11. CASE \/ \E r \in Shown : Select(r)
            \/ \E on \in BOOLEAN : SelectPage(on)
  <2>1. \E name, records, on : Check(name, records, on) /\ records \subseteq Records
    BY <1>11, ShownIs DEF Select, SelectPage
  <2>2. PICK name, records, on : Check(name, records, on) /\ records \subseteq Records
    BY <2>1
  <2>3. results \in Results
    BY <1>0, <2>2 DEF Check
  <2>4. PICK checked : checked = IF on THEN results.checked \cup records
                                       ELSE results.checked \ records
    OBVIOUS
  <2>5. checked \in SUBSET Records
    BY <2>2, <2>3, <2>4 DEF Results
  <2>6. results' = [results EXCEPT !.checked = checked]
    BY <2>2, <2>4 DEF Check
  <2>7. results' \in Results /\ results'.of = results.of
    BY <2>3, <2>5, <2>6, CheckedTyped DEF Results
  <2>8. \E kind, ids : kind # "search" /\ Ask(kind, ids)
    BY <2>2 DEF Check
  <2>9. orderly /\ UNCHANGED <<url, latest, params, current, skipped>>
    BY <2>2 DEF Check, Waits, formVars, addressVars
  <2>10. results' # None
    BY <2>7, NoneAssumption
  <2>11. Coming => Coming'
    BY <2>7, <2>8, <2>9, <2>10, AskShown
  <2> QED
    BY <1>2, <2>9, <2>11
<1>12. CASE SelectAll \/ SelectNone
  <2>1. PICK name : SelectionClick(name)
    BY <1>12 DEF SelectAll, SelectNone
  <2>2. \E kind, ids : kind # "search" /\ Ask(kind, ids)
    BY <1>12 DEF SelectAll, SelectNone
  <2>3. /\ orderly /\ UNCHANGED <<url, latest, params, current, skipped, results>>
        /\ results # None
    BY <2>1 DEF SelectionClick, Click, Waits, formVars, addressVars
  <2>4. Coming => Coming'
    BY <2>2, <2>3, AskShown
  <2> QED
    BY <1>2, <2>3, <2>4
<1>13. CASE OtherSearch \/ \E r \in requests : Fail(r)
  BY <1>13 DEF OtherSearch, Fail
<1>14. CASE \E r \in requests : Handle(r)
  <2>1. PICK r \in requests : Handle(r)
    BY <1>14
  <2>2. orderly /\ UNCHANGED <<url, latest, params, current, skipped, results>>
    BY <2>1 DEF Handle, formVars, resultVars, addressVars, historyVars
  <2>3. PICK answer : Answered(r, answer)
    BY <2>1 DEF Handle, HandleSearch, HandleSelection, SelectAllFails
  <2>4. r \in Request /\ DOMAIN r = Names
    BY RequestIs DEF TypeInv, FormTypeOK
  <2>5. PICK q : q = [r EXCEPT !.stage = "handled", !.answer = answer]
    OBVIOUS
  <2>6. DOMAIN q = Names /\ q.kind = r.kind /\ q.search = r.search
    BY <2>4, <2>5 DEF Names
  <2>7. requests' = With(requests \ {r}, q) /\ IsFiniteSet(requests \ {r})
    BY <1>0, <2>3, <2>5, FS_RemoveElement DEF Answered
  <2>8. PICK x : Alike(x, q) /\ With(requests \ {r}, q) = (requests \ {r}) \cup {x}
    BY <2>6, <2>7, WithIsNew
  <2>9. x.kind = r.kind /\ x.search = r.search
    BY <2>6, <2>8, AlikeIs
  <2>10. Coming => Coming'
    <3>1. ASSUME NEW y \in requests, y.kind = "search", y.search = latest PROVE Coming'
      <4>1. CASE y = r
        BY <2>2, <2>7, <2>8, <2>9, <3>1, <4>1 DEF Coming
      <4>2. CASE y # r
        BY <2>2, <2>7, <2>8, <3>1, <4>2 DEF Coming
      <4> QED
        BY <4>1, <4>2
    <3>2. ASSUME \A y \in requests : y.kind # "search", results # None, results.of = latest
          PROVE  Coming'
      BY <2>2, <2>7, <2>8, <2>9, <3>2 DEF Coming
    <3> QED
      BY <3>1, <3>2 DEF Coming
  <2> QED
    BY <1>2, <2>2, <2>10
<1>15. CASE \E r \in requests : Receive(r)
  <2>1. PICK r \in requests : Receive(r)
    BY <1>15
  <2>2. orderly /\ UNCHANGED <<url, latest, params, current, skipped>> /\ requests' = requests \ {r}
    BY <2>1 DEF Receive, addressVars
  <2>3. requests = {r}
    BY <2>2 DEF OrderInv, Settled
  <2>4. requests' = {}
    BY <2>2, <2>3
  <2>6. Coming => Coming'
    <3>1. CASE ReceiveSearch(r)
      <4>1. r.search \in Search /\ r.answer \subseteq Records
        BY <3>1, RequestIs DEF ReceiveSearch, TypeInv, FormTypeOK, Sent
      <4>2. results' \in Results /\ results'.of = r.search
        BY <3>1, <4>1 DEF ReceiveSearch, Results
      <4>3. Coming => r.search = latest
        BY <2>3, <3>1 DEF Coming, ReceiveSearch
      <4> QED
        BY <2>2, <2>4, <4>2, <4>3, NoneAssumption DEF Coming
    <3>2. CASE ReceiveSelection(r)
      <4>1. results \in Results
        BY <3>2 DEF ReceiveSelection, TypeInv, Sent
      <4>2. results' \in Results /\ results'.of = results.of
        <5>1. Shown \in SUBSET Records /\ {} \in SUBSET Records
          BY ShownIs
        <5>2. \/ results' = results
              \/ \E checked \in SUBSET Records : results' = [results EXCEPT !.checked = checked]
          BY <3>2, <5>1 DEF ReceiveSelection
        <5> QED
          BY <4>1, <5>2, CheckedTyped DEF Results
      <4>3. Coming => results.of = latest
        BY <2>3, <3>2 DEF Coming, ReceiveSelection
      <4> QED
        BY <2>2, <2>4, <4>2, <4>3, NoneAssumption DEF Coming
    <3> QED
      BY <2>1, <3>1, <3>2 DEF Receive
  <2> QED
    BY <1>2, <2>2, <2>6
<1> QED
  BY <1>4, <1>5, <1>7, <1>8, <1>9, <1>10, <1>11, <1>12, <1>13, <1>14, <1>15 DEF Next, Searching

LEMMA OrderNext == TypeInv /\ SearchInv /\ OrderInv /\ [Next]_vars => OrderInv'
<1> SUFFICES ASSUME TypeInv, SearchInv, OrderInv, [Next]_vars PROVE OrderInv'
  OBVIOUS
<1>1. LeftInv'
  BY LeftNext DEF OrderInv
<1>2. orderly' => Settled'
  BY SettledNext
<1>3. orderly' /\ ~skipped' => AddressShown'
  BY ShownNext
<1> QED
  BY <1>1, <1>2, <1>3 DEF OrderInv

LEMMA OrderHolds == SearchSpec => [](TypeInv /\ OrderInv)
<1>1. OrderInv /\ (SearchInv /\ TypeInv) /\ [Next]_vars => OrderInv'
  BY OrderNext
<1> QED
  BY <1>1, OrderInit, TypesHold, PTL DEF SearchSpec

\* Whoever waits for every answer sees the results of the search that the address
\* bar holds, through facets, pages, records opened and closed, and the history
\* of the browser as long as no facet is used (SearchFormDirective.js,
\* LocationService.js).
THEOREM ResultsFollowAddress == SearchSpec => []ResultsAreOfAddress
<1>1. TypeInv /\ OrderInv => ResultsAreOfAddress
  BY OrderImplies
<1> QED
  BY <1>1, OrderHolds, PTL

\* Whoever waits for every answer sees how many records the session has selected;
\* every selected record that is shown is checked, and no other one until add-all
\* leaves out a record that is shown, by its limit or by an exception that is
\* caught (SelectionDirective.js, SelectionManager).
THEOREM SelectionIsShown == SearchSpec => []SelectionAgrees
<1>1. TypeInv /\ OrderInv => SelectionAgrees
  BY OrderImplies
<1> QED
  BY <1>1, OrderHolds, PTL

=============================================================================
