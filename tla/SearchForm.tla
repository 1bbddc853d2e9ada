------------------------------ MODULE SearchForm ------------------------------
(***************************************************************************)
(* The search page: the form with its facets and its pages                 *)
(* (SearchFormDirective.js, FacetsService.js, PaginationDirective.js), the *)
(* address bar that every search goes through (LocationService.js), the    *)
(* selection (SelectionDirective.js), and what the HTTP session keeps of   *)
(* it: the last search and the selected records (XmlSearch,                *)
(* SelectionManager).                                                      *)
(*                                                                         *)
(* A click does not search: it changes the address, and the change of the  *)
(* address starts the search.  So do the browser's back button and its     *)
(* bookmarks.  Leaving the search for a record and coming back must not    *)
(* search again, for which the address that was left is remembered.        *)
(* Searches are not numbered: the answer that arrives last is shown.       *)
(***************************************************************************)
EXTENDS Integers, FiniteSets, SequencesExt

CONSTANTS
  Records,      \* numbers, in the order in which they are listed
  Queries,      \* what the form asks for, facets and page apart
  AnyQuery,     \* the query of the form that was reset
  Facets,       \* values of one facet
  Hits,         \* the records with a query or a facet
  PageSize,     \* hitsPerPage
  SelectionMax, \* the setting selectionManager/maxrecords
  Clicks,       \* what the user does
  MaxClicks,    \* bound: clicks
  MaxFailures,  \* bound: requests that fail
  None          \* no results, no last search

AllClicks == {"search", "reset", "facet", "page", "open", "close", "goto", "select",
              "selectPage", "selectAll", "selectNone", "other"}
Paths     == {"search", "home", "metadata"}
\* What the parameters hold besides: nothing, sortBy after a reset, or all that
\* triggerSearchFn puts there (fast, similarity, _content_type, sortBy).
Extras    == {"none", "sorted", "all"}
Kinds     == {"search", "add", "remove", "add-all", "remove-all"}

ASSUME RecordAssumption == Records \subseteq Nat /\ IsFiniteSet(Records)
ASSUME QueryAssumption  == AnyQuery \in Queries /\ Queries \cap Facets = {}
                           /\ Hits \in [Queries \cup Facets -> SUBSET Records]
ASSUME PageAssumption   == PageSize \in Nat \ {0} /\ SelectionMax \in Nat
ASSUME LimitAssumption  == /\ Clicks \subseteq AllClicks
                           /\ MaxClicks \in Nat /\ MaxFailures \in Nat

VARIABLES
  params,      \* $scope.searchObj.params: query, first record, facets not in current, more
  current,     \* $scope.currentFacets
  facetsParams,\* the facets that the last search was triggered with
  page, pages, \* paginationInfo.currentPage and .pages
  results,     \* $scope.searchResults: which search, which of its records are checked
  searching,   \* $scope.searching
  count,       \* searchResults.selectedCount
  url,         \* $location
  left,        \* gnSearchLocation.lastSearchUrl, None when it is ''
  leftParams,  \* the address that restoreSearch goes back to
  text,        \* are numbers text in $location.search(), state.current, lastSearchParams?
  origin,      \* gnMdViewObj.from: the last path that is no record's
  restoring,   \* the 100 ms after restoreSearch
  visited,     \* the browser's history, and bookmarks
  lastRequest, \* the session's SEARCH_REQUEST
  selection,   \* the session's SelectionManager
  requests,    \* not answered yet
  clicks, failures,  \* counted for the bounds
  latest,      \* history: the search that was sent last
  skipped,     \* history: was a search left out whose results are not coming?
  cut,         \* history: has add-all left out a record that is shown?
  orderly      \* history: see Click

formVars    == <<params, current, facetsParams, page, pages>>
resultVars  == <<results, searching, count>>
addressVars == <<url, left, leftParams, text, origin, restoring, visited>>
sessionVars == <<lastRequest, selection>>
historyVars == <<latest, skipped, cut, orderly>>
vars == <<formVars, resultVars, addressVars, sessionVars, requests, clicks, failures,
          historyVars>>

Search  == [q : Queries, facets : SUBSET Facets, from : Nat]
Params  == [q : Queries, facets : SUBSET Facets, from : Nat, extra : Extras]
Address == [path : Paths, q : Queries, facets : SUBSET Facets, from : Nat, extra : Extras]
Results == [of : Search, checked : SUBSET Records]
ASSUME NoneAssumption == None \notin Search /\ None \notin Results
Request == [n : Nat, kind : Kinds, search : Search \cup {None}, ids : SUBSET Records,
            stage : {"sent", "handled", "failed"}, answer : SUBSET Records]

FormTypeOK ==
  /\ params \in Params /\ current \in Seq(Facets) /\ facetsParams \subseteq Facets
  /\ page \in Nat \ {0} /\ pages \in Int
  /\ results \in Results \cup {None}
  /\ searching \in Nat /\ count \in Nat
  /\ url \in Address /\ left \in Address \cup {None} /\ leftParams \in Address
  /\ text \in [now : BOOLEAN, seen : BOOLEAN, left : BOOLEAN]
  /\ origin \in Paths \ {"metadata"}
  /\ restoring \in BOOLEAN /\ visited \subseteq Address
  /\ lastRequest \in Search \cup {None} /\ selection \subseteq Records
  /\ requests \subseteq Request
  /\ clicks \in 0 .. MaxClicks /\ failures \in 0 .. MaxFailures
  /\ latest \in Search \cup {None} /\ skipped \in BOOLEAN
  /\ cut \in BOOLEAN /\ orderly \in BOOLEAN

----------------------------------------------------------------------------
\* Searches, pages and addresses.

Matches(s) == {r \in Hits[s.q] : \A f \in s.facets : r \in Hits[f]}
Position(r, set) == Cardinality({x \in set : x <= r})
\* The records from s.from to s.to.
PageOf(s) ==
  {r \in Matches(s) : Position(r, Matches(s)) \in s.from .. s.from + PageSize - 1}
Shown == IF results = None THEN {} ELSE PageOf(results.of)

FirstOf(p)   == (p - 1) * PageSize + 1
\* Mutant of PageFrom: pages counted from 0.
PageFromZero(n) == (n - 1) \div PageSize
PageFrom(n)  == (n - 1) \div PageSize + 1
\* Math.ceil(count / hitsPerPage)
PagesOf(s)   == (Cardinality(Matches(s)) + PageSize - 1) \div PageSize

SearchAddress(p) ==
  [path |-> "search", q |-> p.q, facets |-> p.facets, from |-> p.from, extra |-> p.extra]
\* What parameters or an address search for; without pages it is the first one.
SearchOf(u)      == [q |-> u.q, facets |-> u.facets, from |-> IF u.from = 0 THEN 1 ELSE u.from]
Elsewhere(path)  ==
  [path |-> path, q |-> AnyQuery, facets |-> {}, from |-> 0, extra |-> "none"]
\* triggerSearchFn: the parameters of s, to which the default ones are added.
ParamsOf(s)      == [q |-> s.q, facets |-> s.facets, from |-> s.from, extra |-> "all"]

\* The facets that are sent: those of the list, which replace the others.
FacetsOf(list, plain) == IF list = <<>> THEN plain ELSE ToSet(list)

\* removeFacetsFromParams takes facets out of the list it goes through, so that
\* the one after a facet that is removed is not looked at.
Looked(list, facets) ==
  LET at[i \in DOMAIN list] == i = 1 \/ ~at[i - 1] \/ list[i - 1] \in facets
  IN  at
Kept(list, facets) ==
  LET at == Looked(list, facets)
      Stays(i) == list[i] \in facets \/ ~at[i]
      kept == {i \in DOMAIN list : Stays(i)}
  IN  [k \in 1 .. Cardinality(kept) |->
         list[CHOOSE i \in kept : Position(i, kept) = k]]

----------------------------------------------------------------------------
\* Requests.

Blank(kind) == [n |-> 1, kind |-> kind, search |-> None, ids |-> {}, stage |-> "sent",
                answer |-> {}]
\* One more request; those that are alike are told apart by a number.
With(pending, r) ==
  pending \cup {[r EXCEPT !.n = CHOOSE n \in 1 .. Cardinality(pending) + 1 :
                                   [r EXCEPT !.n = n] \notin pending]}
IsQuiet == requests = {}
Ask(kind, ids) == requests' = With(requests, [Blank(kind) EXCEPT !.ids = ids])

\* triggerSearchFn: the request for a search.
Sends(s) ==
  /\ requests' = With(requests, [Blank("search") EXCEPT !.search = s])
  /\ searching' = searching + 1
  /\ latest' = s

\* The search s was sent last, and its results are shown or will be.
IsComing(s) ==
  /\ latest = s
  /\ \/ results # None /\ results.of = s
     \/ \E r \in requests : r.kind = "search" /\ r.search = s

----------------------------------------------------------------------------
\* The address.

\* initSearchRouting, which runs before the listener of the form: the search that
\* is left is remembered.
Leaves(u)    == url.path = "search" /\ u.path # "search"
LeftAfter(u) == IF Leaves(u) THEN url ELSE left

\* Mutant of PlainFacets: those of the address are always forgotten.
NoPlainFacets(u, asked) == {}
\* The facets of the address that are no facets of the form, unless the last
\* search was triggered with some.
PlainFacets(u, asked) == IF asked = {} THEN u.facets ELSE {}

\* $locationChangeSuccess, when the form holds p, list and pg: a search, unless
\* it is the one that was left.  The numbers of u are text when asText.
GoesTo(u, asText, p, list, asked, pg) ==
  LET back  == u = LeftAfter(u)
      kept  == Kept(list, u.facets)
      plain == PlainFacets(u, asked)
  IN  /\ url' = u /\ visited' = visited \cup {u}
      /\ left' = LeftAfter(u)
      /\ leftParams' = IF Leaves(u) THEN url ELSE leftParams
      /\ text' = [now |-> asText, seen |-> asText,
                  left |-> IF Leaves(u) THEN text.seen ELSE text.left]
      /\ origin' = IF u.path = "metadata" THEN origin ELSE u.path
      /\ IF u.path = "search" /\ ~back
         THEN /\ params'  = ParamsOf([SearchOf(u) EXCEPT !.facets = plain])
              /\ current' = kept
              /\ page'    = IF u.from = 0 THEN 1 ELSE pg
              /\ Sends([SearchOf(u) EXCEPT !.facets = FacetsOf(kept, plain)])
              /\ UNCHANGED skipped
         ELSE /\ params' = p /\ current' = list /\ page' = pg
              /\ skipped' = (skipped \/ (u.path = "search" /\ ~IsComing(SearchOf(u))))
              /\ UNCHANGED <<requests, searching, latest>>

\* The search s again, at the address where the page is.
SendsAgain(p, s) ==
  /\ ~text.now
  /\ params' = ParamsOf(p)
  /\ Sends(s)
  /\ UNCHANGED <<text, skipped>>
\* The numbers of the parameters are not equal to the text of the address, and
\* setting the address to what it is already starts no search.
SendsNothing(p, s) ==
  /\ text.now
  /\ params' = p
  /\ text' = [text EXCEPT !.now = FALSE]
  /\ skipped' = (skipped \/ ~IsComing(s))
  /\ UNCHANGED <<requests, searching, latest>>

\* triggerSearch with the parameters p: a new address, or the search again.
Triggers(p, list, pg) ==
  LET asked == [p EXCEPT !.facets = FacetsOf(list, @)]
      u     == SearchAddress(asked)
  IN  /\ facetsParams' = ToSet(list)
      /\ \/ url # u /\ GoesTo(u, FALSE, p, list, ToSet(list), pg)
         \/ /\ url = u
            /\ SendsAgain(p, SearchOf(asked)) \/ SendsNothing(p, SearchOf(asked))
            /\ current' = list /\ page' = pg
            /\ UNCHANGED <<url, visited, left, leftParams, origin>>

----------------------------------------------------------------------------
\* Addresses that are known before the first click: a query alone, or with all
\* that a search adds to it.
Bookmarks == {[Elsewhere("search") EXCEPT !.q = q] : q \in Queries} \cup
             {SearchAddress(ParamsOf([q |-> q, facets |-> {}, from |-> 1])) : q \in Queries}
Init ==
  /\ params = [q |-> AnyQuery, facets |-> {}, from |-> 1, extra |-> "none"]
  /\ current = <<>> /\ facetsParams = {}
  /\ page = 1 /\ pages = -1
  /\ results = None /\ searching = 0 /\ count = 0
  /\ url = Elsewhere("home") /\ left = None /\ leftParams = SearchAddress(params)
  /\ text = [now |-> FALSE, seen |-> FALSE, left |-> FALSE] /\ origin = "home"
  /\ restoring = FALSE
  /\ visited \in {{Elsewhere("home"), u} : u \in Bookmarks}
  /\ lastRequest = None /\ selection = {}
  /\ requests = {} /\ clicks = 0 /\ failures = 0
  /\ latest = None /\ skipped = FALSE /\ cut = FALSE /\ orderly = TRUE

\* A click, never within 100 ms of coming back from a record.  An orderly user
\* waits for every answer before the next click.
Click(name) ==
  /\ name \in Clicks /\ clicks < MaxClicks /\ ~restoring
  /\ clicks' = clicks + 1
  /\ UNCHANGED <<pages, results, count, sessionVars, failures, cut>>
Waits == orderly' = (orderly /\ IsQuiet)

\* The search button of the form.
SearchFor(q) ==
  /\ Click("search") /\ Waits
  /\ Triggers([params EXCEPT !.q = q, !.from = 1], current, 1)
  /\ UNCHANGED restoring
ResetSearch ==
  /\ Click("reset") /\ Waits
  /\ Triggers([q |-> AnyQuery, facets |-> {}, from |-> 1, extra |-> "sorted"], <<>>, 1)
  /\ UNCHANGED restoring

\* A facet of the results, or of the breadcrumb.
AddFacet(f) ==
  /\ Click("facet") /\ Waits
  /\ results # None /\ f \notin ToSet(current)
  /\ Triggers([params EXCEPT !.from = 1], Append(current, f), 1)
  /\ UNCHANGED restoring
RemoveFacet(f) ==
  /\ Click("facet") /\ Waits
  /\ \E i \in DOMAIN current :
       current[i] = f /\ Triggers([params EXCEPT !.from = 1], RemoveAt(current, i), 1)
  /\ UNCHANGED restoring

\* next, previous, first and last: any other page; the page number is that of
\* the click at once.
TurnTo(p) ==
  /\ Click("page") /\ Waits
  /\ p # page /\ p \in 1 .. pages
  /\ Triggers([params EXCEPT !.from = FirstOf(p)], current, p)
  /\ UNCHANGED restoring

Stay(u, asText) ==
  GoesTo(u, asText, params, current, facetsParams, page) /\ UNCHANGED facetsParams

\* A record of the results, or of those that the home page lists: its address
\* replaces that of the page.
OpenRecord ==
  /\ Click("open") /\ Waits
  /\ (url.path = "search" /\ Shown # {}) \/ url.path = "home"
  /\ Stay(Elsewhere("metadata"), FALSE)
  /\ UNCHANGED restoring

\* removeLocationUuid: back to the page from which the record was opened, by
\* restoreSearch if that is the search.
CloseRecord ==
  /\ Click("close") /\ Waits
  /\ url.path = "metadata"
  /\ IF origin = "search"
     THEN Stay(leftParams, text.left) /\ restoring' = TRUE
     ELSE Stay(Elsewhere(origin), FALSE) /\ UNCHANGED restoring
\* The 100 ms are over.
Restored ==
  /\ restoring
  /\ restoring' = FALSE /\ left' = None
  /\ UNCHANGED <<formVars, resultVars, url, leftParams, text, origin, visited, sessionVars,
                 requests, clicks, failures, historyVars>>

\* Back, forward, a bookmark: the browser's addresses are text.  An orderly user
\* does not after using facets.
GoTo(u) ==
  /\ Click("goto")
  /\ orderly' = (orderly /\ IsQuiet /\ current = <<>> /\ facetsParams = {})
  /\ u \in visited /\ u # url
  /\ Stay(u, u.from # 0)
  /\ UNCHANGED restoring

\* The check boxes of the records change before the session knows.
Check(name, records, on) ==
  /\ name \in Clicks /\ clicks < MaxClicks /\ ~restoring /\ clicks' = clicks + 1
  /\ Waits /\ results # None
  /\ results' = [results EXCEPT !.checked = IF on THEN @ \cup records ELSE @ \ records]
  /\ Ask(IF on THEN "add" ELSE "remove", records)
  /\ UNCHANGED <<formVars, searching, count, addressVars, sessionVars, failures, latest, skipped,
                 cut>>
Select(r)      == r \in Shown /\ Check("select", {r}, r \notin results.checked)
SelectPage(on) == Check("selectPage", Shown, on)

SelectionClick(name) ==
  /\ Click(name) /\ Waits /\ results # None
  /\ UNCHANGED <<formVars, searching, addressVars, latest, skipped>>
SelectAll  == SelectionClick("selectAll")  /\ Ask("add-all", {})
SelectNone == SelectionClick("selectNone") /\ Ask("remove-all", {})

\* Another window of the session searches, the home page does, or a record is
\* opened that is not among the results: all of them call the service q or qi.
OtherSearch ==
  /\ "other" \in Clicks /\ clicks < MaxClicks /\ clicks' = clicks + 1
  /\ \E q \in Queries : lastRequest' = [q |-> q, facets |-> {}, from |-> 1]
  /\ orderly' = FALSE
  /\ UNCHANGED <<formVars, resultVars, addressVars, selection, requests, failures,
                 latest, skipped, cut>>

----------------------------------------------------------------------------
\* The server.

Answered(r, answer) ==
  requests' = With(requests \ {r}, [r EXCEPT !.stage = "handled", !.answer = answer])

\* XmlSearch.exec: the session keeps the search; the answer says which records
\* are selected.
HandleSearch(r) ==
  /\ r.kind = "search"
  /\ lastRequest' = r.search
  /\ Answered(r, PageOf(r.search) \cap selection)
  /\ UNCHANGED <<selection, failures>>

\* selectAll: those that the last search of the session lists first.
AllSelected ==
  LET all == IF lastRequest = None THEN {} ELSE Matches(lastRequest)
  IN  {r \in all : Position(r, all) <= SelectionMax}
\* Mutant of SelectedBy: the records of the search are added to the selection.
SelectedOnTop(r) ==
  CASE r.kind = "add"     -> selection \cup r.ids
    [] r.kind = "remove"  -> selection \ r.ids
    [] r.kind = "add-all" -> selection \cup AllSelected
    [] OTHER              -> selection
\* SelectionManager.updateSelection
SelectedBy(r) ==
  CASE r.kind = "add"     -> selection \cup r.ids
    [] r.kind = "remove"  -> selection \ r.ids
    [] r.kind = "add-all" -> AllSelected
    [] OTHER              -> {}
HandleSelection(r) ==
  /\ r.kind # "search"
  /\ selection' = SelectedBy(r)
  /\ Answered(r, SelectedBy(r))
  /\ UNCHANGED <<lastRequest, failures>>
\* The exception of a search is caught when the selection has been cleared, and
\* the answer is that of a request that succeeds.
SelectAllFails(r) ==
  /\ r.kind = "add-all"
  /\ failures < MaxFailures /\ failures' = failures + 1
  /\ selection' = {}
  /\ Answered(r, {})
  /\ UNCHANGED lastRequest

Handle(r) ==
  /\ r.stage = "sent"
  /\ HandleSearch(r) \/ HandleSelection(r) \/ SelectAllFails(r)
  /\ UNCHANGED <<formVars, resultVars, addressVars, clicks, historyVars>>

\* The request or its answer is lost, or the service fails.
Fail(r) ==
  /\ failures < MaxFailures /\ failures' = failures + 1
  /\ requests' = requests \ {r}
  /\ orderly' = FALSE
  /\ UNCHANGED <<formVars, resultVars, addressVars, sessionVars, clicks, latest, skipped, cut>>

----------------------------------------------------------------------------
\* The answers, at the page.

\* Mutant of PageAfter: the page of the form.
PageOfForm(s) == page
\* "Means the `from` and `to` params come from permalink"
PageAfter(s) == IF FirstOf(page) # s.from THEN PageFrom(s.from) ELSE page

\* The results are those of the answer, whichever search came last; the pages
\* are left alone when there are no results.
ReceiveSearch(r) ==
  /\ r.kind = "search"
  /\ searching' = searching - 1
  /\ results' = [of |-> r.search, checked |-> r.answer]
  /\ IF PageOf(r.search) = {}
     THEN UNCHANGED <<page, pages>>
     ELSE page' = PageAfter(r.search) /\ pages' = PagesOf(r.search)
  /\ cut' = FALSE
  /\ UNCHANGED count

\* The check boxes follow when all records or none are selected, those of the
\* records too that add-all has left out.
ReceiveSelection(r) ==
  /\ r.kind # "search"
  /\ count' = Cardinality(r.answer)
  /\ results' = CASE r.kind = "add-all"    -> [results EXCEPT !.checked = Shown]
                  [] r.kind = "remove-all" -> [results EXCEPT !.checked = {}]
                  [] OTHER                 -> results
  /\ cut' = CASE r.kind = "add-all"    -> ~(Shown \subseteq r.answer)
              [] r.kind = "remove-all" -> FALSE
              [] OTHER                 -> cut
  /\ UNCHANGED <<searching, page, pages>>

Receive(r) ==
  /\ r.stage = "handled"
  /\ ReceiveSearch(r) \/ ReceiveSelection(r)
  /\ requests' = requests \ {r}
  /\ UNCHANGED <<params, current, facetsParams, addressVars, sessionVars, clicks, failures,
                 latest, skipped, orderly>>

----------------------------------------------------------------------------
Next ==
  \/ \E q \in Queries : SearchFor(q)
  \/ ResetSearch
  \/ \E f \in Facets : AddFacet(f) \/ RemoveFacet(f)
  \/ \E p \in 1 .. pages : TurnTo(p)
  \/ OpenRecord \/ CloseRecord \/ Restored
  \/ \E u \in visited : GoTo(u)
  \/ \E r \in Shown : Select(r)
  \/ \E on \in BOOLEAN : SelectPage(on)
  \/ SelectAll \/ SelectNone \/ OtherSearch
  \/ \E r \in requests : Handle(r) \/ Receive(r) \/ Fail(r)

SearchSpec == Init /\ [][Next]_vars

----------------------------------------------------------------------------
\* Properties.

\* Whatever the order in which searches are answered, the page number, the
\* number of pages and the records shown belong together as soon as nothing is
\* loading, unless a search was skipped.
PaginationAgrees ==
  searching = 0 /\ ~skipped /\ Shown # {} =>
    /\ FirstOf(page) = results.of.from
    /\ pages = PagesOf(results.of)
    /\ page \in 1 .. pages

\* A user who waits for every answer sees the results of the search that the
\* address bar holds: through facets, pages, records opened and closed, and the
\* history of the browser as long as no facet is used.
ResultsAreOfAddress ==
  orderly /\ ~skipped /\ IsQuiet /\ url.path = "search" =>
    /\ results # None /\ searching = 0
    /\ results.of = SearchOf(url)
    /\ params.q = url.q /\ ToSet(current) \subseteq url.facets

\* A user who waits for every answer sees how many records the session has
\* selected; the box of every selected record that is shown is checked, and no
\* other one, until add-all leaves out a record that is shown.
SelectionAgrees ==
  orderly /\ IsQuiet /\ results # None =>
    /\ count = Cardinality(selection)
    /\ selection \cap Shown \subseteq results.checked
    /\ ~cut => results.checked \subseteq selection

\* "We are getting back to the search, no need to reload it"
\* (SearchFormDirective.js:192): a search is skipped only when its results are
\* those that are shown or being loaded.
SkippedIsShown ==
  [][url' # url /\ url'.path = "search" /\ requests' = requests
       => latest = SearchOf(url')]_vars
==============================================================================
