\* Three records on pages of one; every click, and a failure.
SPECIFICATION SearchSpec
CONSTANTS
  q0 = q0  q1 = q1  f1 = f1  f2 = f2
  None = None
  Records <- ThreeRecords
  Queries <- TwoQueries
  AnyQuery = q0
  Facets <- TwoFacets
  Hits <- TwoFacetHits
  PageSize = 1
  SelectionMax = 2
  Clicks = {"search", "reset", "facet", "page", "open", "close", "goto", "select", "selectPage", "selectAll", "selectNone", "other"}
  MaxClicks = 4
  MaxFailures = 1
CHECK_DEADLOCK FALSE
INVARIANTS FormTypeOK PaginationAgrees ResultsAreOfAddress SelectionAgrees
