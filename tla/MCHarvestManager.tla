------------------------- MODULE MCHarvestManager -------------------------
(***************************************************************************)
(* HarvestManager for TLC: model values for the sets.                      *)
(***************************************************************************)
EXTENDS HarvestManager, TLC

CONSTANTS h1, h2, r1, r2, f1, f2, x1

OneHarvester  == {h1}
TwoHarvesters == {h1, h2}
TwoRequests   == {r1, r2}
OneFiring     == {f1}
TwoFirings    == {f1, f2}
OneRecord     == {x1}

AllMethods    == {"start", "run", "stop", "invoke"}
AllOperations == {"add", "updateNode", "clear", "remove"}

Symmetry == Permutations(Requests) \cup Permutations(Firings)

=============================================================================
