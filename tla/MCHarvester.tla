---------------------------- MODULE MCHarvester ----------------------------
(***************************************************************************)
(* Harvester for TLC: model values for the sets, and the symmetry between  *)
(* requests, between firings and between records.                          *)
(***************************************************************************)
EXTENDS Harvester, TLC

CONSTANTS h1, r1, r2, r3, f1, f2, x1, x2

OneHarvester  == {h1}
TwoRequests   == {r1, r2}
ThreeRequests == {r1, r2, r3}
TwoFirings    == {f1, f2}
TwoRecords    == {x1, x2}
OneRecord     == {x1}

AllMethods    == {"start", "run", "stop", "invoke", "update", "destroy"}
\* The methods behind the buttons of the harvester page and its services.
PageMethods   == {"start", "run", "stop", "invoke", "update"}

Symmetry == Permutations(Requests) \cup Permutations(Firings) \cup Permutations(Records)

=============================================================================
