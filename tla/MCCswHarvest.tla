---------------------------- MODULE MCCswHarvest ----------------------------
(***************************************************************************)
(* CswHarvest for TLC: model values for the sets.  Nodes and uuids are     *)
(* interchangeable, but symmetry would be unsound with the liveness        *)
(* properties that both runs check.                                        *)
(***************************************************************************)
EXTENDS CswHarvest

CONSTANTS n1, n2, u1, u2

OneNode  == {n1}
TwoNodes == {n1, n2}
OneUuid  == {u1}
TwoUuids == {u1, u2}

=============================================================================
