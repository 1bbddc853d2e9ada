---------------------------- MODULE MCHarvestPage ----------------------------
(* Instances of HarvestPage for TLC: up to two or three harvesters.          *)
EXTENDS HarvestPage
CONSTANTS h1, h2, h3

OneHarvester    == {h1}
TwoHarvesters   == {h1, h2}
ThreeHarvesters == {h1, h2, h3}
==============================================================================
