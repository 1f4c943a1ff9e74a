---------------------------- MODULE MCFloorSizes ----------------------------
(* Whole, half and odd changes, over levels that reach two contracts.      *)
EXTENDS FloorSizes
MCChanges == {-130, -100, -50, -1, 1, 50, 100, 130}
=============================================================================
