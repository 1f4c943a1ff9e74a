---------------------------- MODULE MCDiscovery -----------------------------
(* Three markets under two events, the first two in the series.  At first  *)
(* one is closed, and one is open under a word that is not the filter's.   *)
EXTENDS Discovery, TLC

MCEventOf == 1 :> 1 @@ 2 :> 1 @@ 3 :> 2
MCOpening == {1 :> "active" @@ 2 :> "closed" @@ 3 :> "open"}
=============================================================================
