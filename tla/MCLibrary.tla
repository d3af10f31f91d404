------------------------------ MODULE MCLibrary ------------------------------
(***************************************************************************)
(* The components that share no state with the streams, checked in one     *)
(* run: those of Library, the tree, or the rate limiter.                   *)
(***************************************************************************)
EXTENDS Library, MstTree, RateLimiter, TLC

VARIABLE part

partVars == <<libVars, mstVars, rateVars, part>>

PartInit ==
  /\ part \in {"library", "mst", "rate"}
  /\ LibInit /\ MstInit /\ RateInit
  /\ part # "library" => focus = "oauth"
  /\ part # "mst" => owner = "tree"

PartNext ==
  /\ \/ part = "library" /\ LibNext /\ UNCHANGED <<mstVars, rateVars>>
     \/ part = "mst" /\ MstNext /\ UNCHANGED <<libVars, rateVars>>
     \/ part = "rate" /\ RateNext /\ UNCHANGED <<libVars, mstVars>>
  /\ UNCHANGED part

PartSpec == PartInit /\ [][PartNext]_partVars

MCHeight == 1 :> 1 @@ 2 :> 0 @@ 3 :> 2 @@ 4 :> 0
MCPoints == 1 :> 1 @@ 2 :> 2 @@ 3 :> 1
MCDuration == 1 :> 1 @@ 2 :> 2 @@ 3 :> 2
=============================================================================
