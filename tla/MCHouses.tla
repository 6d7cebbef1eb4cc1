----------------------------- MODULE MCHouses -----------------------------
EXTENDS Houses, TLC
CONSTANTS p1, p2
MCMoney == (p1 :> 1) @@ (p2 :> 0)
MCThings == (p1 :> 0) @@ (p2 :> 1)
=============================================================================
