---------------------------- MODULE MCStorefront ----------------------------
(* Instances of Storefront for TLC: two tabs, two products.                  *)
EXTENDS Storefront, TLC

CONSTANTS t1, t2, soap, tea

MCStock == soap :> 1 @@ tea :> 2
AnyTab == Permutations(Tabs)
=============================================================================
