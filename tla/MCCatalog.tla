-------------------------------- MODULE MCCatalog --------------------------------
(* Catalog with two pages of two tenants; the products are symmetric.       *)
EXTENDS Catalog, TLC

CONSTANTS p1, p2, t1, t2

TwoTenants == p1 :> t1 @@ p2 :> t2

Symmetry == Permutations(Ids)

===================================================================================
