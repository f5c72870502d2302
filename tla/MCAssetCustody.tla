--------------------------- MODULE MCAssetCustody ---------------------------
(***************************************************************************)
(* Instances of AssetCustody for TLC.                                      *)
(***************************************************************************)
EXTENDS AssetCustody, TLC

\* No module of the code tells the members of these sets apart.
Symmetry == Permutations(Assets) \union Permutations(Customers) \union
            Permutations(Locations) \union Permutations(Actors) \union
            Permutations(Corrections)
=============================================================================
