---- MODULE MCAssetChecks ----
EXTENDS AssetChecks, TLC

Symmetry == Permutations(Assets) \cup Permutations(Locations) \cup Permutations(Cases)
====
