---- MODULE MCSupportThread ----
EXTENDS SupportThread, TLC

Symmetry == Permutations(Users) \union Permutations(Jobs) \union Permutations(Keys)
====
