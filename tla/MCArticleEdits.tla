---- MODULE MCArticleEdits ----
EXTENDS ArticleEdits, TLC

CONSTANTS t0, t1

\* The uploaded text fits one batch of embeddings, the edited one needs two.
BatchesOf == t0 :> 1 @@ t1 :> 2

Symmetry == Permutations(Users) \cup Permutations(Reviews) \cup Permutations(Requests)
====
