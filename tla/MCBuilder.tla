----------------------------- MODULE MCBuilder -----------------------------
EXTENDS BuilderWorker, TLC

CONSTANTS m1, m2

\* A message of one thread, and one of another that hands a pull request off.
Threads == (m1 :> "T1") @@ (m2 :> "T2")
Handoffs == (m1 :> None) @@ (m2 :> "PR83")

\* No message of an instance is forgotten while its process runs.
ASSUME InstanceMessages == NoneForgotten
=============================================================================
