---- MODULE AssetChecks ----
(* Audits and service cases of the same assets, which move meanwhile.           *)
EXTENDS AssetAudit, ServiceCases

vars == <<asset, moves, audit, scans, finding, case>>

Init == LedgerInit /\ AuditInit /\ ServiceInit

Next ==
    \/ AuditStep /\ UNCHANGED case
    \/ ServiceStep /\ UNCHANGED <<audit, scans, finding>>
    \/ \E a \in Assets : Change(a) /\ UNCHANGED <<audit, scans, finding, case>>

Spec == Init /\ [][Next]_vars

\* Every row of the audits, the findings and the cases has a value the code gives it.
TypeOK == AuditTypeOK /\ ServiceTypeOK
====
