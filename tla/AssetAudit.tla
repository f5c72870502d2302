---- MODULE AssetAudit ----
(* Physical audits of serialized assets (inventory/serialized_audit.py), their  *)
(* findings (audit_findings.py) and the corrections these lead to               *)
(* (audit_corrections.py). An audit compares what is scanned with a snapshot of *)
(* the ledger, taken when it was opened; the ledger goes on changing.           *)
EXTENDS AssetLedger, Sequences

CONSTANTS Audits, MaxScans

VARIABLES audit,    \* inventory_asset_audits and ..._expected
          scans,    \* inventory_asset_audit_scans, in the order of scanned_at
          finding   \* inventory_asset_audit_findings, their corrections and last events

\* What a scanner reads: an asset carries its id and its serial number, also one that
\* has not been received.
Values == Assets \X {"asset_id", "serial_number"}

\* finding_key
Keys == ({"missing", "misplaced"} \X Assets) \cup ({"unknown"} \X Values)

NoAudit == [status |-> "none", location |-> None, expected |-> {}]

NoFinding == [status |-> "none", from |-> None, to |-> None, corrected |-> FALSE,
              event |-> "none"]

AuditInit ==
    /\ audit = [d \in Audits |-> NoAudit]
    /\ scans = [d \in Audits |-> <<>>]
    /\ finding = [d \in Audits |-> [k \in Keys |-> NoFinding]]

--------------------------------------------------------------------------------
(* The audit *)

\* EXPECTED_STATUSES: in the ledger, and neither issued, lost nor disposed of.
ExpectedAt(l) == {a \in Assets : asset[a].status \in {"held", "service"} /\ asset[a].location = l}

\* open: one open audit per location.
OpenAudit(d, l) ==
    /\ audit[d] = NoAudit
    /\ \A e \in Audits : audit[e].status = "open" => audit[e].location # l
    /\ audit' = [audit EXCEPT ![d] =
         [status |-> "open", location |-> l, expected |-> ExpectedAt(l)]]
    /\ UNCHANGED <<asset, moves, scans, finding>>

\* The asset whose id or serial number was scanned, if it is in the ledger by now.
Known(value) == IF asset[value[1]] = Absent THEN None ELSE value[1]

\* The ledger of the moment is asked, not the snapshot.
JudgedByTheLedger(d, value) ==
    LET a == Known(value) IN
    IF a = None
    THEN [value |-> value, asset |-> None, result |-> "unknown", from |-> None]
    ELSE IF asset[a].location = audit[d].location
    THEN [value |-> value, asset |-> a, result |-> "matched", from |-> audit[d].location]
    ELSE [value |-> value, asset |-> a, result |-> "misplaced", from |-> asset[a].location]

\* The row of a scan: matched if the snapshot expects the asset, else misplaced, from
\* where the ledger says it is now, and unknown if the ledger does not have it.
Judged(d, value) ==
    LET a == Known(value) IN
    IF a = None
    THEN [value |-> value, asset |-> None, result |-> "unknown", from |-> None]
    ELSE IF a \in audit[d].expected
    THEN [value |-> value, asset |-> a, result |-> "matched", from |-> audit[d].location]
    ELSE [value |-> value, asset |-> a, result |-> "misplaced", from |-> asset[a].location]

\* An audit is scanned for also after it was closed.
ScanAnyTime(d, value) ==
    /\ audit[d].status # "none"
    /\ Len(scans[d]) < MaxScans
    /\ \A i \in DOMAIN scans[d] : scans[d][i].value # value
    /\ scans' = [scans EXCEPT ![d] = Append(@, Judged(d, value))]
    /\ UNCHANGED <<asset, moves, audit, finding>>

\* scan: a value once per audit.
Scan(d, value) ==
    /\ audit[d].status = "open"
    /\ Len(scans[d]) < MaxScans
    /\ \A i \in DOMAIN scans[d] : scans[d][i].value # value
    /\ scans' = [scans EXCEPT ![d] = Append(@, Judged(d, value))]
    /\ UNCHANGED <<asset, moves, audit, finding>>

\* close
CloseAudit(d) ==
    /\ audit[d].status = "open"
    /\ audit' = [audit EXCEPT ![d].status = "closed"]
    /\ UNCHANGED <<asset, moves, scans, finding>>

--------------------------------------------------------------------------------
(* Findings *)

Scanned(d, result) ==
    {scans[d][i].asset : i \in {j \in DOMAIN scans[d] : scans[d][j].result = result}}

\* result: what is missing was expected and not matched.
Missing(d) == audit[d].expected \ Scanned(d, "matched")

Misplaced(d) == Scanned(d, "misplaced")

Unknown(d) ==
    {scans[d][i].value : i \in {j \in DOMAIN scans[d] : scans[d][j].result = "unknown"}}

\* scan_by_asset: the last scan of the asset.
LastScan(d, a) ==
    scans[d][CHOOSE i \in DOMAIN scans[d] :
               /\ scans[d][i].asset = a
               /\ \A j \in DOMAIN scans[d] : scans[d][j].asset = a => j <= i]

Found(d) ==
    ({"missing"} \X Missing(d)) \cup ({"misplaced"} \X Misplaced(d))
        \cup ({"unknown"} \X Unknown(d))

NewFinding(d, k) ==
    [NoFinding EXCEPT
        !.status = "open",
        !.event = "created",
        !.from = CASE k[1] = "missing" -> audit[d].location
                   [] k[1] = "misplaced" -> LastScan(d, k[2]).from
                   [] OTHER -> None,
        !.to = IF k[1] = "missing" THEN None ELSE audit[d].location]

\* Rows are replaced.
MaterializedAnew(d, k) == IF k \in Found(d) THEN NewFinding(d, k) ELSE finding[d][k]

\* _insert_finding: INSERT OR IGNORE, by audit and key.
Materialized(d, k) ==
    IF k \in Found(d) /\ finding[d][k] = NoFinding THEN NewFinding(d, k) ELSE finding[d][k]

\* materialize, as often as the command is given; also of an audit without findings.
Materialize(d) ==
    /\ audit[d].status = "closed"
    /\ finding' = [finding EXCEPT ![d] = [k \in Keys |-> Materialized(d, k)]]
    /\ UNCHANGED <<asset, moves, audit, scans>>

\* resolve, with any resolution type but a correction of its own.
Resolve(d, k) ==
    /\ finding[d][k].status = "open"
    /\ finding' = [finding EXCEPT ![d][k].status = "resolved", ![d][k].event = "resolved"]
    /\ UNCHANGED <<asset, moves, audit, scans>>

\* reopen: the correction it was resolved by, if there was one, stays.
Reopen(d, k) ==
    /\ finding[d][k].status = "resolved"
    /\ finding' = [finding EXCEPT ![d][k].status = "open", ![d][k].event = "reopened"]
    /\ UNCHANGED <<asset, moves, audit, scans>>

--------------------------------------------------------------------------------
(* Corrections *)

\* A finding is corrected as often as it is opened again.
CorrectableAgain(d, k) == finding[d][k].status = "open"

\* _require_open and _ensure_no_correction: once per finding, also if it is reopened.
Correctable(d, k) == finding[d][k].status = "open" /\ ~ finding[d][k].corrected

Corrected(d, k) ==
    [finding EXCEPT ![d][k].status = "resolved", ![d][k].event = "corrected",
                    ![d][k].corrected = TRUE]

\* relocate: to where the asset was scanned, or to another active location,
\* whatever its row says by now.
Relocate(d, a) ==
    LET k == <<"misplaced", a>> IN
    /\ Correctable(d, k)
    /\ \E l \in Locations : asset' = [asset EXCEPT ![a].location = l]
    /\ finding' = Corrected(d, k)
    /\ UNCHANGED <<moves, audit, scans>>

\* start_lost_investigation marks the asset's metadata, dismiss_unknown_scan nothing.
CorrectOther(d, k) ==
    /\ k[1] # "misplaced"
    /\ Correctable(d, k)
    /\ finding' = Corrected(d, k)
    /\ UNCHANGED <<asset, moves, audit, scans>>

AuditStep ==
    \E d \in Audits :
        \/ \E l \in Locations : OpenAudit(d, l)
        \/ \E value \in Values : Scan(d, value)
        \/ CloseAudit(d)
        \/ Materialize(d)
        \/ \E k \in Keys : Resolve(d, k) \/ Reopen(d, k) \/ CorrectOther(d, k)
        \/ \E a \in Assets : Relocate(d, a)

--------------------------------------------------------------------------------
(* Properties *)

AuditTypeOK ==
    /\ asset \in [Assets -> Rows \cup {Absent}]
    /\ audit \in [Audits -> [status : {"none", "open", "closed"},
                             location : Locations \cup {None}, expected : SUBSET Assets]]
    /\ \A d \in Audits : \A i \in DOMAIN scans[d] :
         /\ scans[d][i].value \in Values
         /\ scans[d][i].asset \in Assets \cup {None}
         /\ scans[d][i].result \in {"matched", "misplaced", "unknown"}
         /\ scans[d][i].from \in Locations \cup {None}
    /\ finding \in [Audits -> [Keys ->
         [status : {"none", "open", "resolved"}, from : Locations \cup {None},
          to : Locations \cup {None}, corrected : BOOLEAN,
          event : {"none", "created", "resolved", "reopened", "corrected"}]]]

\* An audit never says of one asset both that it is missing and that it was found
\* elsewhere, and what it says of an asset was true of the snapshot: whatever moved
\* between the opening and the last scan, and however often it was scanned.
FindingsAgreeWithTheSnapshot ==
    \A d \in Audits, a \in Assets :
        /\ finding[d][<<"missing", a>>] # NoFinding =>
             /\ a \in audit[d].expected
             /\ \A i \in DOMAIN scans[d] : scans[d][i].asset # a
             /\ finding[d][<<"misplaced", a>>] = NoFinding
        /\ finding[d][<<"misplaced", a>>] # NoFinding =>
             /\ a \notin audit[d].expected
             /\ \E i \in DOMAIN scans[d] : scans[d][i].asset = a

\* The findings of an audit are its whole result and nothing else: none when it has not
\* been materialized, and from then on what the snapshot and the scans come to, however
\* often it is materialized again, whatever is decided about single findings, and
\* wherever the assets have gone since it was closed.
FindingsAreTheResult ==
    \A d \in Audits :
        LET recorded == {k \in Keys : finding[d][k] # NoFinding}
        IN recorded = {} \/ recorded = Found(d)

\* A finding's status is the one its last event left it in, and a correction, which
\* moved an asset or opened an investigation, is never unmentioned: the finding is
\* resolved by it, or has been reopened since.
StatusFollowsTheEvents ==
    \A d \in Audits, k \in Keys :
        /\ finding[d][k].status = "open" <=> finding[d][k].event \in {"created", "reopened"}
        /\ finding[d][k].corrected => finding[d][k].event \notin {"none", "created"}

\* What was recorded about a finding never changes, and nothing that was decided
\* about it is undone but by reopening it: materializing an audit again, or one
\* command after another on the same finding.
FindingsAreKept ==
    [][\A d \in Audits, k \in Keys : finding[d][k] # NoFinding =>
         /\ finding'[d][k].from = finding[d][k].from
         /\ finding'[d][k].to = finding[d][k].to
         /\ finding[d][k].corrected => finding'[d][k].corrected
         /\ finding[d][k].status = "resolved" /\ finding'[d][k].status = "open" =>
              finding'[d][k].event = "reopened"]_<<asset, audit, scans, finding>>

\* An audit moves an asset only by the one correction of a misplaced finding: no
\* finding ever moves its asset a second time, when it may have moved on long since.
OneRelocationPerFinding ==
    [][\A a \in Assets :
         asset'[a] # asset[a] /\ moves' = moves =>
           \E d \in Audits : LET k == <<"misplaced", a>> IN
             ~ finding[d][k].corrected /\ finding'[d][k].corrected]_<<asset, moves, audit, scans, finding>>
====
