---- MODULE AssetChecks_proofs ----
(* Proofs about AssetChecks, for any assets, locations, audits and cases, and   *)
(* any number of scans and of moves: the types, what the findings of an audit   *)
(* say of the snapshot, what is kept of them, that they are its whole result,   *)
(* and that an audit moves an asset once.                                       *)
EXTENDS AssetChecks, FiniteSetTheorems, TLAPS

--------------------------------------------------------------------------------
(* The invariant *)

LedgerSound == asset \in [Assets -> Rows \cup {Absent}] /\ moves \in Nat

AuditRows == [status : {"none", "open", "closed"}, location : Locations \cup {None},
              expected : SUBSET Assets]

ScanRows == [value : Values, asset : Assets \cup {None},
             result : {"matched", "misplaced", "unknown"}, from : Locations \cup {None}]

FindingRows == [status : {"none", "open", "resolved"}, from : Locations \cup {None},
                to : Locations \cup {None}, corrected : BOOLEAN,
                event : {"none", "created", "resolved", "reopened", "corrected"}]

\* What a scan says of an asset that the ledger has: whether the snapshot expects it.
ScanSound(ledger, expected, s) ==
    /\ s.result = "unknown" <=> s.asset = None
    /\ s.asset # None => /\ ledger[s.asset] # Absent
                         /\ s.result = "matched" <=> s.asset \in expected

IsLast(q, a, i) ==
    /\ q[i].asset = a
    /\ \A j \in DOMAIN q : q[j].asset = a => j <= i

\* An asset that was scanned has a last scan.
HasLast(q, a) ==
    (\E i \in DOMAIN q : q[i].asset = a) => \E i \in DOMAIN q : IsLast(q, a, i)

ScansSound(d) ==
    /\ scans[d] \in Seq(ScanRows)
    /\ \A i \in DOMAIN scans[d] : ScanSound(asset, audit[d].expected, scans[d][i])
    /\ \A a \in Assets : HasLast(scans[d], a)
    /\ audit[d].status = "none" => scans[d] = <<>>

AuditsSound ==
    /\ audit \in [Audits -> AuditRows]
    /\ scans \in [Audits -> Seq(ScanRows)]
    /\ \A d \in Audits : ScansSound(d)

\* Only a closed audit has findings, and what is misplaced is in the ledger.
FindingsSound ==
    /\ finding \in [Audits -> [Keys -> FindingRows]]
    /\ \A d \in Audits, k \in Keys :
         finding[d][k] # NoFinding =>
             /\ audit[d].status = "closed"
             /\ finding[d][k].status # "none"
             /\ \A a \in Assets : k = <<"misplaced", a>> => asset[a] # Absent
    /\ FindingsAgreeWithTheSnapshot
    /\ StatusFollowsTheEvents

CasesSound ==
    /\ ServiceTypeOK
    /\ \A c1, c2 \in Cases :
         /\ case[c1].status = "open" /\ case[c2].status = "open"
         /\ case[c1].asset = case[c2].asset
         => c1 = c2

Sound == LedgerSound /\ AuditsSound /\ FindingsSound /\ CasesSound

LEMMA SoundInit == Init => Sound
<1> SUFFICES ASSUME Init
             PROVE  Sound
  OBVIOUS
<1> USE DEF Init
<1>1. LedgerSound
  BY LedgerAssumption DEF LedgerInit, LedgerSound, Rows, LedgerStatuses
<1>2. AuditsSound
  <2>1. audit \in [Audits -> AuditRows] /\ scans \in [Audits -> Seq(ScanRows)]
    BY DEF AuditInit, AuditRows, NoAudit
  <2>2. ASSUME NEW d \in Audits
        PROVE  ScansSound(d)
    BY <2>2 DEF AuditInit, ScansSound, HasLast
  <2>3. QED
    BY <2>1, <2>2 DEF AuditsSound
<1>3. FindingsSound
  <2>1. NoFinding \in FindingRows /\ NoFinding.status = "none" /\ NoFinding.event = "none"
        /\ NoFinding.corrected = FALSE
    BY DEF NoFinding, FindingRows
  <2>2. \A d \in Audits, k \in Keys : finding[d][k] = NoFinding
    BY DEF AuditInit
  <2>3. finding \in [Audits -> [Keys -> FindingRows]]
    BY <2>1 DEF AuditInit
  <2>4. \A a \in Assets : <<"missing", a>> \in Keys /\ <<"misplaced", a>> \in Keys
    BY DEF Keys
  <2>5. FindingsAgreeWithTheSnapshot
    BY <2>2, <2>4 DEF FindingsAgreeWithTheSnapshot
  <2>6. StatusFollowsTheEvents
    BY <2>1, <2>2 DEF StatusFollowsTheEvents
  <2>7. QED
    BY <2>2, <2>3, <2>5, <2>6 DEF FindingsSound
<1>4. CasesSound
  BY DEF ServiceInit, CasesSound, ServiceTypeOK, NoCase
<1>5. QED
  BY <1>1, <1>2, <1>3, <1>4 DEF Sound

--------------------------------------------------------------------------------
(* The ledger moves *)

\* What the other services and a relocation do to the ledger: rows stay rows, and no
\* asset leaves it.
Moving ==
    /\ asset' \in [Assets -> Rows \cup {Absent}]
    /\ \A a \in Assets : asset[a] # Absent => asset'[a] # Absent

LEMMA RowsArePresent == Absent \notin Rows
  BY LedgerAssumption DEF Rows, Absent

LEMMA ChangeMoves ==
  ASSUME LedgerSound, NEW a \in Assets, Change(a)
  PROVE  Moving /\ moves' \in Nat /\ moves' # moves
<1>1. PICK row \in Rows : asset' = [asset EXCEPT ![a] = row]
  BY DEF Change, Changed
<1>2. Moving
  BY <1>1, RowsArePresent DEF Moving, LedgerSound
<1>3. QED
  BY <1>2 DEF Change, LedgerSound

LEMMA AuditsStandMoves ==
  ASSUME AuditsSound, Moving, UNCHANGED <<audit, scans>>
  PROVE  AuditsSound'
<1>1. ASSUME NEW d \in Audits
      PROVE  ScansSound(d)'
  <2>1. ScansSound(d)
    BY DEF AuditsSound
  <2>2. ASSUME NEW i \in DOMAIN scans[d]
        PROVE  ScanSound(asset', audit[d].expected, scans[d][i])
    <3>1. scans[d][i] \in ScanRows
      BY <2>1 DEF ScansSound
    <3>2. QED
      BY <2>1, <3>1 DEF ScansSound, ScanSound, ScanRows, Moving
  <2>3. QED
    BY <2>1, <2>2 DEF ScansSound
<1>2. QED
  BY <1>1 DEF AuditsSound

LEMMA FindingsStandMoves ==
  ASSUME FindingsSound, Moving, UNCHANGED <<audit, scans, finding>>
  PROVE  FindingsSound'
  BY DEF FindingsSound, Moving, FindingsAgreeWithTheSnapshot, StatusFollowsTheEvents

--------------------------------------------------------------------------------
(* Audits *)

LEMMA AgreementStays ==
  ASSUME FindingsAgreeWithTheSnapshot,
         \A d \in Audits, k \in Keys : finding'[d][k] # NoFinding =>
             finding[d][k] # NoFinding /\ audit'[d].expected = audit[d].expected
                 /\ scans'[d] = scans[d]
  PROVE  FindingsAgreeWithTheSnapshot'
<1> SUFFICES ASSUME NEW d \in Audits, NEW a \in Assets
             PROVE  /\ finding'[d][<<"missing", a>>] # NoFinding =>
                         /\ a \in audit'[d].expected
                         /\ \A i \in DOMAIN scans'[d] : scans'[d][i].asset # a
                         /\ finding'[d][<<"misplaced", a>>] = NoFinding
                    /\ finding'[d][<<"misplaced", a>>] # NoFinding =>
                         /\ a \notin audit'[d].expected
                         /\ \E i \in DOMAIN scans'[d] : scans'[d][i].asset = a
  BY DEF FindingsAgreeWithTheSnapshot
<1>1. <<"missing", a>> \in Keys /\ <<"misplaced", a>> \in Keys
  BY DEF Keys
<1>2. /\ finding[d][<<"missing", a>>] # NoFinding =>
           /\ a \in audit[d].expected
           /\ \A i \in DOMAIN scans[d] : scans[d][i].asset # a
           /\ finding[d][<<"misplaced", a>>] = NoFinding
      /\ finding[d][<<"misplaced", a>>] # NoFinding =>
           /\ a \notin audit[d].expected
           /\ \E i \in DOMAIN scans[d] : scans[d][i].asset = a
  BY DEF FindingsAgreeWithTheSnapshot
<1>3. CASE finding'[d][<<"missing", a>>] # NoFinding
  BY <1>1, <1>2, <1>3
<1>4. CASE finding'[d][<<"missing", a>>] = NoFinding
  BY <1>1, <1>2, <1>4
<1>5. QED
  BY <1>3, <1>4

LEMMA OpenStep ==
  ASSUME Sound, NEW d \in Audits, NEW l \in Locations, OpenAudit(d, l), UNCHANGED case
  PROVE  Sound'
<1> USE DEF Sound
<1>1. /\ audit[d].status = "none" /\ scans[d] = <<>>
      /\ audit' = [audit EXCEPT ![d] =
           [status |-> "open", location |-> l, expected |-> ExpectedAt(l)]]
      /\ UNCHANGED <<asset, moves, scans, finding>>
  BY DEF OpenAudit, NoAudit, AuditsSound, ScansSound
<1>2. /\ audit' \in [Audits -> AuditRows]
      /\ \A e \in Audits : e # d => audit'[e] = audit[e]
      /\ audit'[d].status = "open"
  BY <1>1 DEF AuditsSound, AuditRows, ExpectedAt
<1>3. AuditsSound'
  <2>1. ASSUME NEW e \in Audits
        PROVE  ScansSound(e)'
    <3>1. CASE e = d
      <4>1. scans'[d] = <<>>
        BY <1>1
      <4>2. DOMAIN <<>> = {} /\ <<>> \in Seq(ScanRows)
        OBVIOUS
      <4>3. QED
        BY <1>2, <3>1, <4>1, <4>2 DEF ScansSound, HasLast
    <3>2. CASE e # d
      BY <1>1, <1>2, <3>2 DEF ScansSound, AuditsSound
    <3>3. QED
      BY <3>1, <3>2
  <2>2. QED
    BY <1>1, <1>2, <2>1 DEF AuditsSound
<1>4. \A k \in Keys : finding[d][k] = NoFinding
  BY <1>1 DEF FindingsSound
<1>5. FindingsSound'
  <2>1. \A a \in Assets : <<"missing", a>> \in Keys /\ <<"misplaced", a>> \in Keys
    BY DEF Keys
  <2>2. FindingsAgreeWithTheSnapshot'
    <3>1. \A e \in Audits, k \in Keys : finding'[e][k] # NoFinding =>
            /\ finding[e][k] # NoFinding
            /\ audit'[e] = audit[e] /\ scans'[e] = scans[e]
      BY <1>1, <1>2, <1>4
    <3>2. QED
      BY <3>1, AgreementStays DEF FindingsSound
  <2>3. \A e \in Audits, k \in Keys : finding[e][k] # NoFinding => audit'[e] = audit[e]
    BY <1>2, <1>4
  <2>4. QED
    BY <1>1, <2>2, <2>3 DEF FindingsSound, StatusFollowsTheEvents
<1>6. QED
  BY <1>1, <1>3, <1>5 DEF LedgerSound, CasesSound, ServiceTypeOK

\* A closed audit keeps its snapshot and its scans.
LEMMA CloseStep ==
  ASSUME Sound, NEW d \in Audits, CloseAudit(d), UNCHANGED case
  PROVE  Sound'
<1> USE DEF Sound
<1>1. /\ audit[d].status = "open"
      /\ audit' = [audit EXCEPT ![d].status = "closed"]
      /\ UNCHANGED <<asset, moves, scans, finding>>
  BY DEF CloseAudit
<1>2. /\ audit' \in [Audits -> AuditRows]
      /\ \A e \in Audits : /\ audit'[e].expected = audit[e].expected
                           /\ audit[e].status = "closed" => audit'[e].status = "closed"
                           /\ audit'[e].status = "none" => audit[e].status = "none"
  BY <1>1 DEF AuditsSound, AuditRows
<1>3. AuditsSound'
  BY <1>1, <1>2 DEF AuditsSound, ScansSound
<1>4. FindingsSound'
  BY <1>1, <1>2 DEF FindingsSound, FindingsAgreeWithTheSnapshot, StatusFollowsTheEvents
<1>5. QED
  BY <1>1, <1>3, <1>4 DEF LedgerSound, CasesSound, ServiceTypeOK

\* A scan is judged by the snapshot, and is the last of its asset from then on.
LEMMA ScanStep ==
  ASSUME Sound, NEW d \in Audits, NEW value \in Values, Scan(d, value), UNCHANGED case
  PROVE  Sound'
<1> USE DEF Sound
<1> DEFINE s == Judged(d, value)
<1>1. /\ audit[d].status = "open"
      /\ scans' = [scans EXCEPT ![d] = Append(scans[d], s)]
      /\ UNCHANGED <<asset, moves, audit, finding>>
  BY DEF Scan
<1>2. Known(value) \in Assets \cup {None}
      /\ (Known(value) # None => asset[Known(value)] # Absent)
  BY DEF Known, Values
<1>3. s \in ScanRows /\ ScanSound(asset, audit[d].expected, s)
  <2>1. audit[d].location \in Locations \cup {None}
    BY DEF AuditsSound, AuditRows
  <2>2. Known(value) # None => asset[Known(value)].location \in Locations
    BY <1>2 DEF LedgerSound, Rows
  <2>3. CASE Known(value) = None
    BY <2>3 DEF Judged, ScanRows, ScanSound
  <2>4. CASE Known(value) # None /\ Known(value) \in audit[d].expected
    BY <1>2, <2>1, <2>4 DEF Judged, ScanRows, ScanSound
  <2>5. CASE Known(value) # None /\ Known(value) \notin audit[d].expected
    BY <1>2, <2>2, <2>5 DEF Judged, ScanRows, ScanSound
  <2>6. QED
    BY <2>3, <2>4, <2>5
<1> HIDE DEF s
<1>0. PICK n \in Nat : n = Len(scans[d])
  BY DEF AuditsSound
<1>4. /\ scans[d] \in Seq(ScanRows) /\ scans' \in [Audits -> Seq(ScanRows)]
      /\ Len(scans'[d]) = n + 1 /\ DOMAIN scans[d] = 1..n
      /\ DOMAIN scans'[d] = 1..(n + 1)
      /\ scans'[d][n + 1] = s /\ \A i \in 1..n : scans'[d][i] = scans[d][i]
      /\ \A e \in Audits : e # d => scans'[e] = scans[e]
  BY <1>1, <1>3, <1>0 DEF AuditsSound
<1>5. ScansSound(d)'
  <2>1. ScansSound(d)
    BY DEF AuditsSound
  <2>2. \A i \in DOMAIN scans'[d] : ScanSound(asset, audit[d].expected, scans'[d][i])
    BY <1>3, <1>4, <2>1 DEF ScansSound
  <2>3. ASSUME NEW a \in Assets
        PROVE  HasLast(scans'[d], a)
    <3>1. CASE s.asset = a
      <4>1. IsLast(scans'[d], a, n + 1)
        BY <1>4, <3>1 DEF IsLast
      <4>2. QED
        BY <1>4, <4>1 DEF HasLast
    <3>2. CASE s.asset # a
      <4>1. SUFFICES ASSUME NEW j \in 1..(n + 1), scans'[d][j].asset = a
                     PROVE  \E i \in 1..(n + 1) : IsLast(scans'[d], a, i)
        BY <1>4 DEF HasLast
      <4>2. j \in 1..n /\ scans[d][j].asset = a
        BY <1>4, <3>2, <4>1
      <4>3. PICK i \in 1..n : IsLast(scans[d], a, i)
        BY <1>4, <2>1, <4>2 DEF ScansSound, HasLast
      <4>4. IsLast(scans'[d], a, i)
        <5>1. scans'[d][i].asset = a
          BY <1>4, <4>3 DEF IsLast
        <5>2. ASSUME NEW m \in 1..(n + 1), scans'[d][m].asset = a
              PROVE  m <= i
          <6>1. m \in 1..n /\ scans[d][m].asset = a
            BY <1>4, <3>2, <5>2
          <6>2. QED
            BY <1>4, <4>3, <6>1 DEF IsLast
        <5>3. QED
          BY <1>4, <5>1, <5>2 DEF IsLast
      <4>5. QED
        BY <4>4
    <3>3. QED
      BY <3>1, <3>2
  <2>4. QED
    BY <1>1, <1>4, <2>2, <2>3 DEF ScansSound
<1>6. AuditsSound'
  <2>1. ASSUME NEW e \in Audits, e # d
        PROVE  ScansSound(e)'
    BY <1>1, <1>4, <2>1 DEF AuditsSound, ScansSound
  <2>2. QED
    BY <1>1, <1>4, <1>5, <2>1 DEF AuditsSound
<1>7. FindingsSound'
  <2>1. \A k \in Keys : finding[d][k] = NoFinding
    BY <1>1 DEF FindingsSound
  <2>2. \A a \in Assets : <<"missing", a>> \in Keys /\ <<"misplaced", a>> \in Keys
    BY DEF Keys
  <2>3. FindingsAgreeWithTheSnapshot'
    <3>1. \A e \in Audits, k \in Keys : finding'[e][k] # NoFinding =>
            /\ finding[e][k] # NoFinding
            /\ audit'[e] = audit[e] /\ scans'[e] = scans[e]
      BY <1>1, <1>4, <2>1
    <3>2. QED
      BY <3>1, AgreementStays DEF FindingsSound
  <2>4. QED
    BY <1>1, <2>3 DEF FindingsSound, StatusFollowsTheEvents
<1>8. QED
  BY <1>1, <1>6, <1>7 DEF LedgerSound, CasesSound, ServiceTypeOK

--------------------------------------------------------------------------------
(* Findings *)

\* A command that only decides about a finding there is: its place and the others
\* stay.
LEMMA DecideStep ==
  ASSUME FindingsSound, NEW d \in Audits, NEW k \in Keys, NEW row \in FindingRows,
         finding[d][k] # NoFinding, UNCHANGED <<audit, scans>>, Moving,
         finding' = [finding EXCEPT ![d][k] = row],
         row.status \in {"open", "resolved"},
         row.status = "open" <=> row.event \in {"created", "reopened"},
         row.corrected => row.event \notin {"none", "created"}
  PROVE  FindingsSound'
<1>1. finding' \in [Audits -> [Keys -> FindingRows]]
  BY DEF FindingsSound
<1>2. \A e \in Audits, h \in Keys :
        finding'[e][h] = finding[e][h] \/ (e = d /\ h = k /\ finding'[e][h] = row)
  <2>1. /\ finding'[d] = [finding[d] EXCEPT ![k] = row]
        /\ \A e \in Audits : e # d => finding'[e] = finding[e]
    BY DEF FindingsSound
  <2>2. finding[d] \in [Keys -> FindingRows]
    BY DEF FindingsSound
  <2>3. ASSUME NEW e \in Audits, NEW h \in Keys
        PROVE  finding'[e][h] = finding[e][h] \/ (e = d /\ h = k /\ finding'[e][h] = row)
    <3>1. CASE e = d /\ h = k
      BY <2>1, <2>2, <3>1
    <3>2. CASE e # d
      BY <2>1, <3>2
    <3>3. CASE e = d /\ h # k
      BY <2>1, <2>2, <3>3
    <3>4. QED
      BY <3>1, <3>2, <3>3
  <2>4. QED
    BY <2>3
<1>3. FindingsAgreeWithTheSnapshot'
  <2>1. \A e \in Audits, h \in Keys : finding'[e][h] # NoFinding =>
          /\ finding[e][h] # NoFinding
          /\ audit'[e].expected = audit[e].expected /\ scans'[e] = scans[e]
    BY <1>2
  <2>2. QED
    BY <2>1, AgreementStays DEF FindingsSound
<1>4. StatusFollowsTheEvents'
  BY <1>2 DEF FindingsSound, StatusFollowsTheEvents
<1>5. QED
  BY <1>1, <1>2, <1>3, <1>4 DEF FindingsSound, Moving

LEMMA NoFindingIsNone ==
  NoFinding \in FindingRows /\ NoFinding.status = "none" /\ NoFinding.corrected = FALSE
      /\ NoFinding.event = "none"
  BY DEF NoFinding, FindingRows

LEMMA ResolveStep ==
  ASSUME Sound, NEW d \in Audits, NEW k \in Keys, Resolve(d, k) \/ Reopen(d, k),
         UNCHANGED case
  PROVE  Sound'
<1> USE DEF Sound
<1>1. PICK row \in FindingRows :
        /\ finding[d][k].status # "none"
        /\ finding' = [finding EXCEPT ![d][k] = row]
        /\ row.status \in {"open", "resolved"}
        /\ row.status = "open" <=> row.event \in {"created", "reopened"}
        /\ row.event \notin {"none", "created"}
  <2>1. finding[d][k] \in FindingRows
    BY DEF FindingsSound
  <2>2. CASE Resolve(d, k)
    <3> DEFINE row == [finding[d][k] EXCEPT !.status = "resolved", !.event = "resolved"]
    <3>1. row \in FindingRows /\ row.status = "resolved" /\ row.event = "resolved"
      BY <2>1 DEF FindingRows
    <3>2. finding' = [finding EXCEPT ![d][k] = row] /\ finding[d][k].status # "none"
      BY <2>2 DEF Resolve
    <3>3. QED
      BY <3>1, <3>2
  <2>3. CASE Reopen(d, k)
    <3> DEFINE row == [finding[d][k] EXCEPT !.status = "open", !.event = "reopened"]
    <3>1. row \in FindingRows /\ row.status = "open" /\ row.event = "reopened"
      BY <2>1 DEF FindingRows
    <3>2. finding' = [finding EXCEPT ![d][k] = row] /\ finding[d][k].status # "none"
      BY <2>3 DEF Reopen
    <3>3. QED
      BY <3>1, <3>2
  <2>4. QED
    BY <2>2, <2>3
<1>2. UNCHANGED <<asset, moves, audit, scans>>
  BY DEF Resolve, Reopen
<1>3. FindingsSound'
  BY <1>1, <1>2, DecideStep, NoFindingIsNone DEF LedgerSound, Moving
<1>4. AuditsSound'
  BY <1>2, AuditsStandMoves DEF LedgerSound, Moving
<1>5. QED
  BY <1>2, <1>3, <1>4 DEF LedgerSound, CasesSound, ServiceTypeOK

\* A correction resolves its finding; a relocation gives the asset another place.
LEMMA CorrectStep ==
  ASSUME Sound, NEW d \in Audits, NEW k \in Keys, Correctable(d, k),
         finding' = Corrected(d, k), Moving, UNCHANGED <<moves, audit, scans, case>>
  PROVE  Sound'
<1> USE DEF Sound
<1> DEFINE row == [finding[d][k] EXCEPT !.status = "resolved", !.event = "corrected",
                                        !.corrected = TRUE]
<1>1. finding' = [finding EXCEPT ![d][k] = row] /\ finding[d][k].status = "open"
  BY DEF Corrected, Correctable
<1>2. row \in FindingRows /\ row.status = "resolved" /\ row.event = "corrected"
  <2>1. finding[d][k] \in FindingRows
    BY DEF FindingsSound
  <2>2. QED
    BY <2>1 DEF FindingRows
<1>3. FindingsSound'
  BY <1>1, <1>2, DecideStep, NoFindingIsNone
<1>4. AuditsSound'
  BY AuditsStandMoves
<1>5. QED
  BY <1>3, <1>4 DEF LedgerSound, Moving, CasesSound, ServiceTypeOK

LEMMA RelocateMoves ==
  ASSUME Sound, NEW d \in Audits, NEW a \in Assets, Relocate(d, a)
  PROVE  Moving /\ <<"misplaced", a>> \in Keys
<1> USE DEF Sound
<1>1. <<"misplaced", a>> \in Keys
  BY DEF Keys
<1>2. finding[d][<<"misplaced", a>>] # NoFinding
  BY NoFindingIsNone DEF Relocate, Correctable
<1>3. asset[a] \in Rows
  BY <1>1, <1>2 DEF FindingsSound, LedgerSound
<1>4. PICK l \in Locations : asset' = [asset EXCEPT ![a].location = l]
  BY DEF Relocate
<1>5. [asset[a] EXCEPT !.location = l] \in Rows
  BY <1>3 DEF Rows
<1>6. asset' = [asset EXCEPT ![a] = [asset[a] EXCEPT !.location = l]]
  BY <1>4
<1>7. Moving
  BY <1>5, <1>6, RowsArePresent DEF Moving, LedgerSound
<1>8. QED
  BY <1>1, <1>7

--------------------------------------------------------------------------------
(* Materializing *)

\* What a scan says of an asset that was found elsewhere.
LEMMA MisplacedScan ==
  ASSUME Sound, NEW d \in Audits, NEW a \in Misplaced(d)
  PROVE  /\ a \in Assets /\ a \notin audit[d].expected /\ asset[a] # Absent
         /\ \E i \in DOMAIN scans[d] : scans[d][i].asset = a
         /\ LastScan(d, a).from \in Locations \cup {None}
<1> USE DEF Sound
<1>1. PICK i \in DOMAIN scans[d] : scans[d][i].result = "misplaced" /\ scans[d][i].asset = a
  BY DEF Misplaced, Scanned
<1>2. /\ \A j \in DOMAIN scans[d] : scans[d][j] \in ScanRows
      /\ ScanSound(asset, audit[d].expected, scans[d][i])
  BY DEF AuditsSound, ScansSound
<1>3. a \in Assets /\ a \notin audit[d].expected /\ asset[a] # Absent
  BY <1>1, <1>2 DEF ScanSound, ScanRows
<1>4. PICK j \in DOMAIN scans[d] : IsLast(scans[d], a, j)
  BY <1>1, <1>3 DEF AuditsSound, ScansSound, HasLast
<1>5. \E h \in DOMAIN scans[d] : LastScan(d, a) = scans[d][h]
  BY <1>4 DEF LastScan, IsLast
<1>6. QED
  BY <1>1, <1>2, <1>3, <1>5 DEF ScanRows

LEMMA MissingUnscanned ==
  ASSUME Sound, NEW d \in Audits, NEW a \in Missing(d)
  PROVE  /\ a \in audit[d].expected
         /\ \A i \in DOMAIN scans[d] : scans[d][i].asset # a
<1> USE DEF Sound
<1>1. a \in audit[d].expected /\ a \notin Scanned(d, "matched") /\ a \in Assets
  BY DEF Missing, AuditsSound, AuditRows
<1>2. ASSUME NEW i \in DOMAIN scans[d], scans[d][i].asset = a
      PROVE  FALSE
  <2>1. ScanSound(asset, audit[d].expected, scans[d][i])
    BY DEF AuditsSound, ScansSound
  <2>2. scans[d][i].result = "matched"
    BY <1>1, <1>2, <2>1, LedgerAssumption DEF ScanSound
  <2>3. QED
    BY <1>1, <1>2, <2>2 DEF Scanned
<1>3. QED
  BY <1>1, <1>2

\* A row that is new says what the scans and the snapshot said; the others stay.
LEMMA NewFindingSound ==
  ASSUME Sound, NEW d \in Audits, NEW k \in Keys, k \in Found(d)
  PROVE  /\ NewFinding(d, k) \in FindingRows
         /\ NewFinding(d, k).status = "open" /\ NewFinding(d, k).event = "created"
         /\ NewFinding(d, k).corrected = FALSE
<1> USE DEF Sound
<1>1. audit[d].location \in Locations \cup {None}
  BY DEF AuditsSound, AuditRows
<1>2. k[1] = "misplaced" => LastScan(d, k[2]).from \in Locations \cup {None}
  <2>1. k[1] = "misplaced" => k[2] \in Misplaced(d)
    BY DEF Found
  <2>2. QED
    BY <2>1, MisplacedScan
<1>3. CASE k[1] = "missing"
  BY <1>1, <1>3 DEF NewFinding, NoFinding, FindingRows
<1>4. CASE k[1] = "misplaced"
  BY <1>1, <1>2, <1>4 DEF NewFinding, NoFinding, FindingRows
<1>5. CASE k[1] \notin {"missing", "misplaced"}
  BY <1>1, <1>5 DEF NewFinding, NoFinding, FindingRows
<1>6. QED
  BY <1>3, <1>4, <1>5

LEMMA MaterializeStep ==
  ASSUME Sound, NEW d \in Audits, Materialize(d), UNCHANGED case
  PROVE  Sound'
<1> USE DEF Sound
<1>1. /\ audit[d].status = "closed"
      /\ finding' = [finding EXCEPT ![d] = [k \in Keys |-> Materialized(d, k)]]
      /\ UNCHANGED <<asset, moves, audit, scans>>
  BY DEF Materialize
<1>2. /\ \A e \in Audits : e # d => finding'[e] = finding[e]
      /\ \A k \in Keys : \/ finding'[d][k] = finding[d][k]
                         \/ k \in Found(d) /\ finding'[d][k] = NewFinding(d, k)
  BY <1>1 DEF FindingsSound, Materialized
<1>3. finding' \in [Audits -> [Keys -> FindingRows]]
  <2>1. \A k \in Keys : Materialized(d, k) \in FindingRows
    BY NewFindingSound DEF FindingsSound, Materialized
  <2>2. QED
    BY <1>1, <2>1 DEF FindingsSound
<1>4. \A a \in Assets :
        /\ <<"missing", a>> \in Found(d) => a \in Missing(d)
        /\ <<"misplaced", a>> \in Found(d) => a \in Misplaced(d)
  BY DEF Found
<1>5. FindingsAgreeWithTheSnapshot'
  <2>1. SUFFICES ASSUME NEW e \in Audits, NEW a \in Assets
                 PROVE  /\ finding'[e][<<"missing", a>>] # NoFinding =>
                             /\ a \in audit'[e].expected
                             /\ \A i \in DOMAIN scans'[e] : scans'[e][i].asset # a
                             /\ finding'[e][<<"misplaced", a>>] = NoFinding
                        /\ finding'[e][<<"misplaced", a>>] # NoFinding =>
                             /\ a \notin audit'[e].expected
                             /\ \E i \in DOMAIN scans'[e] : scans'[e][i].asset = a
    BY DEF FindingsAgreeWithTheSnapshot
  <2> audit' = audit /\ scans' = scans
    BY <1>1
  <2>2. <<"missing", a>> \in Keys /\ <<"misplaced", a>> \in Keys
    BY DEF Keys
  <2>3. /\ finding[e][<<"missing", a>>] # NoFinding =>
             /\ a \in audit[e].expected
             /\ \A i \in DOMAIN scans[e] : scans[e][i].asset # a
             /\ finding[e][<<"misplaced", a>>] = NoFinding
        /\ finding[e][<<"misplaced", a>>] # NoFinding =>
             /\ a \notin audit[e].expected
             /\ \E i \in DOMAIN scans[e] : scans[e][i].asset = a
    BY DEF FindingsSound, FindingsAgreeWithTheSnapshot
  <2>4. CASE e # d
    BY <1>2, <2>3, <2>4
  <2>5. CASE e = d
    <3>1. finding'[d][<<"missing", a>>] # NoFinding =>
            /\ a \in audit[d].expected
            /\ \A i \in DOMAIN scans[d] : scans[d][i].asset # a
      BY <1>2, <1>4, <2>2, <2>3, <2>5, MissingUnscanned
    <3>2. finding'[d][<<"misplaced", a>>] # NoFinding =>
            /\ a \notin audit[d].expected
            /\ \E i \in DOMAIN scans[d] : scans[d][i].asset = a
      BY <1>2, <1>4, <2>2, <2>3, <2>5, MisplacedScan
    <3>3. QED
      BY <2>5, <3>1, <3>2
  <2>6. QED
    BY <2>4, <2>5
<1>6. StatusFollowsTheEvents'
  <2>1. SUFFICES ASSUME NEW e \in Audits, NEW k \in Keys
                 PROVE  /\ finding'[e][k].status = "open"
                             <=> finding'[e][k].event \in {"created", "reopened"}
                        /\ finding'[e][k].corrected =>
                             finding'[e][k].event \notin {"none", "created"}
    BY DEF StatusFollowsTheEvents
  <2>2. CASE finding'[e][k] = finding[e][k]
    BY <2>2 DEF FindingsSound, StatusFollowsTheEvents
  <2>3. CASE e = d /\ k \in Found(d) /\ finding'[d][k] = NewFinding(d, k)
    BY <2>3, NewFindingSound
  <2>4. QED
    BY <1>2, <2>2, <2>3
<1>7. FindingsSound'
  <2>1. ASSUME NEW e \in Audits, NEW k \in Keys, finding'[e][k] # NoFinding
        PROVE  /\ audit[e].status = "closed"
               /\ finding'[e][k].status # "none"
               /\ \A a \in Assets : k = <<"misplaced", a>> => asset[a] # Absent
    <3>1. CASE finding'[e][k] = finding[e][k]
      BY <2>1, <3>1 DEF FindingsSound
    <3>2. CASE e = d /\ k \in Found(d) /\ finding'[d][k] = NewFinding(d, k)
      <4>1. audit[e].status = "closed" /\ finding'[e][k].status # "none"
        BY <1>1, <3>2, NewFindingSound
      <4>2. ASSUME NEW a \in Assets, k = <<"misplaced", a>>
            PROVE  asset[a] # Absent
        <5>1. a \in Misplaced(d)
          BY <1>4, <3>2, <4>2
        <5>2. QED
          BY <5>1, MisplacedScan
      <4>3. QED
        BY <4>1, <4>2
    <3>3. QED
      BY <1>2, <3>1, <3>2
  <2>2. QED
    BY <1>1, <1>3, <1>5, <1>6, <2>1 DEF FindingsSound
<1>8. QED
  BY <1>1, <1>7 DEF LedgerSound, AuditsSound, ScansSound, CasesSound, ServiceTypeOK

--------------------------------------------------------------------------------
(* Service cases *)

LEMMA ServiceStepSound ==
  ASSUME Sound, ServiceStep, UNCHANGED <<audit, scans, finding>>
  PROVE  Sound'
<1> USE DEF Sound
<1>1. UNCHANGED <<asset, moves>>
  BY DEF ServiceStep
<1>2. LedgerSound' /\ AuditsSound' /\ FindingsSound'
  BY <1>1, AuditsStandMoves, FindingsStandMoves DEF LedgerSound, Moving
<1>3. PICK c \in Cases :
        \/ \E a \in Assets : OpenCase(c, a)
        \/ EndCase(c, "completed")
        \/ EndCase(c, "cancelled")
  BY DEF ServiceStep
<1>4. CASE \E a \in Assets : OpenCase(c, a)
  <2>1. PICK a \in Assets : OpenCase(c, a)
    BY <1>4
  <2>2. /\ OpenCasesOf(a) = {}
        /\ case' = [case EXCEPT ![c] = [asset |-> a, status |-> "open"]]
    BY <2>1 DEF OpenCase
  <2>3. \A b \in Cases : ~ (case[b].asset = a /\ case[b].status = "open")
    BY <2>2 DEF OpenCasesOf
  <2>4. case \in [Cases -> [asset : Assets \cup {None},
                            status : {"none", "open", "completed", "cancelled"}]]
    BY DEF CasesSound, ServiceTypeOK
  <2>5. ServiceTypeOK'
    BY <2>2, <2>4 DEF ServiceTypeOK
  <2>6. \A b \in Cases : b # c => case'[b] = case[b]
    BY <2>2, <2>4
  <2>7. case'[c].asset = a
    BY <2>2, <2>4
  <2>8. ASSUME NEW c1 \in Cases, NEW c2 \in Cases,
               case'[c1].status = "open", case'[c2].status = "open",
               case'[c1].asset = case'[c2].asset
        PROVE  c1 = c2
    BY <2>3, <2>6, <2>7, <2>8 DEF CasesSound
  <2>9. QED
    BY <1>2, <2>5, <2>8 DEF CasesSound
<1>5. CASE EndCase(c, "completed") \/ EndCase(c, "cancelled")
  <2>1. PICK status \in {"completed", "cancelled"} :
          case' = [case EXCEPT ![c].status = status]
    BY <1>5 DEF EndCase
  <2>2. case' \in [Cases -> [asset : Assets \cup {None},
                             status : {"none", "open", "completed", "cancelled"}]]
    BY <2>1 DEF CasesSound, ServiceTypeOK
  <2>3. \A b \in Cases : case'[b].status = "open" => case'[b] = case[b]
    BY <2>1 DEF CasesSound, ServiceTypeOK
  <2>4. QED
    BY <1>2, <2>2, <2>3 DEF CasesSound, ServiceTypeOK
<1>6. QED
  BY <1>3, <1>4, <1>5

--------------------------------------------------------------------------------
(* Every step *)

LEMMA AuditStepSound ==
  ASSUME Sound, AuditStep, UNCHANGED case
  PROVE  Sound'
<1>1. PICK d \in Audits :
        \/ \E l \in Locations : OpenAudit(d, l)
        \/ \E value \in Values : Scan(d, value)
        \/ CloseAudit(d)
        \/ Materialize(d)
        \/ \E k \in Keys : Resolve(d, k) \/ Reopen(d, k) \/ CorrectOther(d, k)
        \/ \E a \in Assets : Relocate(d, a)
  BY DEF AuditStep
<1>2. CASE \E l \in Locations : OpenAudit(d, l)
  BY <1>2, OpenStep
<1>3. CASE \E value \in Values : Scan(d, value)
  BY <1>3, ScanStep
<1>4. CASE CloseAudit(d) \/ Materialize(d)
  BY <1>4, CloseStep, MaterializeStep
<1>5. ASSUME NEW k \in Keys, Resolve(d, k) \/ Reopen(d, k)
      PROVE  Sound'
  BY <1>5, ResolveStep
<1>6. ASSUME NEW k \in Keys, CorrectOther(d, k)
      PROVE  Sound'
  <2>1. Moving
    BY <1>6 DEF CorrectOther, Moving, Sound, LedgerSound
  <2>2. QED
    BY <1>6, <2>1, CorrectStep DEF CorrectOther
<1>7. ASSUME NEW a \in Assets, Relocate(d, a)
      PROVE  Sound'
  BY <1>7, RelocateMoves, CorrectStep DEF Relocate
<1>8. QED
  BY <1>1, <1>2, <1>3, <1>4, <1>5, <1>6, <1>7

LEMMA SoundNext == Sound /\ [Next]_vars => Sound'
<1> SUFFICES ASSUME Sound, [Next]_vars
             PROVE  Sound'
  OBVIOUS
<1>1. CASE AuditStep /\ UNCHANGED case
  BY <1>1, AuditStepSound
<1>2. CASE ServiceStep /\ UNCHANGED <<audit, scans, finding>>
  BY <1>2, ServiceStepSound
<1>3. ASSUME NEW a \in Assets, Change(a), UNCHANGED <<audit, scans, finding, case>>
      PROVE  Sound'
  <2>1. Moving /\ moves' \in Nat
    BY <1>3, ChangeMoves DEF Sound
  <2>2. AuditsSound' /\ FindingsSound'
    BY <1>3, <2>1, AuditsStandMoves, FindingsStandMoves DEF Sound
  <2>3. QED
    BY <1>3, <2>1, <2>2 DEF Sound, LedgerSound, Moving, CasesSound, ServiceTypeOK
<1>4. CASE UNCHANGED vars
  <2>1. Moving /\ UNCHANGED <<asset, moves, audit, scans, finding, case>>
    BY <1>4 DEF vars, Sound, LedgerSound, Moving
  <2>2. QED
    BY <2>1, AuditsStandMoves, FindingsStandMoves
       DEF Sound, LedgerSound, CasesSound, ServiceTypeOK
<1>5. QED
  BY <1>1, <1>2, <1>3, <1>4 DEF Next

LEMMA SoundAlways == Spec => []Sound
  BY SoundInit, SoundNext, PTL DEF Spec

--------------------------------------------------------------------------------
(* The theorems *)

\* Every row of the audits, the findings and the cases keeps its type under any
\* interleaving of the services.
THEOREM ChecksTypeCorrect == Spec => []TypeOK
<1>1. Sound => TypeOK
  <2>1. ASSUME Sound, NEW d \in Audits, NEW i \in DOMAIN scans[d]
        PROVE  scans[d][i] \in ScanRows
    BY <2>1 DEF Sound, AuditsSound
  <2>2. QED
    BY <2>1 DEF Sound, LedgerSound, AuditsSound, FindingsSound, CasesSound, TypeOK,
                AuditTypeOK, AuditRows, FindingRows, ScanRows
<1>2. QED
  BY <1>1, SoundAlways, PTL

\* No audit calls an asset both missing and misplaced, and what its findings say of
\* an asset was true of the snapshot, for any number of scans and moves in between
\* (materialize in audit_findings.py).
THEOREM FindingsAgree == Spec => []FindingsAgreeWithTheSnapshot
  BY SoundAlways, PTL DEF Sound, FindingsSound

\* The status of a finding is the one its last event left it in, and no correction
\* is left unmentioned (audit_findings.py, audit_corrections.py).
THEOREM StatusIsExplained == Spec => []StatusFollowsTheEvents
  BY SoundAlways, PTL DEF Sound, FindingsSound

\* No asset has two open service cases (open_case in service_history.py).
THEOREM CasesAreAlone == Spec => []OneOpenCase
<1>1. ASSUME Sound, NEW a \in Assets
      PROVE  Cardinality(OpenCasesOf(a)) <= 1
  <2>1. \A c1, c2 \in OpenCasesOf(a) : c1 = c2
    BY <1>1 DEF Sound, CasesSound, OpenCasesOf
  <2>2. CASE OpenCasesOf(a) = {}
    BY <2>2, FS_EmptySet
  <2>3. CASE OpenCasesOf(a) # {}
    <3>1. PICK c : c \in OpenCasesOf(a)
      BY <2>3
    <3>2. OpenCasesOf(a) = {c}
      BY <2>1, <3>1
    <3>3. QED
      BY <3>2, FS_Singleton
  <2>4. QED
    BY <2>2, <2>3
<1>2. Sound => OneOpenCase
  BY <1>1 DEF OneOpenCase
<1>3. QED
  BY <1>2, SoundAlways, PTL

\* Materializing an audit again, or deciding twice about a finding, neither changes
\* what was recorded nor undoes what was decided, except by reopening
\* (_insert_finding, resolve, reopen and the corrections).
THEOREM FindingsStay == Spec => FindingsAreKept
<1>1. ASSUME Sound, Next, NEW d \in Audits, NEW k \in Keys, finding[d][k] # NoFinding
      PROVE  /\ finding'[d][k].from = finding[d][k].from
             /\ finding'[d][k].to = finding[d][k].to
             /\ finding[d][k].corrected => finding'[d][k].corrected
             /\ finding[d][k].status = "resolved" /\ finding'[d][k].status = "open" =>
                  finding'[d][k].event = "reopened"
  <2>0. finding \in [Audits -> [Keys -> FindingRows]]
    BY <1>1 DEF Sound, FindingsSound
  <2>1. CASE finding' = finding
    BY <2>1
  <2>2. ASSUME NEW e \in Audits, Materialize(e)
        PROVE  finding'[d][k] = finding[d][k]
    BY <1>1, <2>0, <2>2 DEF Materialize, Materialized
  <2>3. ASSUME NEW e \in Audits, NEW h \in Keys,
               Resolve(e, h) \/ Reopen(e, h) \/ finding' = Corrected(e, h)
        PROVE  \/ finding'[d][k] = finding[d][k]
               \/ finding'[d][k] =
                    [finding[d][k] EXCEPT !.status = "resolved", !.event = "resolved"]
               \/ finding'[d][k] =
                    [finding[d][k] EXCEPT !.status = "open", !.event = "reopened"]
               \/ finding'[d][k] = [finding[d][k] EXCEPT !.status = "resolved",
                                      !.event = "corrected", !.corrected = TRUE]
    <3>1. CASE d = e /\ k = h
      <4>1. finding[d] \in [Keys -> FindingRows]
        BY <2>0
      <4>2. CASE Resolve(e, h)
        BY <2>0, <3>1, <4>1, <4>2 DEF Resolve
      <4>3. CASE Reopen(e, h)
        BY <2>0, <3>1, <4>1, <4>3 DEF Reopen
      <4>4. CASE finding' = Corrected(e, h)
        BY <2>0, <3>1, <4>1, <4>4 DEF Corrected
      <4>5. QED
        BY <2>3, <4>2, <4>3, <4>4
    <3>2. CASE d # e
      BY <2>0, <2>3, <3>2 DEF Resolve, Reopen, Corrected
    <3>3. CASE d = e /\ k # h
      BY <2>0, <2>3, <3>3 DEF Resolve, Reopen, Corrected
    <3>4. QED
      BY <3>1, <3>2, <3>3
  <2>4. \/ finding' = finding
        \/ \E e \in Audits : Materialize(e)
        \/ \E e \in Audits, h \in Keys :
             Resolve(e, h) \/ Reopen(e, h) \/ finding' = Corrected(e, h)
    <3>1. \A a \in Assets : <<"misplaced", a>> \in Keys
      BY DEF Keys
    <3>2. QED
      BY <1>1, <3>1 DEF Next, AuditStep, OpenAudit, Scan, CloseAudit, CorrectOther, Relocate
  <2>5. finding[d][k] \in FindingRows
    BY <2>0
  <2>6. QED
    BY <2>1, <2>2, <2>3, <2>4, <2>5 DEF FindingRows
<1>2. Sound /\ [Next]_vars =>
        [\A d \in Audits, k \in Keys : finding[d][k] # NoFinding =>
           /\ finding'[d][k].from = finding[d][k].from
           /\ finding'[d][k].to = finding[d][k].to
           /\ finding[d][k].corrected => finding'[d][k].corrected
           /\ finding[d][k].status = "resolved" /\ finding'[d][k].status = "open" =>
                finding'[d][k].event = "reopened"]_<<asset, audit, scans, finding>>
  <2>1. CASE UNCHANGED vars
    BY <2>1 DEF vars
  <2>2. QED
    BY <1>1, <2>1
<1>3. QED
  BY <1>2, SoundAlways, PTL DEF Spec, FindingsAreKept

\* No finding moves its asset a second time, however often it is reopened (relocate
\* and _ensure_no_correction in audit_corrections.py).
THEOREM RelocatesOnce == Spec => OneRelocationPerFinding
<1>1. ASSUME Sound, Next, NEW a \in Assets, asset'[a] # asset[a], moves' = moves
      PROVE  \E d \in Audits : LET k == <<"misplaced", a>> IN
               ~ finding[d][k].corrected /\ finding'[d][k].corrected
  <2>1. \A b \in Assets : ~ Change(b)
    BY <1>1, ChangeMoves DEF Sound
  <2>2. PICK d \in Audits, b \in Assets : Relocate(d, b)
    BY <1>1, <2>1 DEF Next, AuditStep, ServiceStep, OpenAudit, Scan, CloseAudit, Materialize,
                      Resolve, Reopen, CorrectOther
  <2>3. a = b
    BY <1>1, <2>2 DEF Relocate, Sound, LedgerSound
  <2>4. <<"misplaced", a>> \in Keys
    BY DEF Keys
  <2>5. finding \in [Audits -> [Keys -> FindingRows]]
    BY <1>1 DEF Sound, FindingsSound
  <2>6. ~ finding[d][<<"misplaced", a>>].corrected
    BY <2>2, <2>3 DEF Relocate, Correctable
  <2>7. finding'[d][<<"misplaced", a>>].corrected
    BY <2>2, <2>3, <2>4, <2>5 DEF Relocate, Corrected, FindingRows
  <2>8. QED
    BY <2>6, <2>7
<1>2. Sound /\ [Next]_vars =>
        [\A a \in Assets :
           asset'[a] # asset[a] /\ moves' = moves =>
             \E d \in Audits : LET k == <<"misplaced", a>> IN
               ~ finding[d][k].corrected /\ finding'[d][k].corrected]_<<asset, moves, audit, scans, finding>>
  <2>1. CASE UNCHANGED vars
    BY <2>1 DEF vars
  <2>2. QED
    BY <1>1, <2>1
<1>3. QED
  BY <1>2, SoundAlways, PTL DEF Spec, OneRelocationPerFinding

\* What is found is about assets there are and values that can be scanned.
LEMMA FoundAreKeys ==
  ASSUME Sound, NEW d \in Audits
  PROVE  Found(d) \subseteq Keys
<1>1. Missing(d) \subseteq Assets
  BY DEF Missing, Sound, AuditsSound, AuditRows
<1>2. Misplaced(d) \subseteq Assets
  BY MisplacedScan
<1>3. \A i \in DOMAIN scans[d] : scans[d][i] \in ScanRows
  BY DEF Sound, AuditsSound
<1>4. Unknown(d) \subseteq Values
  BY <1>3 DEF Unknown, ScanRows
<1>5. QED
  BY <1>1, <1>2, <1>4 DEF Found, Keys

\* A step leaves the findings of an audit, materializes it, or decides about one.
LEMMA StepsOnFindings ==
  ASSUME [Next]_vars, finding \in [Audits -> [Keys -> FindingRows]], NEW d \in Audits
  PROVE  \/ finding'[d] = finding[d]
         \/ Materialize(d)
         \/ \E k \in Keys : Resolve(d, k) \/ Reopen(d, k)
                            \/ (Correctable(d, k) /\ finding' = Corrected(d, k))
<1>1. \A a \in Assets : <<"misplaced", a>> \in Keys
  BY DEF Keys
<1>2. \/ finding' = finding
      \/ \E e \in Audits : Materialize(e)
      \/ \E e \in Audits, k \in Keys : Resolve(e, k) \/ Reopen(e, k)
                          \/ (Correctable(e, k) /\ finding' = Corrected(e, k))
  BY <1>1 DEF Next, AuditStep, OpenAudit, Scan, CloseAudit, CorrectOther, Relocate, vars
<1>3. ASSUME NEW e \in Audits, e # d, Materialize(e)
      PROVE  finding'[d] = finding[d]
  BY <1>3 DEF Materialize
<1>4. ASSUME NEW e \in Audits, NEW k \in Keys, e # d,
             Resolve(e, k) \/ Reopen(e, k) \/ finding' = Corrected(e, k)
      PROVE  finding'[d] = finding[d]
  BY <1>4 DEF Resolve, Reopen, Corrected
<1>5. QED
  BY <1>2, <1>3, <1>4

\* The result of an audit that has findings stands: it is closed.
LEMMA RecordedStands ==
  ASSUME Sound, [Next]_vars, NEW d \in Audits, {k \in Keys : finding[d][k] # NoFinding} # {}
  PROVE  /\ Missing(d)' = Missing(d)
         /\ Misplaced(d)' = Misplaced(d)
         /\ Unknown(d)' = Unknown(d)
<1>1. audit[d].status = "closed" /\ audit \in [Audits -> AuditRows]
      /\ scans \in [Audits -> Seq(ScanRows)]
  BY DEF Sound, FindingsSound, AuditsSound
<1>2. \/ UNCHANGED <<audit, scans>>
      \/ \E e \in Audits, l \in Locations : OpenAudit(e, l)
      \/ \E e \in Audits, value \in Values : Scan(e, value)
      \/ \E e \in Audits : CloseAudit(e)
  BY DEF Next, AuditStep, Materialize, Resolve, Reopen, CorrectOther, Relocate, vars
<1>3. audit'[d] = audit[d] /\ scans'[d] = scans[d]
  <2>1. CASE UNCHANGED <<audit, scans>>
    BY <2>1
  <2>2. ASSUME NEW e \in Audits, NEW l \in Locations, OpenAudit(e, l)
        PROVE  audit'[d] = audit[d] /\ scans'[d] = scans[d]
    BY <1>1, <2>2 DEF OpenAudit, NoAudit
  <2>3. ASSUME NEW e \in Audits, NEW value \in Values, Scan(e, value)
        PROVE  audit'[d] = audit[d] /\ scans'[d] = scans[d]
    BY <1>1, <2>3 DEF Scan
  <2>4. ASSUME NEW e \in Audits, CloseAudit(e)
        PROVE  audit'[d] = audit[d] /\ scans'[d] = scans[d]
    BY <1>1, <2>4 DEF CloseAudit
  <2>5. QED
    BY <1>2, <2>1, <2>2, <2>3, <2>4
<1>4. QED
  BY <1>3 DEF Missing, Misplaced, Unknown, Scanned

\* A decision about a finding is about one there is, and leaves one there.
LEMMA DecidedStay ==
  ASSUME finding \in [Audits -> [Keys -> FindingRows]], NEW d \in Audits, NEW k \in Keys,
         Resolve(d, k) \/ Reopen(d, k) \/ (Correctable(d, k) /\ finding' = Corrected(d, k))
  PROVE  \A h \in Keys : finding'[d][h] # NoFinding <=> finding[d][h] # NoFinding
<1>1. /\ finding[d][k].status \in {"open", "resolved"}
      /\ finding'[d][k].status \in {"open", "resolved"}
      /\ \A h \in Keys : h # k => finding'[d][h] = finding[d][h]
  <2>1. finding[d] \in [Keys -> FindingRows] /\ finding[d][k] \in FindingRows
    OBVIOUS
  <2>2. CASE Resolve(d, k)
    BY <2>1, <2>2 DEF Resolve, FindingRows
  <2>3. CASE Reopen(d, k)
    BY <2>1, <2>3 DEF Reopen, FindingRows
  <2>4. CASE Correctable(d, k) /\ finding' = Corrected(d, k)
    BY <2>1, <2>4 DEF Correctable, Corrected, FindingRows
  <2>5. QED
    BY <2>2, <2>3, <2>4
<1>2. QED
  BY <1>1, NoFindingIsNone

\* What was found stays what is recorded: the snapshot and the scans of an audit that
\* has findings do not change any more (scan and close in serialized_audit.py), and
\* materializing it records all of its result (materialize in audit_findings.py).
THEOREM FindingsAreFinal == Spec => []FindingsAreTheResult
<1>1. Init => FindingsAreTheResult
  BY DEF Init, AuditInit, FindingsAreTheResult
<1>2. Sound /\ FindingsAreTheResult /\ [Next]_vars => FindingsAreTheResult'
  <2> SUFFICES ASSUME Sound, FindingsAreTheResult, [Next]_vars, NEW d \in Audits
               PROVE  \/ \A k \in Keys : finding'[d][k] = NoFinding
                      \/ {k \in Keys : finding'[d][k] # NoFinding} = Found(d)'
    BY DEF FindingsAreTheResult
  <2> DEFINE Recorded == {k \in Keys : finding[d][k] # NoFinding}
  <2>1. Recorded = {} \/ Recorded = Found(d)
    BY DEF FindingsAreTheResult
  <2>2. finding \in [Audits -> [Keys -> FindingRows]]
    BY DEF Sound, FindingsSound
  <2>3. \/ finding'[d] = finding[d]
        \/ Materialize(d)
        \/ \E k \in Keys : Resolve(d, k) \/ Reopen(d, k)
                           \/ (Correctable(d, k) /\ finding' = Corrected(d, k))
    BY <2>2, StepsOnFindings
  <2>4. ASSUME Recorded # {}
        PROVE  Found(d)' = Found(d)
    BY <2>4, RecordedStands DEF Found
  <2>5. CASE finding'[d] = finding[d]
    BY <2>1, <2>4, <2>5
  <2>6. CASE Materialize(d)
    <3>1. \A k \in Keys :
            finding'[d][k] # NoFinding <=> (finding[d][k] # NoFinding \/ k \in Found(d))
      BY <2>2, <2>6, NewFindingSound, NoFindingIsNone DEF Materialize, Materialized
    <3>2. Found(d) \subseteq Keys
      BY FoundAreKeys
    <3>3. {k \in Keys : finding'[d][k] # NoFinding} = Found(d)
      BY <2>1, <3>1, <3>2
    <3>4. Found(d)' = Found(d)
      BY <2>6 DEF Materialize, Found, Missing, Misplaced, Unknown, Scanned
    <3>5. QED
      BY <3>3, <3>4
  <2>7. CASE \E k \in Keys : Resolve(d, k) \/ Reopen(d, k)
                            \/ (Correctable(d, k) /\ finding' = Corrected(d, k))
    <3>1. \A k \in Keys : finding'[d][k] # NoFinding <=> finding[d][k] # NoFinding
      BY <2>2, <2>7, DecidedStay
    <3>2. QED
      BY <2>1, <2>4, <3>1
  <2>8. QED
    BY <2>3, <2>5, <2>6, <2>7
<1>3. QED
  BY <1>1, <1>2, SoundAlways, PTL DEF Spec
====
