------------------------ MODULE AssetCustody_proofs ------------------------
(***************************************************************************)
(* Theorems about serialized assets, for any sets of assets, customers,    *)
(* locations, users and corrections and any bounds.                        *)
(***************************************************************************)
EXTENDS AssetCustody, SequenceTheorems, TLAPS

-----------------------------------------------------------------------------
(* The shape of a step.  An asset is written by a receipt, by a relocation *)
(* or by a Move to a proper row; nothing else touches assets and movements.*)

\* What the custody properties need of the row an asset is moved to.
Proper(a, new) ==
  /\ assets[a] \in Asset
  /\ new \in Asset
  /\ IF new.status = "issued"
       THEN new.customer \in customers /\ new.allocation # None /\ (new.due <=> new.allocation = "loan")
       ELSE new.customer = None /\ new.allocation = None /\ ~new.due
  /\ assets[a].status = "issued" => new.status # "issued"
  /\ \/ new.location \in locations
     \/ new.status \in {"lost", "disposed"}
     \/ new.location = assets[a].location /\ assets[a].status \notin {"lost", "disposed"}

\* A row with nobody holding the asset is in the table's domain.
LEMMA ClearedRow ==
  ASSUME NEW s \in Lifecycle, NEW l \in Locations
  PROVE  /\ Cleared(s, l) \in Asset
         /\ Cleared(s, l).status = s /\ Cleared(s, l).location = l
         /\ Cleared(s, l).customer = None /\ Cleared(s, l).allocation = None
         /\ Cleared(s, l).due = FALSE
  BY DEF Cleared, Asset

LEMMA KnownAsset ==
  ASSUME TypeOK, NEW a \in Assets, NEW s, CanBecome(a, s)
  PROVE  /\ assets[a] \in Asset
         /\ assets[a].status \in Lifecycle
         /\ assets[a].location \in Locations
         /\ assets[a].status \notin {"lost", "disposed"}
         /\ s \in Lifecycle
         /\ assets[a].status = "issued" => s # "issued"
<1>1. assets[a] \in Asset
  BY DEF TypeOK, CanBecome
<1>2. assets[a].status \in Lifecycle /\ assets[a].location \in Locations
  BY <1>1 DEF Asset
<1>3. s \in ALLOWED_TRANSITIONS[assets[a].status]
  BY DEF CanBecome
<1>4. QED
  BY <1>1, <1>2, <1>3 DEF ALLOWED_TRANSITIONS, Lifecycle

\* An asset moved by the transition service to a row that nobody holds, at an
\* active location or where it is, is moved properly.
LEMMA TransitionIsProper ==
  ASSUME TypeOK, NEW a \in Assets, NEW s, s # "issued", CanBecome(a, s),
         NEW l \in locations \union {assets[a].location}
  PROVE  Proper(a, Cleared(s, l))
<1>1. s \in Lifecycle /\ l \in Locations
  BY KnownAsset DEF TypeOK
<1>2. /\ assets[a] \in Asset /\ assets[a].status \notin {"lost", "disposed"}
  BY KnownAsset
<1>3. /\ Cleared(s, l) \in Asset /\ Cleared(s, l).status = s /\ Cleared(s, l).location = l
      /\ Cleared(s, l).customer = None /\ Cleared(s, l).allocation = None
      /\ Cleared(s, l).due = FALSE
  BY <1>1, ClearedRow
<1> DEFINE new == Cleared(s, l)
<1> HIDE DEF new
<1>4. new.status # "issued" /\ new \in Asset
  BY <1>3 DEF new
<1>5. new.customer = None /\ new.allocation = None /\ ~new.due
  BY <1>3 DEF new
<1>6. new.location \in locations \/ new.location = assets[a].location
  BY <1>3 DEF new
<1>7. Proper(a, new)
  BY <1>2, <1>4, <1>5, <1>6 DEF Proper
<1>8. QED
  BY <1>7 DEF new

LEMMA IssueIsProper ==
  ASSUME TypeOK, NEW a \in Assets, NEW c \in Customers, NEW m \in {"dedicated", "loan"},
         Issue(a, c, m)
  PROVE  \E new : Proper(a, new) /\ Move(a, new)
<1> DEFINE new == [assets[a] EXCEPT !.status = "issued", !.customer = c,
                                    !.allocation = m, !.due = (m = "loan")]
<1>1. CanBecome(a, "issued") /\ c \in customers /\ Move(a, new)
  BY DEF Issue
<1>2. assets[a] \in Asset /\ assets[a].status # "issued"
      /\ assets[a].status \notin {"lost", "disposed"}
  BY <1>1, KnownAsset
<1>3. new \in Asset /\ new.status = "issued" /\ new.customer = c /\ new.allocation = m
      /\ new.due = (m = "loan") /\ new.location = assets[a].location
  BY <1>2 DEF Asset, Lifecycle
<1>4. m # None
  BY NoneAssumption
<1> HIDE DEF new
<1>5. Proper(a, new)
  BY <1>1, <1>2, <1>3, <1>4 DEF Proper
<1>6. QED
  BY <1>1, <1>5

LEMMA LostIsProper ==
  ASSUME TypeOK, NEW a \in Assets, assets[a] # None, assets[a].status # "lost"
  PROVE  Proper(a, Cleared("lost", assets[a].location))
<1> DEFINE new == Cleared("lost", assets[a].location)
<1>1. assets[a] \in Asset
  BY DEF TypeOK
<1>2. assets[a].location \in Locations /\ "lost" \in Lifecycle
  BY <1>1 DEF Asset, Lifecycle
<1>3. new \in Asset /\ new.status = "lost" /\ new.customer = None /\ new.allocation = None
      /\ new.due = FALSE
  BY <1>2, ClearedRow
<1> HIDE DEF new
<1>4. Proper(a, new)
  BY <1>1, <1>3 DEF Proper
<1>5. QED
  BY <1>4 DEF new

\* The loss cases are about existing assets whose loss their investigation
\* confirmed, one case for an investigation; an approved one was approved by
\* someone other than its requester.
CasesSound ==
  /\ \A k \in Corrections : missing[k] # None => assets[missing[k]] # None
  /\ \A k \in Corrections : investigations[k] # None => missing[k] # None
  /\ \A i \in DOMAIN losses :
       /\ investigations[losses[i].correction] = "confirmed_lost"
       /\ losses[i].asset = missing[losses[i].correction]
       /\ losses[i].status \in {"approved", "written_off"} =>
            losses[i].approver \notin {None, losses[i].requester}
       /\ \A j \in DOMAIN losses : losses[j].correction = losses[i].correction => j = i

LEMMA RecoverIsProper ==
  ASSUME TypeOK, CasesSound, NEW i \in DOMAIN losses, NEW l \in Locations, Recover(i, l)
  PROVE  /\ Proper(losses[i].asset, Cleared("quarantine", l))
         /\ Move(losses[i].asset, Cleared("quarantine", l))
         /\ losses[i].asset \in Assets
<1> DEFINE new == Cleared("quarantine", l)
           a == losses[i].asset
<1>1. losses[i] \in Loss
  BY DEF TypeOK
<1>2. a \in Assets /\ losses[i].correction \in Corrections
  BY <1>1 DEF Loss
<1>7. a = missing[losses[i].correction] /\ a # None
  BY <1>2, NoneAssumption DEF CasesSound
<1>8. assets[a] \in Asset
  BY <1>2, <1>7 DEF CasesSound, TypeOK
<1>3. l \in locations /\ assets[a].status = "lost" /\ Move(a, new)
  BY DEF Recover
<1>4. new \in Asset /\ new.status = "quarantine" /\ new.customer = None
      /\ new.allocation = None /\ new.due = FALSE /\ new.location = l
  BY ClearedRow DEF Lifecycle
<1> HIDE DEF new
<1>5. Proper(a, new)
  BY <1>3, <1>4, <1>8 DEF Proper
<1>6. QED
  BY <1>2, <1>3, <1>5 DEF new

\* A receipt writes the whole row, whether the asset is new or was left by a
\* confirmation of the same receipt that ended half way.
Enters(a, l) ==
  /\ l \in locations
  /\ assets[a] = None \/ unconfirmed[a] = l
  /\ assets' = [assets EXCEPT ![a] = Cleared("received", l)]
  /\ UNCHANGED <<movements, evidence, searches, losses, master>>

LEMMA ReceiptsEnter ==
  ASSUME TypeOK, NEW a \in Assets
  PROVE  /\ \A l \in Locations : Receive(a, l) \/ ReceiveStopped(a, l) => Enters(a, l)
         /\ ReceiveAgain(a) => unconfirmed[a] \in Locations /\ Enters(a, unconfirmed[a])
  BY DEF TypeOK, Receive, ReceiveStopped, ReceiveAgain, Enters

\* A step leaves assets and movements alone, or is a receipt or a Relocate, or
\* moves one asset to a proper row; in the latter cases the master data stays.
Kept == UNCHANGED <<assets, movements>>
Arrives == \E a \in Assets, l \in Locations : Enters(a, l)
Relocates == \E a \in Assets, l \in Locations : Relocate(a, l)
Moves == /\ \E a \in Assets : \E new : Proper(a, new) /\ Move(a, new)
         /\ UNCHANGED master

LEMMA StepKinds ==
  ASSUME TypeOK, CasesSound, Next
  PROVE  Kept \/ Arrives \/ Relocates \/ Moves
<1>1. CASE \E a \in Assets : Return(a)
  <2>1. PICK a \in Assets : Return(a)
    BY <1>1
  <2>2. Proper(a, Cleared("returned", assets[a].location)) /\ Move(a, Cleared("returned", assets[a].location))
    BY <2>1, TransitionIsProper DEF Return
  <2>3. QED
    BY <2>1, <2>2 DEF Moves, Return
<1>2. CASE \E a \in Assets : Retire(a)
  <2>1. PICK a \in Assets : Retire(a)
    BY <1>2
  <2>2. Proper(a, Cleared("retired", assets[a].location)) /\ Move(a, Cleared("retired", assets[a].location))
    BY <2>1, TransitionIsProper DEF Retire
  <2>3. QED
    BY <2>1, <2>2 DEF Moves, Retire
<1>3. CASE \E a \in Assets : Dispose(a)
  <2>1. PICK a \in Assets : Dispose(a)
    BY <1>3
  <2>2. Proper(a, Cleared("disposed", assets[a].location)) /\ Move(a, Cleared("disposed", assets[a].location))
    BY <2>1, TransitionIsProper DEF Dispose
  <2>3. QED
    BY <2>1, <2>2 DEF Moves, Dispose
<1>4. CASE \E a \in Assets, l \in Locations : PutAway(a, l)
  <2>1. PICK a \in Assets, l \in Locations : PutAway(a, l)
    BY <1>4
  <2>2. Proper(a, Cleared("in_stock", l)) /\ Move(a, Cleared("in_stock", l))
    BY <2>1, TransitionIsProper DEF PutAway
  <2>3. QED
    BY <2>1, <2>2 DEF Moves, PutAway
<1>5. CASE \E a \in Assets, l \in Locations, s \in {"repair", "quarantine"} : SetAside(a, s, l)
  <2>1. PICK a \in Assets, l \in Locations, s \in {"repair", "quarantine"} : SetAside(a, s, l)
    BY <1>5
  <2>2. Proper(a, Cleared(s, l)) /\ Move(a, Cleared(s, l))
    BY <2>1, TransitionIsProper DEF SetAside
  <2>3. QED
    BY <2>1, <2>2 DEF Moves, SetAside
<1>6. CASE \E a \in Assets, c \in Customers, m \in {"dedicated", "loan"} : Issue(a, c, m)
  <2>1. PICK a \in Assets, c \in Customers, m \in {"dedicated", "loan"} : Issue(a, c, m)
    BY <1>6
  <2>2. \E new : Proper(a, new) /\ Move(a, new)
    BY <2>1, IssueIsProper
  <2>3. QED
    BY <2>1, <2>2 DEF Moves, Issue
<1>7. CASE \E k \in Corrections, o \in Outcomes : CloseInvestigation(k, o)
  <2>1. PICK k \in Corrections, o \in Outcomes : CloseInvestigation(k, o)
    BY <1>7
  <2>2. missing[k] \in Assets /\ assets[missing[k]] # None
    BY <2>1, NoneAssumption DEF CloseInvestigation, CasesSound, TypeOK
  <2>3. CASE o = "confirmed_lost" /\ assets[missing[k]].status # "lost"
    BY <2>1, <2>2, <2>3, LostIsProper DEF CloseInvestigation, SetLost, Moves, master
  <2>4. CASE ~(o = "confirmed_lost" /\ assets[missing[k]].status # "lost")
    BY <2>1, <2>4 DEF CloseInvestigation, SetLost, Kept, master
  <2>5. QED
    BY <2>3, <2>4
<1>8. CASE \E i \in DOMAIN losses, l \in Locations : Recover(i, l)
  <2>1. PICK i \in DOMAIN losses, l \in Locations : Recover(i, l)
    BY <1>8
  <2>2. QED
    BY <2>1, RecoverIsProper DEF Moves, Recover
<1>9. CASE \E a \in Assets :
              ReceiveAgain(a) \/ \E l \in Locations : Receive(a, l) \/ ReceiveStopped(a, l)
  BY <1>9, ReceiptsEnter DEF Arrives
<1>10. CASE \/ \E a \in Assets : ReceiptEnds(a) \/ AddDisposalEvidence(a)
            \/ \E a \in Assets, k \in Corrections : ReportMissing(k, a)
            \/ \E k \in Corrections : OpenInvestigation(k)
            \/ \E k \in Corrections, u \in Actors : RequestLoss(k, u)
            \/ \E i \in DOMAIN losses : WriteOff(i)
            \/ \E i \in DOMAIN losses, u \in Actors : ApproveLoss(i, u)
  BY <1>10 DEF Kept, ReceiptEnds, AddDisposalEvidence, ReportMissing, OpenInvestigation, RequestLoss,
               WriteOff, ApproveLoss, master
<1>11. CASE \/ \E x \in Customers \union Locations : Activate(x)
            \/ \E c \in Customers : DeactivateCustomer(c)
            \/ \E l \in Locations : DeactivateLocation(l)
  BY <1>11 DEF Kept, Activate, DeactivateCustomer, DeactivateLocation, searches
<1>12. CASE \E a \in Assets, l \in Locations : Relocate(a, l)
  BY <1>12 DEF Relocates
<1>13. QED
  BY <1>1, <1>2, <1>3, <1>4, <1>5, <1>6, <1>7, <1>8, <1>9, <1>10, <1>11, <1>12 DEF Next

\* What a Move writes.
LEMMA MoveEffect ==
  ASSUME TypeOK, NEW a \in Assets, NEW new, Proper(a, new), Move(a, new)
  PROVE  /\ assets' \in [Assets -> Asset \union {None}]
         /\ movements' \in [Assets -> Seq(Movement)]
         /\ assets'[a] = new /\ new # None
         /\ Row(assets[a], new) \in Movement
         /\ movements'[a] = Append(movements[a], Row(assets[a], new))
         /\ \A b \in Assets : b # a => assets'[b] = assets[b] /\ movements'[b] = movements[b]
<1>1. assets[a] \in Asset /\ new \in Asset
  BY DEF Proper
<1>2. Row(assets[a], new) \in Movement
  BY <1>1 DEF Row, Movement, Asset
<1>3. new # None
  BY <1>1, NoneAssumption
<1>4. /\ assets' = [assets EXCEPT ![a] = new]
      /\ movements' = [movements EXCEPT ![a] = Append(@, Row(assets[a], new))]
  BY DEF Move
<1> DEFINE row == Row(assets[a], new)
<1> HIDE DEF row
<1>5. row \in Movement /\ movements' = [movements EXCEPT ![a] = Append(movements[a], row)]
  BY <1>2, <1>4 DEF row
<1>6. movements \in [Assets -> Seq(Movement)] /\ assets \in [Assets -> Asset \union {None}]
  BY DEF TypeOK
<1>7. Append(movements[a], row) \in Seq(Movement)
  BY <1>5, <1>6
<1>8. movements' \in [Assets -> Seq(Movement)] /\ movements'[a] = Append(movements[a], row)
  BY <1>5, <1>6, <1>7
<1>9. QED
  BY <1>1, <1>2, <1>3, <1>4, <1>6, <1>8 DEF row

LEMMA ReceiveEffect ==
  ASSUME TypeOK, NEW a \in Assets, NEW l \in Locations, Enters(a, l)
  PROVE  /\ assets' \in [Assets -> Asset \union {None}]
         /\ assets'[a] = Cleared("received", l) /\ assets'[a] # None
         /\ \A b \in Assets : b # a => assets'[b] = assets[b]
         /\ l \in locations
         /\ UNCHANGED <<movements, evidence, searches, losses, master>>
<1>1. Cleared("received", l) \in Asset
  BY ClearedRow DEF Lifecycle
<1>2. Cleared("received", l) # None
  BY <1>1, NoneAssumption
<1>3. QED
  BY <1>1, <1>2 DEF Enters, TypeOK

\* A relocation changes nothing but the location.
LEMMA RelocateEffect ==
  ASSUME TypeOK, NEW a \in Assets, NEW l \in Locations, Relocate(a, l)
  PROVE  /\ assets' \in [Assets -> Asset \union {None}]
         /\ assets[a] \in Asset /\ assets'[a] \in Asset /\ assets'[a] # None
         /\ assets'[a] = [assets[a] EXCEPT !.location = l]
         /\ assets'[a].location = l /\ assets'[a].status = assets[a].status
         /\ assets'[a].customer = assets[a].customer
         /\ assets'[a].allocation = assets[a].allocation /\ assets'[a].due = assets[a].due
         /\ \A b \in Assets : b # a => assets'[b] = assets[b]
         /\ assets[a] # None /\ l \in locations
         /\ UNCHANGED <<movements, evidence, searches, losses, master>>
<1>1. assets[a] \in Asset /\ assets[a] # None /\ l \in locations
  BY DEF TypeOK, Relocate
<1>2. assets' = [assets EXCEPT ![a] = [assets[a] EXCEPT !.location = l]]
  BY DEF Relocate
<1> DEFINE new == [assets[a] EXCEPT !.location = l]
<1>3. /\ new \in Asset /\ new.location = l /\ new.status = assets[a].status
      /\ new.customer = assets[a].customer
      /\ new.allocation = assets[a].allocation /\ new.due = assets[a].due
  BY <1>1 DEF Asset
<1>4. new # None
  BY <1>3, NoneAssumption
<1> HIDE DEF new
<1>5. assets' = [assets EXCEPT ![a] = new]
  BY <1>2 DEF new
<1>6. assets \in [Assets -> Asset \union {None}]
  BY DEF TypeOK
<1>7. assets' \in [Assets -> Asset \union {None}] /\ assets'[a] = new
      /\ \A b \in Assets : b # a => assets'[b] = assets[b]
  BY <1>3, <1>5, <1>6
<1>8. UNCHANGED <<movements, evidence, searches, losses, master>>
  BY DEF Relocate
<1>9. assets'[a] = [assets[a] EXCEPT !.location = l]
  BY <1>7 DEF new
<1>10. QED
  BY <1>1, <1>3, <1>4, <1>7, <1>8, <1>9

\* How each step treats the other tables.
LEMMA OtherTables ==
  ASSUME TypeOK, CasesSound, Next
  PROVE  /\ evidence' \subseteq Assets
         /\ missing' \in [Corrections -> Assets \union {None}]
         /\ investigations' \in [Corrections -> Outcomes \union {"open", None}]
         /\ losses' \in Seq(Loss)
         /\ customers' \subseteq Customers
         /\ locations' \subseteq Locations
         /\ unconfirmed' \in [Assets -> Locations \union {None}]
<1>1. CASE \E a \in Assets, l \in Locations : Receive(a, l) \/ ReceiveStopped(a, l)
  BY <1>1 DEF Receive, ReceiveStopped, TypeOK, searches, master
<1>16. CASE \E a \in Assets : ReceiveAgain(a) \/ ReceiptEnds(a)
  BY <1>16 DEF ReceiveAgain, ReceiptEnds, TypeOK, searches, master
<1>15. CASE Relocates
  BY <1>15 DEF Relocates, Relocate, TypeOK, searches, master
<1>2. CASE \E a \in Assets : Return(a) \/ Retire(a) \/ Dispose(a)
  BY <1>2 DEF Return, Retire, Dispose, TypeOK, searches, master
<1>3. CASE \E a \in Assets, l \in Locations : PutAway(a, l)
  BY <1>3 DEF PutAway, TypeOK, searches, master
<1>4. CASE \E a \in Assets, l \in Locations, s \in {"repair", "quarantine"} : SetAside(a, s, l)
  BY <1>4 DEF SetAside, TypeOK, searches, master
<1>5. CASE \E a \in Assets, c \in Customers, m \in {"dedicated", "loan"} : Issue(a, c, m)
  BY <1>5 DEF Issue, TypeOK, searches, master
<1>6. CASE \E a \in Assets : AddDisposalEvidence(a)
  BY <1>6 DEF AddDisposalEvidence, TypeOK, searches, master
<1>7. CASE \E a \in Assets, k \in Corrections : ReportMissing(k, a)
  BY <1>7 DEF ReportMissing, TypeOK, master
<1>8. CASE \E k \in Corrections : OpenInvestigation(k)
  BY <1>8 DEF OpenInvestigation, TypeOK, master
<1>9. CASE \E k \in Corrections, o \in Outcomes : CloseInvestigation(k, o)
  BY <1>9 DEF CloseInvestigation, TypeOK, master
<1>10. CASE \E k \in Corrections, u \in Actors : RequestLoss(k, u)
  <2>1. PICK k \in Corrections, u \in Actors : RequestLoss(k, u)
    BY <1>10
  <2> DEFINE case == [correction |-> k, asset |-> missing[k], requester |-> u,
                      approver |-> None, status |-> "pending_approval"]
  <2>2. losses' = Append(losses, case)
    BY <2>1 DEF RequestLoss
  <2>3. missing[k] \in Assets
    BY <2>1, NoneAssumption DEF TypeOK, RequestLoss, CasesSound
  <2>4. case \in Loss
    BY <2>3 DEF Loss
  <2> HIDE DEF case
  <2>5. losses' \in Seq(Loss)
    BY <2>2, <2>4 DEF TypeOK
  <2>6. QED
    BY <2>1, <2>5 DEF RequestLoss, TypeOK, searches, master
<1>11. CASE \E i \in DOMAIN losses : WriteOff(i) \/ \E l \in Locations : Recover(i, l)
  <2>1. PICK i \in DOMAIN losses : WriteOff(i) \/ \E l \in Locations : Recover(i, l)
    BY <1>11
  <2>2. PICK s \in {"written_off", "recovered"} : losses' = [losses EXCEPT ![i].status = s]
    BY <2>1 DEF WriteOff, Recover
  <2>3. losses[i] \in Loss /\ losses \in Seq(Loss)
    BY DEF TypeOK
  <2>4. [losses[i] EXCEPT !.status = s] \in Loss
    BY <2>3 DEF Loss
  <2>5. losses' \in Seq(Loss)
    BY <2>2, <2>3, <2>4
  <2>6. QED
    BY <2>1, <2>5 DEF WriteOff, Recover, TypeOK, searches, master
<1>12. CASE \E i \in DOMAIN losses, u \in Actors : ApproveLoss(i, u)
  <2>1. PICK i \in DOMAIN losses, u \in Actors : ApproveLoss(i, u)
    BY <1>12
  <2>2. losses' = [losses EXCEPT ![i] = [losses[i] EXCEPT !.status = "approved", !.approver = u]]
    BY <2>1 DEF ApproveLoss
  <2>3. losses[i] \in Loss /\ losses \in Seq(Loss)
    BY DEF TypeOK
  <2>4. [losses[i] EXCEPT !.status = "approved", !.approver = u] \in Loss
    BY <2>3 DEF Loss
  <2>5. losses' \in Seq(Loss)
    BY <2>2, <2>3, <2>4
  <2>6. QED
    BY <2>1, <2>5 DEF ApproveLoss, TypeOK, searches, master
<1>13. CASE \/ \E x \in Customers \union Locations : Activate(x)
            \/ \E c \in Customers : DeactivateCustomer(c)
            \/ \E l \in Locations : DeactivateLocation(l)
  BY <1>13 DEF Activate, DeactivateCustomer, DeactivateLocation, TypeOK, searches
<1>14. QED
  BY <1>1, <1>2, <1>3, <1>4, <1>5, <1>6, <1>7, <1>8, <1>9, <1>10, <1>11, <1>12, <1>13, <1>15, <1>16
  DEF Next, Relocates

LEMMA TypeStep ==
  ASSUME TypeOK, CasesSound, Next
  PROVE  TypeOK'
<1>1. assets' \in [Assets -> Asset \union {None}] /\ movements' \in [Assets -> Seq(Movement)]
  <2>1. CASE Kept
    BY <2>1 DEF Kept, TypeOK
  <2>2. CASE Arrives
    BY <2>2, ReceiveEffect DEF Arrives, TypeOK
  <2>3. CASE Moves
    BY <2>3, MoveEffect DEF Moves
  <2>4. CASE Relocates
    BY <2>4, RelocateEffect DEF Relocates, TypeOK
  <2>5. QED
    BY <2>1, <2>2, <2>3, <2>4, StepKinds
<1>2. QED
  BY <1>1, OtherTables DEF TypeOK

-----------------------------------------------------------------------------
(* Holders and locations.                                                  *)

\* No step deactivates the customer of an issued asset, or the location of an
\* asset that is not disposed of.
LEMMA MasterDataInUseStays ==
  ASSUME TypeOK, CasesSound, Next, Kept, NEW a \in Assets, assets[a] # None
  PROVE  /\ assets[a].status = "issued" /\ assets[a].customer \in customers =>
              assets[a].customer \in customers'
         /\ assets[a].status # "disposed" /\ assets[a].location \in locations =>
              assets[a].location \in locations'
<1>1. CASE \E x \in Customers \union Locations : Activate(x)
  BY <1>1 DEF Activate
<1>2. CASE \E c \in Customers : DeactivateCustomer(c)
  BY <1>2 DEF DeactivateCustomer
<1>3. CASE \E l \in Locations : DeactivateLocation(l)
  BY <1>3 DEF DeactivateLocation
<1>4. CASE UNCHANGED master
  BY <1>4 DEF master
<1>5. UNCHANGED master \/ (\E x \in Customers \union Locations : Activate(x))
        \/ (\E c \in Customers : DeactivateCustomer(c)) \/ \E l \in Locations : DeactivateLocation(l)
  BY DEF Next, Return, Retire, Dispose, AddDisposalEvidence, Receive, ReceiveStopped,
         ReceiveAgain, ReceiptEnds, PutAway, SetAside, Issue, Relocate, ReportMissing, OpenInvestigation, CloseInvestigation, RequestLoss, WriteOff,
         ApproveLoss, Recover
<1>6. QED
  BY <1>1, <1>2, <1>3, <1>4, <1>5

\* The two properties for one asset.
HeldOK(a) ==
  IF assets[a].status = "issued"
    THEN /\ assets[a].customer \in customers
         /\ assets[a].allocation # None
         /\ assets[a].due <=> assets[a].allocation = "loan"
    ELSE assets[a].customer = None /\ assets[a].allocation = None /\ ~assets[a].due
PlaceOK(a) == assets[a].status \notin {"lost", "disposed"} => assets[a].location \in locations

LEMMA HeldStep ==
  ASSUME TypeOK, CasesSound, HeldByActiveCustomers, Next
  PROVE  HeldByActiveCustomers'
<1>1. SUFFICES ASSUME NEW b \in Assets, assets'[b] # None
               PROVE  HeldOK(b)'
  BY DEF HeldByActiveCustomers, HeldOK
<1>2. assets[b] # None => HeldOK(b)
  BY DEF HeldByActiveCustomers, HeldOK
<1>3. CASE Kept
  <2>1. assets[b] # None /\ assets' = assets
    BY <1>1, <1>3 DEF Kept
  <2>2. assets[b].status = "issued" /\ assets[b].customer \in customers => assets[b].customer \in customers'
    BY <1>3, <2>1, MasterDataInUseStays
  <2>3. QED
    BY <1>2, <2>1, <2>2 DEF HeldOK
<1>4. CASE Arrives
  <2>1. PICK a \in Assets, l \in Locations : Enters(a, l)
    BY <1>4 DEF Arrives
  <2>2. CASE b = a
    <3>1. assets'[b] = Cleared("received", l)
      BY <2>1, <2>2, ReceiveEffect
    <3>2. /\ Cleared("received", l).status # "issued"
          /\ Cleared("received", l).customer = None /\ Cleared("received", l).allocation = None
          /\ ~Cleared("received", l).due
      BY DEF Cleared
    <3>3. QED
      BY <3>1, <3>2 DEF HeldOK
  <2>3. CASE b # a
    BY <1>1, <1>2, <2>1, <2>3, ReceiveEffect DEF HeldOK, master
  <2>4. QED
    BY <2>2, <2>3
<1>5. CASE Moves
  <2>1. PICK a \in Assets : \E new : Proper(a, new) /\ Move(a, new)
    BY <1>5 DEF Moves
  <2>2. PICK new : Proper(a, new) /\ Move(a, new)
    BY <2>1
  <2>3. customers' = customers
    BY <1>5 DEF Moves, master
  <2>4. CASE b = a
    BY <2>2, <2>3, <2>4, MoveEffect DEF HeldOK, Proper
  <2>5. CASE b # a
    BY <1>1, <1>2, <2>2, <2>3, <2>5, MoveEffect DEF HeldOK
  <2>6. QED
    BY <2>4, <2>5
<1>6. CASE Relocates
  <2>1. PICK a \in Assets, l \in Locations : Relocate(a, l)
    BY <1>6 DEF Relocates
  <2>2. CASE b = a
    <3>1. HeldOK(b)
      BY <1>2, <2>1, <2>2, RelocateEffect
    <3>2. customers' = customers
      BY <2>1, RelocateEffect DEF master
    <3>3. QED
      BY <2>1, <2>2, <3>1, <3>2, RelocateEffect DEF HeldOK
  <2>3. CASE b # a
    <3>1. assets'[b] = assets[b] /\ customers' = customers
      BY <2>1, <2>3, RelocateEffect DEF master
    <3>2. QED
      BY <1>1, <1>2, <3>1 DEF HeldOK
  <2>4. QED
    BY <2>2, <2>3
<1>7. QED
  BY <1>3, <1>4, <1>5, <1>6, StepKinds

LEMMA PlaceStep ==
  ASSUME TypeOK, CasesSound, InUseAtActiveLocations, Next
  PROVE  InUseAtActiveLocations'
<1>1. SUFFICES ASSUME NEW b \in Assets, assets'[b] # None
               PROVE  PlaceOK(b)'
  BY DEF InUseAtActiveLocations, PlaceOK
<1>2. assets[b] # None => PlaceOK(b)
  BY DEF InUseAtActiveLocations, PlaceOK
<1>3. CASE Kept
  <2>1. assets[b] # None /\ assets' = assets
    BY <1>1, <1>3 DEF Kept
  <2>2. assets[b].status # "disposed" /\ assets[b].location \in locations => assets[b].location \in locations'
    BY <1>3, <2>1, MasterDataInUseStays
  <2>3. QED
    BY <1>2, <2>1, <2>2 DEF PlaceOK
<1>4. CASE Arrives
  <2>1. PICK a \in Assets, l \in Locations : Enters(a, l)
    BY <1>4 DEF Arrives
  <2>2. CASE b = a
    <3>1. assets'[b] = Cleared("received", l) /\ l \in locations /\ locations' = locations
      BY <2>1, <2>2, ReceiveEffect DEF master
    <3>2. Cleared("received", l).location = l
      BY DEF Cleared
    <3>3. QED
      BY <3>1, <3>2 DEF PlaceOK
  <2>3. CASE b # a
    BY <1>1, <1>2, <2>1, <2>3, ReceiveEffect DEF PlaceOK, master
  <2>4. QED
    BY <2>2, <2>3
<1>5. CASE Moves
  <2>1. PICK a \in Assets : \E new : Proper(a, new) /\ Move(a, new)
    BY <1>5 DEF Moves
  <2>2. PICK new : Proper(a, new) /\ Move(a, new)
    BY <2>1
  <2>3. locations' = locations
    BY <1>5 DEF Moves, master
  <2>4. CASE b = a
    <3>1. assets[a] # None
      BY <2>2, NoneAssumption DEF Proper
    <3>2. assets'[b] = new
      BY <2>2, <2>4, MoveEffect
    <3>3. PlaceOK(a)
      BY <1>2, <2>4, <3>1
    <3>4. new.status \notin {"lost", "disposed"} => new.location \in locations
      BY <2>2, <3>3 DEF Proper, PlaceOK
    <3>5. QED
      BY <2>3, <3>2, <3>4 DEF PlaceOK
  <2>5. CASE b # a
    BY <1>1, <1>2, <2>2, <2>3, <2>5, MoveEffect DEF PlaceOK
  <2>6. QED
    BY <2>4, <2>5
<1>6. CASE Relocates
  <2>1. PICK a \in Assets, l \in Locations : Relocate(a, l)
    BY <1>6 DEF Relocates
  <2>2. CASE b = a
    <3>1. PlaceOK(b)
      BY <1>2, <2>1, <2>2, RelocateEffect
    <3>2. locations' = locations /\ l \in locations
      BY <2>1, RelocateEffect DEF master
    <3>3. QED
      BY <2>1, <2>2, <3>1, <3>2, RelocateEffect DEF PlaceOK
  <2>3. CASE b # a
    <3>1. assets'[b] = assets[b] /\ locations' = locations
      BY <2>1, <2>3, RelocateEffect DEF master
    <3>2. QED
      BY <1>1, <1>2, <3>1 DEF PlaceOK
  <2>4. QED
    BY <2>2, <2>3
<1>7. QED
  BY <1>3, <1>4, <1>5, <1>6, StepKinds
-----------------------------------------------------------------------------
(* Investigations and loss cases.                                          *)

\* No step forgets an asset.
LEMMA AssetsStay ==
  ASSUME TypeOK, CasesSound, Next, NEW b \in Assets, assets[b] # None
  PROVE  assets'[b] # None
<1>1. CASE Kept
  BY <1>1 DEF Kept
<1>2. CASE Arrives
  BY <1>2, ReceiveEffect DEF Arrives
<1>3. CASE Moves
  <2>1. PICK a \in Assets : \E new : Proper(a, new) /\ Move(a, new)
    BY <1>3 DEF Moves
  <2>2. PICK new : Proper(a, new) /\ Move(a, new)
    BY <2>1
  <2>3. QED
    BY <2>2, MoveEffect
<1>4. CASE Relocates
  BY <1>4, RelocateEffect DEF Relocates
<1>5. QED
  BY <1>1, <1>2, <1>3, <1>4, StepKinds

\* What a step may do to the corrections and investigations: report an asset
\* that exists, open the investigation of a reported one, close an open one.
Searched ==
  \/ UNCHANGED searches
  \/ \E k \in Corrections, a \in Assets :
       missing[k] = None /\ assets[a] # None /\ missing' = [missing EXCEPT ![k] = a]
         /\ UNCHANGED investigations
  \/ \E k \in Corrections :
       missing[k] # None /\ investigations[k] = None
         /\ investigations' = [investigations EXCEPT ![k] = "open"] /\ UNCHANGED missing
  \/ \E k \in Corrections, o \in Outcomes :
       investigations[k] = "open"
         /\ investigations' = [investigations EXCEPT ![k] = o] /\ UNCHANGED missing

\* What a step may do to the cases: request a new one, or decide existing ones.
Requested ==
  \E k \in Corrections, u \in Actors :
    /\ investigations[k] = "confirmed_lost" /\ CaseOf(k) = {}
    /\ losses' = Append(losses, [correction |-> k, asset |-> missing[k], requester |-> u,
                                 approver |-> None, status |-> "pending_approval"])
Decided ==
  /\ DOMAIN losses' = DOMAIN losses
  /\ \A i \in DOMAIN losses :
       /\ losses'[i].correction = losses[i].correction
       /\ losses'[i].asset = losses[i].asset
       /\ losses'[i].requester = losses[i].requester
       /\ losses'[i].status \in {"approved", "written_off"} =>
            \/ losses[i].status \in {"approved", "written_off"} /\ losses'[i].approver = losses[i].approver
            \/ losses'[i].approver \notin {None, losses[i].requester}
       /\ losses'[i].status = "recovered" /\ losses[i].status # "recovered" =>
            assets'[losses[i].asset].status # "lost"

LEMMA CaseTables ==
  ASSUME TypeOK, CasesSound, Next
  PROVE  Searched /\ (Requested \/ Decided)
<1>0. losses \in Seq(Loss)
  BY DEF TypeOK
<1>1. CASE UNCHANGED <<searches, losses>>
  BY <1>1 DEF Searched, Decided
<1>2. CASE \E k \in Corrections, a \in Assets : ReportMissing(k, a)
  BY <1>2 DEF ReportMissing, Searched, Decided
<1>3. CASE \E k \in Corrections : OpenInvestigation(k)
  BY <1>3 DEF OpenInvestigation, Searched, Decided
<1>4. CASE \E k \in Corrections, o \in Outcomes : CloseInvestigation(k, o)
  BY <1>4 DEF CloseInvestigation, Searched, Decided
<1>5. CASE \E k \in Corrections, u \in Actors : RequestLoss(k, u)
  BY <1>5 DEF RequestLoss, Searched, Requested
<1>6. CASE \E i \in DOMAIN losses : WriteOff(i)
  <2>1. PICK i \in DOMAIN losses : WriteOff(i)
    BY <1>6
  <2>2. /\ losses[i].status = "approved" /\ UNCHANGED searches
        /\ losses' = [losses EXCEPT ![i] = [losses[i] EXCEPT !.status = "written_off"]]
    BY <2>1 DEF WriteOff
  <2>3. \A j \in DOMAIN losses : losses[j] \in Loss
    BY <1>0
  <2>4. Decided
    BY <1>0, <2>2, <2>3 DEF Decided, Loss
  <2>5. QED
    BY <2>2, <2>4 DEF Searched
<1>7. CASE \E i \in DOMAIN losses, u \in Actors : ApproveLoss(i, u)
  <2>1. PICK i \in DOMAIN losses, u \in Actors : ApproveLoss(i, u)
    BY <1>7
  <2>2. /\ losses[i].requester # u /\ UNCHANGED searches
        /\ losses' = [losses EXCEPT ![i] = [losses[i] EXCEPT !.status = "approved", !.approver = u]]
    BY <2>1 DEF ApproveLoss
  <2>3. \A j \in DOMAIN losses : losses[j] \in Loss
    BY <1>0
  <2>4. u # None
    BY NoneAssumption
  <2>5. Decided
    BY <1>0, <2>2, <2>3, <2>4 DEF Decided, Loss
  <2>6. QED
    BY <2>2, <2>5 DEF Searched
<1>8. CASE \E i \in DOMAIN losses, l \in Locations : Recover(i, l)
  <2>1. PICK i \in DOMAIN losses, l \in Locations : Recover(i, l)
    BY <1>8
  <2>2. /\ UNCHANGED searches
        /\ losses' = [losses EXCEPT ![i] = [losses[i] EXCEPT !.status = "recovered"]]
    BY <2>1 DEF Recover
  <2>3. \A j \in DOMAIN losses : losses[j] \in Loss
    BY <1>0
  <2>4. assets'[losses[i].asset] = Cleared("quarantine", l)
    BY <2>1, RecoverIsProper, MoveEffect
  <2>5. assets'[losses[i].asset].status # "lost"
    BY <2>4 DEF Cleared
  <2>6. Decided
    BY <1>0, <2>2, <2>3, <2>5 DEF Decided, Loss
  <2>7. QED
    BY <2>2, <2>6 DEF Searched
<1>9. QED
  BY <1>1, <1>2, <1>3, <1>4, <1>5, <1>6, <1>7, <1>8
  DEF Next, Return, Retire, Dispose, AddDisposalEvidence, Receive, ReceiveStopped, ReceiveAgain,
      ReceiptEnds, PutAway, SetAside, Issue, Relocate, Activate, DeactivateCustomer,
      DeactivateLocation

\* A confirmed loss stays confirmed, and stays about the same asset.
LEMMA ConfirmedStays ==
  ASSUME TypeOK, CasesSound, Searched, NEW k \in Corrections
  PROVE  /\ missing[k] # None => missing'[k] = missing[k]
         /\ investigations[k] = "confirmed_lost" => investigations'[k] = "confirmed_lost"
<1>1. missing \in [Corrections -> Assets \union {None}]
      /\ investigations \in [Corrections -> Outcomes \union {"open", None}]
  BY DEF TypeOK
<1>2. QED
  BY <1>1, NoneAssumption DEF Searched, searches

LEMMA CasesStep ==
  ASSUME TypeOK, CasesSound, Next
  PROVE  CasesSound'
<1>0. /\ missing \in [Corrections -> Assets \union {None}]
      /\ investigations \in [Corrections -> Outcomes \union {"open", None}]
      /\ losses \in Seq(Loss) /\ Searched
  BY CaseTables DEF TypeOK
<1>1. \A k \in Corrections : missing'[k] # None => assets'[missing'[k]] # None
  <2>1. SUFFICES ASSUME NEW k \in Corrections, missing'[k] # None
                 PROVE  missing'[k] \in Assets /\ assets[missing'[k]] # None
    BY AssetsStay
  <2>2. QED
    BY <1>0, <2>1 DEF Searched, searches, CasesSound
<1>2. \A k \in Corrections : investigations'[k] # None => missing'[k] # None
  BY <1>0, NoneAssumption DEF Searched, searches, CasesSound
<1> DEFINE Sound(i) ==
       /\ investigations[losses[i].correction] = "confirmed_lost"
       /\ losses[i].asset = missing[losses[i].correction]
       /\ losses[i].status \in {"approved", "written_off"} =>
            losses[i].approver \notin {None, losses[i].requester}
       /\ \A j \in DOMAIN losses : losses[j].correction = losses[i].correction => j = i
<1>3. \A i \in DOMAIN losses : Sound(i) /\ losses[i] \in Loss /\ losses[i].correction \in Corrections
                               /\ missing[losses[i].correction] # None
  <2>1. \A i \in DOMAIN losses : losses[i] \in Loss /\ losses[i].correction \in Corrections
    <3>1. \A i \in DOMAIN losses : losses[i] \in Loss
      BY <1>0
    <3>2. QED
      BY <3>1 DEF Loss
  <2>2. QED
    BY <2>1, NoneAssumption DEF CasesSound
<1>4. ASSUME NEW i \in DOMAIN losses
      PROVE  /\ investigations'[losses[i].correction] = "confirmed_lost"
             /\ losses[i].asset = missing'[losses[i].correction]
  BY <1>0, <1>3, ConfirmedStays
<1>5. \A i \in DOMAIN losses' : Sound(i)'
  <2>1. CASE Decided
    BY <1>3, <1>4, <2>1 DEF Decided
  <2>2. CASE Requested
    <3>1. PICK k \in Corrections, u \in Actors :
            /\ investigations[k] = "confirmed_lost" /\ CaseOf(k) = {}
            /\ losses' = Append(losses, [correction |-> k, asset |-> missing[k], requester |-> u,
                                         approver |-> None, status |-> "pending_approval"])
      BY <2>2 DEF Requested
    <3> DEFINE case == [correction |-> k, asset |-> missing[k], requester |-> u,
                        approver |-> None, status |-> "pending_approval"]
    <3>0. PICK n : n = Len(losses) + 1
      OBVIOUS
    <3>2. case.correction = k /\ case.asset = missing[k] /\ case.status = "pending_approval"
      OBVIOUS
    <3>3. missing[k] # None
      BY <3>1, NoneAssumption DEF CasesSound
    <3>4. investigations'[k] = "confirmed_lost" /\ missing'[k] = missing[k]
      BY <1>0, <3>1, <3>3, ConfirmedStays
    <3>5. losses' = Append(losses, case)
      BY <3>1
    <3> HIDE DEF case
    <3>6. DOMAIN losses' = DOMAIN losses \union {n} /\ losses'[n] = case /\ n \notin DOMAIN losses
          /\ \A i \in DOMAIN losses : losses'[i] = losses[i]
      BY <1>0, <3>0, <3>5
    <3>7. \A i \in DOMAIN losses : losses[i].correction # k
      BY <3>1 DEF CaseOf
    <3>8. Sound(n)'
      BY <3>2, <3>4, <3>6, <3>7
    <3>9. \A i \in DOMAIN losses : Sound(i)'
      BY <1>3, <1>4, <3>2, <3>6, <3>7
    <3>10. QED
      BY <3>6, <3>8, <3>9
  <2>3. QED
    BY <2>1, <2>2, CaseTables
<1>6. QED
  BY <1>1, <1>2, <1>5 DEF CasesSound
-----------------------------------------------------------------------------
(* The movement rows.                                                      *)

\* MovementsExplainAssets for the rows of one asset that has been received.
Chain(rows, asset) ==
  /\ rows # << >> => rows[1].from = "received"
  /\ \A i \in DOMAIN rows :
       LET after == IF i < Len(rows)
                      THEN [status |-> rows[i + 1].from, customer |-> rows[i + 1].customer]
                      ELSE [status |-> asset.status, customer |-> asset.customer]
       IN  \/ after.status = "received"
           \/ /\ rows[i].to = after.status
              /\ rows[i].to = "issued" => rows[i].customer = after.customer

\* An asset that never moved is as its receipt left it, apart from where it is.
NewIsReceived ==
  \A a \in Assets : assets[a] # None /\ movements[a] = << >> => assets[a].status = "received"

\* The row a move appends continues the chain.
LEMMA ChainExtends ==
  ASSUME NEW rows \in Seq(Movement), NEW old \in Asset, NEW new \in Asset, Chain(rows, old),
         new.status = "issued" => new.customer # None,
         old.status = "issued" => new.customer = None,
         rows = << >> => old.status = "received"
  PROVE  Chain(Append(rows, Row(old, new)), new)
<1> DEFINE row == Row(old, new)
           all == Append(rows, row)
<1>1. /\ row.from = old.status /\ row.to = new.status
      /\ new.customer = None => row.customer = old.customer
      /\ new.customer # None => row.customer = new.customer
  BY DEF Row
<1> HIDE DEF row
<1>2. PICK n \in Nat : n = Len(rows)
  OBVIOUS
<1>3. /\ DOMAIN rows = 1..n /\ DOMAIN all = 1..(n + 1) /\ Len(all) = n + 1
      /\ \A i \in 1..n : all[i] = rows[i]
      /\ all[n + 1] = row
  BY <1>2
<1> HIDE DEF all
<1>4. ASSUME NEW i \in 1..n
      PROVE  \/ all[i + 1].from = "received"
             \/ /\ all[i].to = all[i + 1].from
                /\ all[i].to = "issued" => all[i].customer = all[i + 1].customer
  <2>1. CASE i < n
    <3>1. i + 1 \in 1..n /\ all[i] = rows[i] /\ all[i + 1] = rows[i + 1]
      BY <1>3, <2>1
    <3>2. QED
      BY <1>2, <1>3, <2>1, <3>1 DEF Chain
  <2>2. CASE i = n
    <3>1. all[i] = rows[i] /\ all[i + 1] = row
      BY <1>3, <2>2
    <3>2. ~(i < Len(rows))
      BY <1>2, <2>2
    <3>3. \/ old.status = "received"
          \/ /\ rows[i].to = old.status
             /\ rows[i].to = "issued" => rows[i].customer = old.customer
      BY <1>3, <3>2 DEF Chain
    <3>4. QED
      BY <1>1, <3>1, <3>3
  <2>3. QED
    BY <2>1, <2>2
<1>5. /\ all[n + 1].to = new.status
      /\ all[n + 1].to = "issued" => all[n + 1].customer = new.customer
  BY <1>1, <1>3
<1>8. all[1].from = "received"
  <2>1. CASE rows = << >>
    <3>1. n = 0
      BY <1>2, <2>1
    <3>2. QED
      BY <1>1, <1>3, <2>1, <3>1
  <2>2. CASE rows # << >>
    <3>1. 1 \in 1..n
      BY <1>2, <2>2, EmptySeq
    <3>2. QED
      BY <1>3, <3>1 DEF Chain
  <2>3. QED
    BY <2>1, <2>2
<1>6. Chain(all, new)
  <2>1. SUFFICES ASSUME NEW i \in 1..(n + 1)
                 PROVE  LET after == IF i < n + 1
                              THEN [status |-> all[i + 1].from, customer |-> all[i + 1].customer]
                              ELSE [status |-> new.status, customer |-> new.customer]
                        IN  \/ after.status = "received"
                            \/ /\ all[i].to = after.status
                               /\ all[i].to = "issued" => all[i].customer = after.customer
    BY <1>3, <1>8 DEF Chain
  <2>2. CASE i < n + 1
    BY <1>4, <2>2
  <2>3. CASE i = n + 1
    BY <1>5, <2>3
  <2>4. QED
    BY <2>2, <2>3
<1>7. QED
  BY <1>6 DEF all, row

LEMMA MovementsStep ==
  ASSUME TypeOK, CasesSound, MovementsExplainAssets, NewIsReceived, Next
  PROVE  MovementsExplainAssets' /\ NewIsReceived'
<1>1. SUFFICES ASSUME NEW b \in Assets
               PROVE  /\ assets'[b] = None => movements'[b] = << >>
                      /\ Chain(movements'[b], assets'[b])
                      /\ assets'[b] # None /\ movements'[b] = << >> => assets'[b].status = "received"
  BY DEF MovementsExplainAssets, NewIsReceived, Chain
<1>2. /\ assets[b] = None => movements[b] = << >>
      /\ Chain(movements[b], assets[b])
      /\ assets[b] # None /\ movements[b] = << >> => assets[b].status = "received"
  BY DEF MovementsExplainAssets, NewIsReceived, Chain
<1>3. CASE Kept
  BY <1>2, <1>3 DEF Kept
<1>4. CASE Arrives
  <2>1. PICK a \in Assets, l \in Locations : Enters(a, l)
    BY <1>4 DEF Arrives
  <2>2. movements'[b] = movements[b]
    BY <2>1, ReceiveEffect
  <2>3. CASE b = a
    <3>1. assets'[b] = Cleared("received", l) /\ assets'[b] # None
      BY <2>1, <2>3, ReceiveEffect
    <3>2. assets'[b].status = "received"
      BY <3>1 DEF Cleared
    <3>3. Chain(movements[b], assets'[b])
      BY <1>2, <3>2 DEF Chain
    <3>4. QED
      BY <2>2, <3>1, <3>2, <3>3
  <2>4. CASE b # a
    <3>1. assets'[b] = assets[b]
      BY <2>1, <2>4, ReceiveEffect
    <3>2. QED
      BY <1>2, <2>2, <3>1
  <2>5. QED
    BY <2>3, <2>4
<1>5. CASE Moves
  <2>1. PICK a \in Assets : \E new : Proper(a, new) /\ Move(a, new)
    BY <1>5 DEF Moves
  <2>2. PICK new : Proper(a, new) /\ Move(a, new)
    BY <2>1
  <2>3. CASE b = a
    <3>1. assets[a] \in Asset /\ new \in Asset
      BY <2>2 DEF Proper
    <3>2. new.status = "issued" => new.customer # None
      BY <2>2, NoneAssumption DEF Proper, TypeOK
    <3>3. assets[a].status = "issued" => new.customer = None
      BY <2>2 DEF Proper
    <3>4. movements[a] \in Seq(Movement)
      BY DEF TypeOK
    <3>5. movements[a] = << >> => assets[a].status = "received"
      BY <1>2, <2>3, <3>1, NoneAssumption
    <3>6. Chain(Append(movements[a], Row(assets[a], new)), new)
      BY <1>2, <2>3, <3>1, <3>2, <3>3, <3>4, <3>5, ChainExtends
    <3>7. Append(movements[a], Row(assets[a], new)) # << >>
      BY <3>4
    <3>8. QED
      BY <2>2, <2>3, <3>6, <3>7, MoveEffect
  <2>4. CASE b # a
    BY <1>2, <2>2, <2>4, MoveEffect
  <2>5. QED
    BY <2>3, <2>4
<1>6. CASE Relocates
  <2>1. PICK a \in Assets, l \in Locations : Relocate(a, l)
    BY <1>6 DEF Relocates
  <2>2. /\ movements'[b] = movements[b] /\ (assets[b] = None <=> assets'[b] = None)
        /\ assets'[b].status = assets[b].status /\ assets'[b].customer = assets[b].customer
    BY <2>1, RelocateEffect
  <2>3. QED
    BY <1>2, <2>2 DEF Chain
<1>7. QED
  BY <1>3, <1>4, <1>5, <1>6, StepKinds

-----------------------------------------------------------------------------
(* Recovery and disposal.                                                  *)

\* An asset becomes lost only when an investigation of it is closed as a
\* confirmed loss, and disposed of only by Dispose.
LEMMA StatusChanges ==
  ASSUME TypeOK, CasesSound, Next, NEW a \in Assets, assets'[a] # None,
         assets[a] = None \/ assets'[a].status # assets[a].status
  PROVE  \/ assets'[a].status \notin {"lost", "disposed"}
         \/ assets'[a].status = "lost" /\ \E k \in Corrections :
              missing[k] = a /\ CloseInvestigation(k, "confirmed_lost")
         \/ assets'[a].status = "disposed" /\ Dispose(a)
<1>1. CASE \E k \in Corrections, o \in Outcomes : CloseInvestigation(k, o)
  <2>1. PICK k \in Corrections, o \in Outcomes : CloseInvestigation(k, o)
    BY <1>1
  <2>2. missing[k] \in Assets /\ assets[missing[k]] # None
    BY <2>1, NoneAssumption DEF CloseInvestigation, CasesSound, TypeOK
  <2>3. CASE o = "confirmed_lost" /\ assets[missing[k]].status # "lost"
    <3>1. Proper(missing[k], Cleared("lost", assets[missing[k]].location))
          /\ Move(missing[k], Cleared("lost", assets[missing[k]].location))
      BY <2>1, <2>2, <2>3, LostIsProper DEF CloseInvestigation, SetLost
    <3>2. missing[k] = a
      BY <2>2, <3>1, MoveEffect
    <3>3. assets'[a] = Cleared("lost", assets[missing[k]].location)
      BY <2>2, <3>1, <3>2, MoveEffect
    <3>4. assets'[a].status = "lost"
      BY <3>3 DEF Cleared
    <3>5. QED
      BY <2>1, <2>3, <3>2, <3>4
  <2>4. CASE ~(o = "confirmed_lost" /\ assets[missing[k]].status # "lost")
    <3>1. assets' = assets
      BY <2>1, <2>4 DEF CloseInvestigation, SetLost
    <3>2. QED
      BY <3>1
  <2>5. QED
    BY <2>3, <2>4
<1>2. CASE \E b \in Assets : Dispose(b)
  <2>1. PICK b \in Assets : Dispose(b)
    BY <1>2
  <2>2. assets' = [assets EXCEPT ![b] = Cleared("disposed", assets[b].location)]
    BY <2>1 DEF Dispose, Move
  <2>3. b = a
    BY <2>2 DEF TypeOK
  <2>4. assets'[a] = Cleared("disposed", assets[b].location)
    BY <2>2, <2>3 DEF TypeOK
  <2>5. QED
    BY <2>1, <2>3, <2>4 DEF Cleared
<1> DEFINE Elsewhere ==
      \E b \in Assets, x \in Asset : x.status \notin {"lost", "disposed"}
                                     /\ assets' = [assets EXCEPT ![b] = x]
<1>3. ASSUME Elsewhere
      PROVE  assets'[a].status \notin {"lost", "disposed"}
  <2>1. PICK b \in Assets, x \in Asset : x.status \notin {"lost", "disposed"}
                                         /\ assets' = [assets EXCEPT ![b] = x]
    BY <1>3
  <2>2. assets'[a] = assets[a] \/ assets'[a] = x
    BY <2>1 DEF TypeOK
  <2>3. QED
    BY <2>1, <2>2
<1>4. CASE \E b \in Assets : Return(b) \/ Retire(b)
  <2>1. PICK b \in Assets, s \in {"returned", "retired"} :
          CanBecome(b, s) /\ Move(b, Cleared(s, assets[b].location))
    BY <1>4 DEF Return, Retire
  <2>2. s \in Lifecycle /\ assets[b].location \in Locations
    BY <2>1, KnownAsset
  <2>3. Cleared(s, assets[b].location) \in Asset /\ Cleared(s, assets[b].location).status = s
    BY <2>2, ClearedRow
  <2>4. s \notin {"lost", "disposed"}
    OBVIOUS
  <2>5. Elsewhere
    BY <2>1, <2>3, <2>4 DEF Move
  <2>6. QED
    BY <1>3, <2>5
<1>5. ASSUME NEW b \in Assets, NEW l \in Locations,
             NEW s \in {"received", "in_stock", "repair", "quarantine"},
             assets' = [assets EXCEPT ![b] = Cleared(s, l)]
      PROVE  assets'[a].status \notin {"lost", "disposed"}
  <2>2. s \in Lifecycle
    BY DEF Lifecycle
  <2>3. Cleared(s, l) \in Asset /\ Cleared(s, l).status = s
    BY <2>2, ClearedRow
  <2>4. s \notin {"lost", "disposed"}
    OBVIOUS
  <2>5. Elsewhere
    BY <1>5, <2>3, <2>4
  <2>6. QED
    BY <1>3, <2>5
<1>6. CASE \E b \in Assets, c \in Customers, m \in {"dedicated", "loan"} : Issue(b, c, m)
  <2>1. PICK b \in Assets, c \in Customers, m \in {"dedicated", "loan"} : Issue(b, c, m)
    BY <1>6
  <2>2. assets[b] \in Asset
    BY <2>1, KnownAsset DEF Issue
  <2>3. PICK x \in Asset : x.status = "issued" /\ assets' = [assets EXCEPT ![b] = x]
    BY <2>1, <2>2 DEF Issue, Move, Asset, Lifecycle
  <2>4. Elsewhere
    BY <2>3
  <2>5. QED
    BY <1>3, <2>4
<1>7. CASE \E i \in DOMAIN losses, l \in Locations : Recover(i, l)
  <2>1. PICK i \in DOMAIN losses, l \in Locations : Recover(i, l)
    BY <1>7
  <2>2. losses[i].asset \in Assets /\ Move(losses[i].asset, Cleared("quarantine", l))
    BY <2>1, RecoverIsProper
  <2>3. Cleared("quarantine", l) \in Asset /\ Cleared("quarantine", l).status = "quarantine"
    BY DEF Cleared, Asset, Lifecycle
  <2>4. Elsewhere
    BY <2>2, <2>3 DEF Move
  <2>5. QED
    BY <1>3, <2>4
<1>8. CASE UNCHANGED assets
  BY <1>8
<1>10. CASE \E b \in Assets, l \in Locations : Relocate(b, l)
  <2>1. PICK b \in Assets, l \in Locations : Relocate(b, l)
    BY <1>10
  <2>2. assets[a] # None /\ assets'[a].status = assets[a].status
    BY <2>1, RelocateEffect
  <2>3. QED
    BY <2>2
<1>9. QED
  <2>1. CASE \E b \in Assets : Return(b) \/ Retire(b) \/ Dispose(b)
    BY <1>2, <1>4, <2>1
  <2>4. CASE \E b \in Assets :
               ReceiveAgain(b) \/ \E l \in Locations : Receive(b, l) \/ ReceiveStopped(b, l)
    <3>1. PICK b \in Assets, l \in Locations : Enters(b, l)
      BY <2>4, ReceiptsEnter
    <3>2. QED
      BY <1>5, <3>1 DEF Enters
  <2>2. CASE \E b \in Assets, l \in Locations : PutAway(b, l)
               \/ \E s \in {"repair", "quarantine"} : SetAside(b, s, l)
    <3>1. PICK b \in Assets, l \in Locations : PutAway(b, l)
               \/ \E s \in {"repair", "quarantine"} : SetAside(b, s, l)
      BY <2>2
    <3>3. CASE PutAway(b, l)
      BY <1>5, <3>3 DEF PutAway, Move
    <3>4. CASE \E s \in {"repair", "quarantine"} : SetAside(b, s, l)
      BY <1>5, <3>4 DEF SetAside, Move
    <3>5. QED
      BY <3>1, <3>3, <3>4
  <2>3. QED
    BY <1>1, <1>6, <1>7, <1>8, <1>10, <2>1, <2>2, <2>4
    DEF Next, ReceiptEnds, AddDisposalEvidence, ReportMissing, OpenInvestigation, RequestLoss, WriteOff,
        ApproveLoss, Activate, DeactivateCustomer, DeactivateLocation

\* The investigation that loses an asset has no case yet.
LEMMA BecomesLost ==
  ASSUME TypeOK, CasesSound, Next, NEW a \in Assets, assets'[a] # None,
         assets'[a].status = "lost", assets[a] = None \/ assets[a].status # "lost"
  PROVE  \E k \in Corrections : /\ missing[k] = a /\ missing' = missing
                                /\ investigations'[k] = "confirmed_lost"
                                /\ CaseOf(k) = {} /\ losses' = losses
<1>1. PICK k \in Corrections : missing[k] = a /\ CloseInvestigation(k, "confirmed_lost")
  BY StatusChanges
<1>2. investigations[k] = "open" /\ investigations'[k] = "confirmed_lost"
      /\ UNCHANGED <<missing, losses>>
  BY <1>1 DEF CloseInvestigation, TypeOK
<1>3. CaseOf(k) = {}
  BY <1>2 DEF CaseOf, CasesSound
<1>4. QED
  BY <1>1, <1>2, <1>3

\* A confirmed loss whose cases are not used up keeps that, while the asset
\* stays lost.
LEMMA RecoverableStays ==
  ASSUME TypeOK, CasesSound, Next, NEW a \in Assets, assets'[a].status = "lost",
         NEW k \in ConfirmedFor(a), \A i \in CaseOf(k) : losses[i].status # "recovered"
  PROVE  k \in ConfirmedFor(a)' /\ \A i \in CaseOf(k)' : losses'[i].status # "recovered"
<1>0. k \in Corrections /\ missing[k] = a /\ investigations[k] = "confirmed_lost" /\ a # None
  BY NoneAssumption DEF ConfirmedFor
<1>1. k \in ConfirmedFor(a)'
  BY <1>0, CaseTables, ConfirmedStays DEF ConfirmedFor
<1>2. losses \in Seq(Loss)
  BY DEF TypeOK
<1>3. SUFFICES ASSUME NEW i \in DOMAIN losses', losses'[i].correction = k
               PROVE  losses'[i].status # "recovered"
  BY <1>1 DEF CaseOf
<1>4. CASE Decided
  <2>1. i \in DOMAIN losses /\ losses[i].correction = k
    BY <1>3, <1>4 DEF Decided
  <2>2. losses[i].asset = a /\ losses[i].status # "recovered"
    BY <1>0, <2>1 DEF CasesSound, CaseOf
  <2>3. QED
    BY <1>4, <2>1, <2>2 DEF Decided
<1>5. CASE Requested
  <2>1. PICK c, u : /\ c = [correction |-> u, asset |-> missing[u], requester |-> c.requester,
                            approver |-> None, status |-> "pending_approval"]
                    /\ losses' = Append(losses, c)
    BY <1>5 DEF Requested
  <2>2. c.status = "pending_approval"
    BY <2>1
  <2>3. CASE i \in DOMAIN losses
    <3>1. losses'[i] = losses[i]
      BY <1>2, <2>1, <2>3
    <3>2. QED
      BY <1>3, <2>3, <3>1 DEF CaseOf
  <2>4. CASE i \notin DOMAIN losses
    <3>1. losses'[i] = c
      BY <1>2, <1>3, <2>1, <2>4
    <3>2. QED
      BY <2>2, <3>1
  <2>5. QED
    BY <2>3, <2>4
<1>6. QED
  BY <1>4, <1>5, CaseTables

LEMMA RecoverableStep ==
  ASSUME TypeOK, CasesSound, LostAssetsAreRecoverable, Next
  PROVE  LostAssetsAreRecoverable'
<1>1. SUFFICES ASSUME NEW a \in Assets, assets'[a] # None, assets'[a].status = "lost"
               PROVE  \E k \in ConfirmedFor(a)' : \A i \in CaseOf(k)' : losses'[i].status # "recovered"
  BY DEF LostAssetsAreRecoverable
<1>2. CASE assets[a] # None /\ assets[a].status = "lost"
  <2>1. PICK k \in ConfirmedFor(a) : \A i \in CaseOf(k) : losses[i].status # "recovered"
    BY <1>2 DEF LostAssetsAreRecoverable
  <2>2. QED
    BY <1>1, <2>1, RecoverableStays
<1>3. CASE assets[a] = None \/ assets[a].status # "lost"
  <2>1. PICK k \in Corrections : /\ missing[k] = a /\ missing' = missing
                                 /\ investigations'[k] = "confirmed_lost"
                                 /\ CaseOf(k) = {} /\ losses' = losses
    BY <1>1, <1>3, BecomesLost
  <2>2. QED
    BY <2>1 DEF ConfirmedFor, CaseOf
<1>4. QED
  BY <1>2, <1>3

LEMMA DisposalStep ==
  ASSUME TypeOK, CasesSound, Next, NEW a \in Assets, assets[a] # None,
         assets[a].status # "disposed", assets'[a].status = "disposed"
  PROVE  /\ a \in evidence
         /\ ConfirmedFor(a) # {} => \E i \in CasesOf(a) :
              losses[i].status = "written_off" /\ losses[i].approver \notin {None, losses[i].requester}
<1>1. Dispose(a)
  BY AssetsStay, StatusChanges
<1>2. a \in evidence /\ DisposalAllowed(a)
  BY <1>1 DEF Dispose
<1>3. ASSUME ConfirmedFor(a) # {}
      PROVE  \E i \in CasesOf(a) :
               losses[i].status = "written_off" /\ losses[i].approver \notin {None, losses[i].requester}
  <2>1. PICK i \in CasesOf(a) : losses[i].status = "written_off"
    BY <1>2, <1>3 DEF DisposalAllowed
  <2>2. losses[i].approver \notin {None, losses[i].requester}
    BY <2>1 DEF CasesOf, CasesSound
  <2>3. QED
    BY <2>1, <2>2
<1>4. QED
  BY <1>2, <1>3

-----------------------------------------------------------------------------
(* The theorems.  TypeOK is inductive only together with CasesSound, which *)
(* the steps of a loss case rely on; the other invariants follow from the  *)
(* two and themselves.                                                     *)

Sound == TypeOK /\ CasesSound

LEMMA SoundInvariant == Spec => []Sound
<1>1. Init => Sound
  <2> SUFFICES ASSUME Init PROVE Sound
    OBVIOUS
  <2>1. << >> \in Seq(Movement) /\ << >> \in Seq(Loss)
    OBVIOUS
  <2>2. losses = << >> /\ DOMAIN losses = {}
    BY DEF Init
  <2>3. TypeOK
    BY <2>1 DEF Init, TypeOK
  <2>4. CasesSound
    <3>1. /\ \A k \in Corrections : missing[k] = None
          /\ \A k \in Corrections : investigations[k] = None
      BY DEF Init
    <3>2. QED
      BY <2>2, <3>1 DEF CasesSound
  <2>5. QED
    BY <2>3, <2>4 DEF Sound
<1>2. Sound /\ [Next]_vars => Sound'
  <2>1. CASE Next
    BY <2>1, TypeStep, CasesStep DEF Sound
  <2>2. CASE UNCHANGED vars
    BY <2>2 DEF vars, Sound, TypeOK, CasesSound
  <2>3. QED
    BY <2>1, <2>2
<1>3. QED
  BY <1>1, <1>2, PTL DEF Spec

\* Every table keeps its type: no column ever holds a value that the code does
\* not write to it.
THEOREM CustodyTypeCorrect == Spec => []TypeOK
<1>1. Sound => TypeOK
  BY DEF Sound
<1>2. QED
  BY <1>1, SoundInvariant, PTL

\* No sequence of issues, returns, losses, recoveries and deactivations leaves
\* an asset with an inactive customer, or with the traces of a former one.
THEOREM HoldersAreActive == Spec => []HeldByActiveCustomers
<1>1. Init => HeldByActiveCustomers
  BY DEF Init, HeldByActiveCustomers
<1>2. HeldByActiveCustomers /\ Sound /\ [Next]_vars => HeldByActiveCustomers'
  <2>1. CASE Next
    BY <2>1, HeldStep DEF Sound
  <2>2. CASE UNCHANGED vars
    BY <2>2 DEF vars, HeldByActiveCustomers
  <2>3. QED
    BY <2>1, <2>2
<1>3. QED
  BY <1>1, <1>2, SoundInvariant, PTL DEF Spec

\* An asset in use is never left at a location that was deactivated, although
\* a lost asset may come from one.
THEOREM PlacesAreActive == Spec => []InUseAtActiveLocations
<1>1. Init => InUseAtActiveLocations
  BY DEF Init, InUseAtActiveLocations
<1>2. InUseAtActiveLocations /\ Sound /\ [Next]_vars => InUseAtActiveLocations'
  <2>1. CASE Next
    BY <2>1, PlaceStep DEF Sound
  <2>2. CASE UNCHANGED vars
    BY <2>2 DEF vars, InUseAtActiveLocations
  <2>3. QED
    BY <2>1, <2>2
<1>3. QED
  BY <1>1, <1>2, SoundInvariant, PTL DEF Spec

\* The movement table of an asset of any age begins with its receipt and ends
\* where the asset is, and only another receipt of the asset breaks the chain.
THEOREM MovementsExplain == Spec => []MovementsExplainAssets
<1> DEFINE Explained == MovementsExplainAssets /\ NewIsReceived
<1>1. Init => Explained
  BY DEF Init, MovementsExplainAssets, NewIsReceived
<1>2. Explained /\ Sound /\ [Next]_vars => Explained'
  <2>1. CASE Next
    BY <2>1, MovementsStep DEF Sound
  <2>2. CASE UNCHANGED vars
    BY <2>2 DEF vars, MovementsExplainAssets, NewIsReceived
  <2>3. QED
    BY <2>1, <2>2
<1>3. Explained => MovementsExplainAssets
  OBVIOUS
<1> HIDE DEF Explained
<1>4. QED
  BY <1>1, <1>2, <1>3, SoundInvariant, PTL DEF Spec

\* However many investigations and cases an asset has had, a lost one can be
\* recovered.
THEOREM LostCanBeRecovered == Spec => []LostAssetsAreRecoverable
<1>1. Init => LostAssetsAreRecoverable
  BY DEF Init, LostAssetsAreRecoverable
<1>2. LostAssetsAreRecoverable /\ Sound /\ [Next]_vars => LostAssetsAreRecoverable'
  <2>1. CASE Next
    BY <2>1, RecoverableStep DEF Sound
  <2>2. CASE UNCHANGED vars
    BY <2>2 DEF vars, LostAssetsAreRecoverable, ConfirmedFor, CaseOf
  <2>3. QED
    BY <2>1, <2>2
<1>3. QED
  BY <1>1, <1>2, SoundInvariant, PTL DEF Spec

\* Every disposal has its evidence and, after a confirmed loss, a write-off
\* that two people agreed to.
THEOREM DisposalsAreEvidenced == Spec => DisposalIsEvidenced
<1> DEFINE Evidenced ==
      \A a \in Assets :
        assets[a] # None /\ assets[a].status # "disposed" /\ assets'[a].status = "disposed" =>
          /\ a \in evidence
          /\ ConfirmedFor(a) # {} => \E i \in CasesOf(a) :
               losses[i].status = "written_off" /\ losses[i].approver \notin {None, losses[i].requester}
<1>1. Sound /\ [Next]_vars => [Evidenced]_vars
  <2>1. CASE Next
    BY <2>1, DisposalStep DEF Sound
  <2>2. CASE UNCHANGED vars
    BY <2>2
  <2>3. QED
    BY <2>1, <2>2
<1>2. QED
  BY <1>1, SoundInvariant, PTL DEF Spec, DisposalIsEvidenced

-----------------------------------------------------------------------------
(* What AssetLedger sees of a step.                                        *)

\* The row a step writes for one asset, as AssetLedger sees it.
ShownRow(row) == [status |-> LedgerStatus[row.status], location |-> row.location]

LEMMA ShownRowIsRow ==
  ASSUME NEW row \in Asset
  PROVE  /\ ShownRow(row) \in Ledger!Rows /\ ShownRow(row) # Ledger!Absent
         /\ row # None
         /\ ShownRow(row).status = "disposed" <=> row.status = "disposed"
         /\ row.status = "retired" => ShownRow(row).status = "held"
         /\ row.status = "lost" => ShownRow(row).status = "away"
         /\ ShownRow(row).location = row.location
<1>1. row.status \in Lifecycle /\ row.location \in Locations /\ row # None
  BY NoneAssumption DEF Asset
<1>2. /\ LedgerStatus[row.status] \in Ledger!LedgerStatuses \ {"absent"}
      /\ LedgerStatus[row.status] = "disposed" <=> row.status = "disposed"
      /\ row.status = "retired" => LedgerStatus[row.status] = "held"
      /\ row.status = "lost" => LedgerStatus[row.status] = "away"
  BY <1>1 DEF Lifecycle, LedgerStatus, Ledger!LedgerStatuses
<1>3. QED
  BY <1>1, <1>2 DEF ShownRow, Ledger!Rows, Ledger!Absent

\* A step that writes one row is a change of the ledger or none at all, as long
\* as only retired assets are disposed of, where they are, and only a loss or
\* another receipt takes an asset out of that state.
LEMMA WrittenRowIsShown ==
  ASSUME TypeOK, NEW a \in Assets, NEW new \in Asset, assets' = [assets EXCEPT ![a] = new],
         assets[a] = None => new.status = "received",
         assets[a] # None /\ assets[a].status = "disposed" =>
           new.status = "received" \/ (new.status = "lost" /\ new.location = assets[a].location),
         new.status = "disposed" =>
           assets[a] # None /\ assets[a].status = "retired" /\ new.location = assets[a].location
  PROVE  UNCHANGED LedgerRows \/ Ledger!Changed(a)
<1> DEFINE row == ShownRow(new)
<1>1. row \in Ledger!Rows /\ new # None
  BY ShownRowIsRow
<1>2. LedgerRows' = [LedgerRows EXCEPT ![a] = row]
  <2>1. assets'[a] = new /\ \A b \in Assets \ {a} : assets'[b] = assets[b]
    BY DEF TypeOK
  <2>2. QED
    BY <1>1, <2>1 DEF LedgerRows, LedgerRow, ShownRow
<1>3. LedgerRows[a] = (IF assets[a] = None THEN Ledger!Absent ELSE ShownRow(assets[a]))
  BY DEF LedgerRows, LedgerRow, ShownRow, Ledger!Absent
<1>4. LedgerRows[a] = Ledger!Absent => row.status = "held"
  <2>1. CASE assets[a] = None
    BY <2>1 DEF ShownRow, LedgerStatus
  <2>2. CASE assets[a] # None
    BY <1>3, <2>2, ShownRowIsRow DEF TypeOK
  <2>3. QED
    BY <2>1, <2>2
<1>5. LedgerRows[a].status = "disposed" =>
        row.status = "held" \/ row = [LedgerRows[a] EXCEPT !.status = "away"]
  <2>1. CASE assets[a] = None
    BY <1>3, <2>1 DEF Ledger!Absent
  <2>2. CASE assets[a] # None
    <3>1. assets[a] \in Asset
      BY <2>2 DEF TypeOK
    <3>2. LedgerRows[a] = ShownRow(assets[a])
      BY <1>3, <2>2
    <3>3. SUFFICES ASSUME LedgerRows[a].status = "disposed"
                   PROVE  row.status = "held" \/ row = [LedgerRows[a] EXCEPT !.status = "away"]
      OBVIOUS
    <3>4. assets[a].status = "disposed"
      BY <3>1, <3>2, <3>3, ShownRowIsRow
    <3>5. new.status = "received" \/ (new.status = "lost" /\ new.location = assets[a].location)
      BY <2>2, <3>4
    <3>6. QED
      BY <3>2, <3>5 DEF ShownRow, LedgerStatus
  <2>3. QED
    BY <2>1, <2>2
<1>6. row.status = "disposed" => LedgerRows[a] = [row EXCEPT !.status = "held"]
  <2>1. SUFFICES ASSUME row.status = "disposed"
                 PROVE  LedgerRows[a] = [row EXCEPT !.status = "held"]
    OBVIOUS
  <2>2. assets[a] # None /\ assets[a].status = "retired" /\ new.location = assets[a].location
    BY <2>1, ShownRowIsRow
  <2>3. QED
    BY <1>3, <2>2 DEF ShownRow, LedgerStatus
<1>7. CASE row = LedgerRows[a]
  BY <1>2, <1>7 DEF LedgerRows
<1>8. CASE row # LedgerRows[a]
  <2> HIDE DEF row
  <2>1. QED
    BY <1>1, <1>2, <1>4, <1>5, <1>6, <1>8 DEF Ledger!Changed
<1>9. QED
  BY <1>7, <1>8

\* The transition service takes nothing out of the lost and the disposed.
LEMMA TransitionIsShown ==
  ASSUME TypeOK, NEW a \in Assets, NEW s, CanBecome(a, s), NEW new \in Asset, new.status = s,
         s = "disposed" => new.location = assets[a].location, Move(a, new)
  PROVE  UNCHANGED LedgerRows \/ Ledger!Changed(a)
<1>1. assets[a] # None /\ assets[a].status \notin {"lost", "disposed"}
  BY KnownAsset DEF CanBecome
<1>2. s = "disposed" => assets[a].status = "retired"
  <2>1. assets[a].status \in Lifecycle
    BY KnownAsset
  <2>2. QED
    BY <2>1 DEF CanBecome, ALLOWED_TRANSITIONS, Lifecycle
<1>3. QED
  BY <1>1, <1>2, WrittenRowIsShown DEF Move

LEMMA LedgerStep ==
  ASSUME TypeOK, CasesSound, Next
  PROVE  \/ UNCHANGED LedgerRows
         \/ \E a \in Assets : Ledger!Changed(a) \/ \E l \in Locations : Relocate(a, l)
<1>1. ASSUME NEW a \in Assets, NEW s, CanBecome(a, s), NEW l \in Locations,
             s = "disposed" => l = assets[a].location, Move(a, Cleared(s, l))
      PROVE  UNCHANGED LedgerRows \/ Ledger!Changed(a)
  <2>1. Cleared(s, l) \in Asset /\ Cleared(s, l).status = s /\ Cleared(s, l).location = l
    BY <1>1, KnownAsset, ClearedRow
  <2>2. QED
    BY <1>1, <2>1, TransitionIsShown
<1>2. ASSUME NEW a \in Assets, Return(a) \/ Retire(a) \/ Dispose(a)
      PROVE  UNCHANGED LedgerRows \/ Ledger!Changed(a)
  <2>1. PICK s \in {"returned", "retired", "disposed"} :
          CanBecome(a, s) /\ Move(a, Cleared(s, assets[a].location))
    BY <1>2 DEF Return, Retire, Dispose
  <2>2. assets[a].location \in Locations
    BY <2>1, KnownAsset
  <2>3. QED
    BY <1>1, <2>1, <2>2
<1>3. ASSUME NEW a \in Assets, NEW l \in Locations,
             PutAway(a, l) \/ \E s \in {"repair", "quarantine"} : SetAside(a, s, l)
      PROVE  UNCHANGED LedgerRows \/ Ledger!Changed(a)
  <2>1. PICK s \in {"in_stock", "repair", "quarantine"} : CanBecome(a, s) /\ Move(a, Cleared(s, l))
    BY <1>3 DEF PutAway, SetAside
  <2>2. QED
    BY <1>1, <2>1
<1>4. ASSUME NEW a \in Assets, NEW c \in Customers, NEW m \in {"dedicated", "loan"}, Issue(a, c, m)
      PROVE  UNCHANGED LedgerRows \/ Ledger!Changed(a)
  <2> DEFINE new == [assets[a] EXCEPT !.status = "issued", !.customer = c,
                                      !.allocation = m, !.due = (m = "loan")]
  <2>1. CanBecome(a, "issued") /\ Move(a, new)
    BY <1>4 DEF Issue
  <2>2. assets[a] \in Asset
    BY <2>1, KnownAsset
  <2>3. new \in Asset /\ new.status = "issued"
    BY <2>2 DEF Asset, Lifecycle
  <2> HIDE DEF new
  <2>4. QED
    BY <2>1, <2>3, TransitionIsShown
<1>5. ASSUME NEW k \in Corrections, NEW o \in Outcomes, CloseInvestigation(k, o)
      PROVE  UNCHANGED LedgerRows \/ \E a \in Assets : Ledger!Changed(a)
  <2> DEFINE a == missing[k]
             new == Cleared("lost", assets[a].location)
  <2>1. a \in Assets /\ assets[a] # None /\ assets[a] \in Asset
    BY <1>5, NoneAssumption DEF CloseInvestigation, CasesSound, TypeOK
  <2>2. assets' = assets \/ Move(a, new)
    BY <1>5 DEF CloseInvestigation, SetLost
  <2>3. new \in Asset /\ new.status = "lost" /\ new.location = assets[a].location
    BY <2>1, ClearedRow DEF Asset, Lifecycle
  <2> HIDE DEF new, a
  <2>4. CASE assets' = assets
    BY <2>4 DEF LedgerRows, LedgerRow
  <2>5. CASE Move(a, new)
    BY <2>1, <2>3, <2>5, WrittenRowIsShown DEF Move
  <2>6. QED
    BY <2>2, <2>4, <2>5
<1>6. ASSUME NEW i \in DOMAIN losses, NEW l \in Locations, Recover(i, l)
      PROVE  UNCHANGED LedgerRows \/ \E a \in Assets : Ledger!Changed(a)
  <2> DEFINE a == losses[i].asset
             new == Cleared("quarantine", l)
  <2>1. a \in Assets /\ Move(a, new) /\ assets[a] \in Asset
    BY <1>6, RecoverIsProper DEF Proper
  <2>2. assets[a].status = "lost" /\ assets[a] # None
    BY <1>6, <2>1, NoneAssumption DEF Recover
  <2>3. new \in Asset /\ new.status = "quarantine"
    <3>1. "quarantine" \in Lifecycle
      BY DEF Lifecycle
    <3>2. QED
      BY <3>1, ClearedRow
  <2> HIDE DEF new, a
  <2>4. QED
    BY <2>1, <2>2, <2>3, WrittenRowIsShown DEF Move
<1>7. ASSUME NEW a \in Assets, NEW l \in Locations, Enters(a, l)
      PROVE  UNCHANGED LedgerRows \/ Ledger!Changed(a)
  <2> DEFINE new == Cleared("received", l)
  <2>1. assets' = [assets EXCEPT ![a] = new]
    BY <1>7 DEF Enters
  <2>2. new \in Asset /\ new.status = "received"
    <3>1. "received" \in Lifecycle
      BY DEF Lifecycle
    <3>2. QED
      BY <3>1, ClearedRow
  <2> HIDE DEF new
  <2>3. /\ assets[a] = None => new.status = "received"
        /\ assets[a] # None /\ assets[a].status = "disposed" =>
             new.status = "received" \/ (new.status = "lost" /\ new.location = assets[a].location)
        /\ new.status # "disposed"
    BY <2>2
  <2>4. QED
    BY <2>1, <2>2, <2>3, WrittenRowIsShown
<1>8. ASSUME \/ \E a \in Assets : ReceiptEnds(a) \/ AddDisposalEvidence(a)
             \/ \E a \in Assets, k \in Corrections : ReportMissing(k, a)
             \/ \E k \in Corrections : OpenInvestigation(k)
             \/ \E k \in Corrections, u \in Actors : RequestLoss(k, u)
             \/ \E i \in DOMAIN losses : WriteOff(i)
             \/ \E i \in DOMAIN losses, u \in Actors : ApproveLoss(i, u)
             \/ \E x \in Customers \union Locations : Activate(x)
             \/ \E c \in Customers : DeactivateCustomer(c)
             \/ \E l \in Locations : DeactivateLocation(l)
      PROVE  UNCHANGED LedgerRows
  <2>1. assets' = assets
    BY <1>8 DEF ReceiptEnds, AddDisposalEvidence, ReportMissing, OpenInvestigation, RequestLoss, WriteOff,
                ApproveLoss, Activate, DeactivateCustomer, DeactivateLocation
  <2>2. QED
    BY <2>1 DEF LedgerRows, LedgerRow
<1>10. ASSUME NEW a \in Assets,
              ReceiveAgain(a) \/ \E l \in Locations : Receive(a, l) \/ ReceiveStopped(a, l)
       PROVE  UNCHANGED LedgerRows \/ Ledger!Changed(a)
  <2>1. PICK l \in Locations : Enters(a, l)
    BY <1>10, ReceiptsEnter
  <2>2. QED
    BY <1>7, <2>1
<1>9. QED
  BY <1>2, <1>3, <1>4, <1>5, <1>6, <1>8, <1>10 DEF Next

\* Everything receipts, the lifecycle, the investigations and the loss cases do to an
\* asset is a change AssetLedger has, so that what holds of audits and service
\* cases on that ledger holds on these assets.
THEOREM CustodyImplementsLedger == Spec => ImplementsLedger
<1>1. Init => \A a \in Assets : LedgerRow(a) = Ledger!Absent
  BY DEF Init, LedgerRow, Ledger!Absent
<1>2. Sound /\ [Next]_vars =>
        [\E a \in Assets : Ledger!Changed(a) \/ \E l \in Locations : Relocate(a, l)]_LedgerRows
  <2>1. CASE Next
    BY <2>1, LedgerStep DEF Sound
  <2>2. CASE UNCHANGED vars
    BY <2>2 DEF vars, LedgerRows, LedgerRow
  <2>3. QED
    BY <2>1, <2>2
<1>3. QED
  BY <1>1, <1>2, SoundInvariant, PTL DEF Spec, ImplementsLedger
=============================================================================
