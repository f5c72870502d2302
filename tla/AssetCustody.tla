---------------------------- MODULE AssetCustody ----------------------------
(***************************************************************************)
(* Serialized assets: their lifecycle and the movement table, who holds    *)
(* them, the evidence for a disposal, lost-asset investigations and the    *)
(* governance of a confirmed loss.                                         *)
(*                                                                         *)
(* The services read some rows before they open the transaction that       *)
(* writes.  All of them run in one Python process that does not yield in   *)
(* between, so each Slack command is one step.  Notes, references, the     *)
(* owner of an investigation, the event tables, the metadata of an asset   *)
(* and the places in a movement row, which no guard reads, are left out.   *)
(*                                                                         *)
(* A definition whose name says what it leaves out or gets wrong is a      *)
(* plausible defect of the one after it; the specification does not use it.*)
(***************************************************************************)
EXTENDS Integers, Sequences, FiniteSets

CONSTANTS
  Assets, Customers, Locations,
  Actors,        \* Slack users
  Corrections,   \* identifiers uuid4 may give an audit correction
  Outcomes,      \* what an investigation may close with
  MaxMovements,  \* bound: movement rows of one asset
  MaxLosses,     \* bound: loss cases
  None           \* an empty column, or a row that does not exist

VARIABLES
  assets,          \* inventory_assets
  movements,       \* inventory_asset_movements, by asset, in insertion order
  evidence,        \* the assets with a row in inventory_disposal_evidence
  missing,         \* the lost_investigation corrections: the asset of each
  investigations,  \* inventory_lost_asset_investigations, by their correction,
                   \*   which is UNIQUE: open, or the outcome they closed with
  losses,          \* inventory_asset_loss_cases in the order of requested_at
  customers,       \* the active customers
  locations,       \* the active locations
  unconfirmed      \* where a receipt that brought the asset delivers, while it
                   \*   is still pending: a confirmation of it ended half way

vars == <<assets, movements, evidence, missing, investigations, losses, customers, locations,
          unconfirmed>>
searches == <<missing, investigations>>
master == <<customers, locations>>

Lifecycle == {"received", "in_stock", "issued", "returned", "repair", "quarantine",
              "lost", "retired", "disposed"}
Asset == [status : Lifecycle, location : Locations, customer : Customers \union {None},
          allocation : {"dedicated", "loan", None}, due : BOOLEAN]
Movement == [from : Lifecycle, to : Lifecycle, customer : Customers \union {None}]
Loss == [correction : Corrections, asset : Assets, requester : Actors,
         approver : Actors \union {None},
         status : {"pending_approval", "approved", "written_off", "recovered"}]

\* All but the confirmed loss only close the investigation.
ASSUME OutcomesAssumption ==
  Outcomes \subseteq {"found", "confirmed_lost", "transferred_custody", "other"}
ASSUME BoundsAssumption == MaxMovements \in Nat /\ MaxLosses \in Nat
ASSUME NoneAssumption ==
  None \notin Customers \union Locations \union Actors \union Assets \union Asset \union
              Outcomes \union {"open", "confirmed_lost", "dedicated", "loan"}

TypeOK ==
  /\ assets \in [Assets -> Asset \union {None}]
  /\ movements \in [Assets -> Seq(Movement)]
  /\ evidence \subseteq Assets
  /\ missing \in [Corrections -> Assets \union {None}]
  /\ investigations \in [Corrections -> Outcomes \union {"open", None}]
  /\ losses \in Seq(Loss)
  /\ customers \subseteq Customers
  /\ locations \subseteq Locations
  /\ unconfirmed \in [Assets -> Locations \union {None}]

Init ==
  /\ assets = [a \in Assets |-> None]
  /\ movements = [a \in Assets |-> << >>]
  /\ evidence = {}
  /\ missing = [k \in Corrections |-> None]
  /\ investigations = [k \in Corrections |-> None]
  /\ losses = << >>
  /\ customers = Customers
  /\ locations = Locations
  /\ unconfirmed = [a \in Assets |-> None]

-----------------------------------------------------------------------------
(* Every change of an asset's status writes a movement row with it, except *)
(* that an asset received again (below) is set back without one.           *)

ALLOWED_TRANSITIONS ==
  [received |-> {"in_stock", "quarantine"},
   in_stock |-> {"issued", "repair", "quarantine", "retired"},
   issued |-> {"returned", "quarantine"},
   returned |-> {"in_stock", "repair", "quarantine", "retired"},
   repair |-> {"in_stock", "quarantine", "retired"},
   quarantine |-> {"in_stock", "repair", "retired"},
   lost |-> {},
   retired |-> {"disposed"},
   disposed |-> {}]

RowNamingTheNewHolder(old, new) ==
  [from |-> old.status, to |-> new.status, customer |-> new.customer]

\* The row names who has the asset or, if nobody has it any more, who had it.
Row(old, new) ==
  [from |-> old.status, to |-> new.status,
   customer |-> IF new.customer = None THEN old.customer ELSE new.customer]

Move(a, new) ==
  /\ Len(movements[a]) < MaxMovements
  /\ assets' = [assets EXCEPT ![a] = new]
  /\ movements' = [movements EXCEPT ![a] = Append(@, Row(assets[a], new))]

\* The asset in another state, at a location, with nobody.
Cleared(status, location) ==
  [status |-> status, location |-> location, customer |-> None, allocation |-> None,
   due |-> FALSE]

CanBecome(a, status) ==
  assets[a] # None /\ status \in ALLOWED_TRANSITIONS[assets[a].status]

-----------------------------------------------------------------------------
(* The lifecycle.                                                          *)

\* A confirmed receipt creates the asset.
Receive(a, location) ==
  /\ location \in locations
  /\ assets[a] = None
  /\ assets' = [assets EXCEPT ![a] = Cleared("received", location)]
  /\ UNCHANGED <<movements, evidence, searches, losses, master, unconfirmed>>

\* The same by a confirmation that ends before it marks its receipt (Receiving).
ReceiveStopped(a, location) ==
  /\ location \in locations
  /\ assets[a] = None
  /\ assets' = [assets EXCEPT ![a] = Cleared("received", location)]
  /\ unconfirmed' = [unconfirmed EXCEPT ![a] = location]
  /\ UNCHANGED <<movements, evidence, searches, losses, master>>

\* Its receipt is confirmed again: save_asset updates every column of the row
\* that is there, whatever became of the asset, and no movement is written.
\* This confirmation may end half way as well.
ReceiveAgain(a) ==
  /\ unconfirmed[a] \in locations
  /\ assets' = [assets EXCEPT ![a] = Cleared("received", unconfirmed[a])]
  /\ \E left \in {unconfirmed[a], None} : unconfirmed' = [unconfirmed EXCEPT ![a] = left]
  /\ UNCHANGED <<movements, evidence, searches, losses, master>>

\* The receipt is cancelled, or confirmed when its order has no room left for
\* the unit.
ReceiptEnds(a) ==
  /\ unconfirmed[a] # None
  /\ unconfirmed' = [unconfirmed EXCEPT ![a] = None]
  /\ UNCHANGED <<assets, movements, evidence, searches, losses, master>>

\* store asset <a> at <location>, inspect asset <a> ready at <location>
PutAway(a, location) ==
  /\ location \in locations
  /\ CanBecome(a, "in_stock")
  /\ Move(a, Cleared("in_stock", location))
  /\ UNCHANGED <<evidence, searches, losses, master, unconfirmed>>

\* issue asset <a> to <assignee> customer <c> dedicated | loan until <date>
Issue(a, c, allocation) ==
  /\ c \in customers
  /\ CanBecome(a, "issued")
  /\ Move(a, [assets[a] EXCEPT !.status = "issued", !.customer = c,
                               !.allocation = allocation, !.due = (allocation = "loan")])
  /\ UNCHANGED <<evidence, searches, losses, master, unconfirmed>>

\* return asset <a>
Return(a) ==
  /\ CanBecome(a, "returned")
  /\ Move(a, Cleared("returned", assets[a].location))
  /\ UNCHANGED <<evidence, searches, losses, master, unconfirmed>>

\* repair | quarantine asset <a> [at <location>]: without one it stays where
\* it is.
SetAside(a, status, location) ==
  /\ status \in {"repair", "quarantine"}
  /\ CanBecome(a, status)
  /\ location \in locations \union {assets[a].location}
  /\ Move(a, Cleared(status, location))
  /\ UNCHANGED <<evidence, searches, losses, master, unconfirmed>>

\* retire asset <a>
Retire(a) ==
  /\ CanBecome(a, "retired")
  /\ Move(a, Cleared("retired", assets[a].location))
  /\ UNCHANGED <<evidence, searches, losses, master, unconfirmed>>

\* dispose evidence for <a>: one row is enough, and rows are never removed.
AddDisposalEvidence(a) ==
  /\ assets[a] # None /\ assets[a].status \in {"retired", "disposed"}
  /\ evidence' = evidence \union {a}
  /\ UNCHANGED <<assets, movements, searches, losses, master, unconfirmed>>

-----------------------------------------------------------------------------
(* Losses.                                                                 *)

ConfirmedFor(a) ==
  {k \in Corrections : missing[k] = a /\ investigations[k] = "confirmed_lost"}
CasesOf(a) == {i \in DOMAIN losses : losses[i].asset = a}
CaseOf(k) == {i \in DOMAIN losses : losses[i].correction = k}

DisposalAllowedWithAnyCase(a) == ConfirmedFor(a) # {} => CasesOf(a) # {}

\* The case requested last decides.
DisposalAllowed(a) ==
  ConfirmedFor(a) # {} =>
    \E i \in CasesOf(a) :
      /\ \A j \in CasesOf(a) : j <= i
      /\ losses[i].status = "written_off"

DisposeInAnyState(a) ==
  /\ assets[a] # None
  /\ a \in evidence
  /\ DisposalAllowed(a)
  /\ Move(a, Cleared("disposed", assets[a].location))
  /\ UNCHANGED <<evidence, searches, losses, master, unconfirmed>>

\* dispose asset <a>
Dispose(a) ==
  /\ CanBecome(a, "disposed")
  /\ a \in evidence
  /\ DisposalAllowed(a)
  /\ Move(a, Cleared("disposed", assets[a].location))
  /\ UNCHANGED <<evidence, searches, losses, master, unconfirmed>>

\* correct audit finding ... relocate <location> and, below, ... lost
\* investigation.  The audit that found the asset elsewhere, or not at all, is
\* not part of this module: its finding may be corrected much later, so nothing
\* is required of the asset now.  A relocation writes no movement row.
Relocate(a, location) ==
  /\ location \in locations
  /\ assets[a] # None
  /\ assets' = [assets EXCEPT ![a].location = location]
  /\ UNCHANGED <<movements, evidence, searches, losses, master, unconfirmed>>

ReportMissing(k, a) ==
  /\ missing[k] = None
  /\ assets[a] # None
  /\ missing' = [missing EXCEPT ![k] = a]
  /\ UNCHANGED <<assets, movements, evidence, investigations, losses, master, unconfirmed>>

\* open lost investigation <k>: a second one for k returns the first.
OpenInvestigation(k) ==
  /\ missing[k] # None
  /\ investigations[k] = None
  /\ investigations' = [investigations EXCEPT ![k] = "open"]
  /\ UNCHANGED <<assets, movements, evidence, missing, losses, master, unconfirmed>>

SetLostKeepingHolder(a) ==
  IF assets[a].status = "lost" THEN UNCHANGED <<assets, movements>>
  ELSE Move(a, [assets[a] EXCEPT !.status = "lost"])

\* A confirmed loss takes the asset out of whatever state it is in, and leaves
\* its last location in the row.
SetLost(a) ==
  IF assets[a].status = "lost" THEN UNCHANGED <<assets, movements>>
  ELSE Move(a, Cleared("lost", assets[a].location))

CloseInvestigationAgain(k, outcome) ==
  /\ investigations[k] # None
  /\ investigations' = [investigations EXCEPT ![k] = outcome]
  /\ IF outcome = "confirmed_lost" THEN SetLost(missing[k])
                                   ELSE UNCHANGED <<assets, movements>>
  /\ UNCHANGED <<evidence, missing, losses, master, unconfirmed>>

\* close lost investigation <k> outcome <outcome>
CloseInvestigation(k, outcome) ==
  /\ investigations[k] = "open"
  /\ investigations' = [investigations EXCEPT ![k] = outcome]
  /\ IF outcome = "confirmed_lost" THEN SetLost(missing[k])
                                   ELSE UNCHANGED <<assets, movements>>
  /\ UNCHANGED <<evidence, missing, losses, master, unconfirmed>>

\* request loss <k>: a second request for k returns the first case.
RequestLoss(k, actor) ==
  /\ investigations[k] = "confirmed_lost"
  /\ CaseOf(k) = {}
  /\ Len(losses) < MaxLosses
  /\ losses' = Append(losses, [correction |-> k, asset |-> missing[k], requester |-> actor,
                               approver |-> None, status |-> "pending_approval"])
  /\ UNCHANGED <<assets, movements, evidence, searches, master, unconfirmed>>

\* approve loss <i>
ApproveLoss(i, actor) ==
  /\ losses[i].status = "pending_approval"
  /\ losses[i].requester # actor
  /\ losses' = [losses EXCEPT ![i].status = "approved", ![i].approver = actor]
  /\ UNCHANGED <<assets, movements, evidence, searches, master, unconfirmed>>

\* write off loss <i>
WriteOff(i) ==
  /\ losses[i].status = "approved"
  /\ losses' = [losses EXCEPT ![i].status = "written_off"]
  /\ UNCHANGED <<assets, movements, evidence, searches, master, unconfirmed>>

\* recover loss <i> at <location>
Recover(i, location) ==
  /\ losses[i].status \in {"pending_approval", "approved", "written_off"}
  /\ location \in locations
  /\ assets[losses[i].asset].status = "lost"
  /\ Move(losses[i].asset, Cleared("quarantine", location))
  /\ losses' = [losses EXCEPT ![i].status = "recovered"]
  /\ UNCHANGED <<evidence, searches, master, unconfirmed>>

-----------------------------------------------------------------------------
(* Master data.                                                            *)

Activate(x) ==
  /\ customers' = customers \union ({x} \intersect Customers)
  /\ locations' = locations \union ({x} \intersect Locations)
  /\ UNCHANGED <<assets, movements, evidence, searches, losses, unconfirmed>>

\* A customer is deactivated only while no asset is issued to it.
DeactivateCustomer(c) ==
  /\ \A a \in Assets : assets[a] # None /\ assets[a].status = "issued" => assets[a].customer # c
  /\ customers' = customers \ {c}
  /\ UNCHANGED <<assets, movements, evidence, searches, losses, locations, unconfirmed>>

DeactivateLocationOfStored(l) ==
  /\ \A a \in Assets : assets[a] # None /\ assets[a].status = "in_stock" => assets[a].location # l
  /\ locations' = locations \ {l}
  /\ UNCHANGED <<assets, movements, evidence, searches, losses, customers, unconfirmed>>

\* A location only while every asset recorded there is disposed.
DeactivateLocation(l) ==
  /\ \A a \in Assets : assets[a] # None /\ assets[a].status # "disposed" => assets[a].location # l
  /\ locations' = locations \ {l}
  /\ UNCHANGED <<assets, movements, evidence, searches, losses, customers, unconfirmed>>

Next ==
  \/ \E a \in Assets :
       \/ ReceiveAgain(a) \/ ReceiptEnds(a)
       \/ Return(a) \/ Retire(a) \/ Dispose(a) \/ AddDisposalEvidence(a)
       \/ \E l \in Locations :
            \/ Receive(a, l) \/ ReceiveStopped(a, l) \/ PutAway(a, l) \/ Relocate(a, l)
            \/ \E s \in {"repair", "quarantine"} : SetAside(a, s, l)
       \/ \E c \in Customers, m \in {"dedicated", "loan"} : Issue(a, c, m)
       \/ \E k \in Corrections : ReportMissing(k, a)
  \/ \E k \in Corrections :
       \/ OpenInvestigation(k)
       \/ \E o \in Outcomes : CloseInvestigation(k, o)
       \/ \E u \in Actors : RequestLoss(k, u)
  \/ \E i \in DOMAIN losses :
       \/ WriteOff(i)
       \/ \E u \in Actors : ApproveLoss(i, u)
       \/ \E l \in Locations : Recover(i, l)
  \/ \E x \in Customers \union Locations : Activate(x)
  \/ \E c \in Customers : DeactivateCustomer(c)
  \/ \E l \in Locations : DeactivateLocation(l)

Spec == Init /\ [][Next]_vars

-----------------------------------------------------------------------------
(* Properties.                                                             *)

\* An asset is with a customer exactly while it is issued, the customer is
\* active, and a loan has a due date while a dedicated asset has none: whatever
\* takes an asset away from a customer clears all of it, and a customer is not
\* deactivated while holding something.
HeldByActiveCustomers ==
  \A a \in Assets : assets[a] # None =>
    IF assets[a].status = "issued"
      THEN /\ assets[a].customer \in customers
           /\ assets[a].allocation # None
           /\ assets[a].due <=> assets[a].allocation = "loan"
      ELSE assets[a].customer = None /\ assets[a].allocation = None /\ ~assets[a].due

\* An asset in use, in the store or under repair is recorded at an active
\* location.  A lost one may not be.
InUseAtActiveLocations ==
  \A a \in Assets : assets[a] # None /\ assets[a].status \notin {"lost", "disposed"} =>
    assets[a].location \in locations

\* The movement rows of an asset are a chain of states that begins with its
\* receipt and ends in the asset's own state, and the row that takes it away from
\* a customer names the customer the row before gave it to.  The chain breaks
\* only where the asset was received again.
MovementsExplainAssets ==
  \A a \in Assets :
    LET rows == movements[a] IN
      /\ assets[a] = None => rows = << >>
      /\ rows # << >> => rows[1].from = "received"
      /\ \A i \in DOMAIN rows :
           LET after == IF i < Len(rows)
                          THEN [status |-> rows[i + 1].from, customer |-> rows[i + 1].customer]
                          ELSE [status |-> assets[a].status, customer |-> assets[a].customer]
           IN  \/ after.status = "received"
               \/ /\ rows[i].to = after.status
                  /\ rows[i].to = "issued" => rows[i].customer = after.customer

\* An asset that is lost can be recovered: some investigation that confirmed
\* its loss has no case yet, or one that was not used up by a recovery.
LostAssetsAreRecoverable ==
  \A a \in Assets : assets[a] # None /\ assets[a].status = "lost" =>
    \E k \in ConfirmedFor(a) : \A i \in CaseOf(k) : losses[i].status # "recovered"

\* An asset is disposed of only with evidence and, once its loss was confirmed,
\* only after a write-off that someone other than the requester approved.
DisposalIsEvidenced ==
  [][\A a \in Assets :
       assets[a] # None /\ assets[a].status # "disposed" /\ assets'[a].status = "disposed" =>
         /\ a \in evidence
         /\ ConfirmedFor(a) # {} => \E i \in CasesOf(a) :
              losses[i].status = "written_off" /\ losses[i].approver \notin {None, losses[i].requester}]_vars

-----------------------------------------------------------------------------
(* What audits and service cases see of an asset.                          *)

\* Their guards tell these states apart.
LedgerStatus ==
  [received |-> "held", in_stock |-> "held", returned |-> "held", retired |-> "held",
   repair |-> "service", quarantine |-> "service", issued |-> "away", lost |-> "away",
   disposed |-> "disposed"]

LedgerRow(a) ==
  IF assets[a] = None THEN [status |-> "absent", location |-> None]
  ELSE [status |-> LedgerStatus[assets[a].status], location |-> assets[a].location]
LedgerRows == [a \in Assets |-> LedgerRow(a)]

Ledger == INSTANCE AssetLedger WITH asset <- LedgerRows, moves <- 0, MaxMoves <- 0

\* Whatever happens to assets is a change AssetLedger has between two steps of
\* an audit or a service case, or the relocation that AssetAudit has itself.
ImplementsLedger ==
  /\ \A a \in Assets : LedgerRow(a) = Ledger!Absent
  /\ [][\E a \in Assets : Ledger!Changed(a) \/ \E l \in Locations : Relocate(a, l)]_LedgerRows
=============================================================================
