---- MODULE AssetLedger ----
(* The row of a serialized asset (inventory_assets) as the services see it that *)
(* only read it: physical audits and service cases. Between their calls         *)
(* receiving and the lifecycle commands change it; AssetCustody says how.       *)
EXTENDS Naturals

CONSTANTS Assets, Locations, MaxMoves, None

ASSUME LedgerAssumption ==
    /\ MaxMoves \in Nat
    /\ None \notin Assets \cup Locations

VARIABLES asset,   \* status and location_id of each row
          moves    \* history: how often the other services changed one

\* AssetLifecycle, by what the guards tell apart: "held" for received, in_stock,
\* returned and retired, "service" for repair and quarantine, "away" for issued and
\* lost. An asset is "absent" before it has been received.
LedgerStatuses == {"absent", "held", "service", "away", "disposed"}

Rows == [status : LedgerStatuses \ {"absent"}, location : Locations]

Absent == [status |-> "absent", location |-> None]

\* Some assets have been received, and some of these are in repair or quarantine.
LedgerInit ==
    /\ asset \in [Assets -> {Absent} \cup [status : {"held", "service"}, location : Locations]]
    /\ moves = 0

\* Receiving and the lifecycle services, in any order: an asset is received, moved,
\* issued, sent to repair, lost, found, retired and then disposed of. Out of that
\* state only an investigation takes it that is closed as a confirmed loss, or its
\* own receipt, when that is confirmed again after a confirmation that ended half
\* way: it is then received anew.
Changed(a) ==
    \E row \in Rows :
      /\ row # asset[a]
      /\ asset[a] = Absent => row.status = "held"
      /\ asset[a].status = "disposed" =>
           row.status = "held" \/ row = [asset[a] EXCEPT !.status = "away"]
      /\ row.status = "disposed" => asset[a] = [row EXCEPT !.status = "held"]
      /\ asset' = [asset EXCEPT ![a] = row]

Change(a) ==
    /\ moves < MaxMoves
    /\ Changed(a)
    /\ moves' = moves + 1
====
