---- MODULE ServiceCases ----
(* Repair, RMA, warranty and inspection cases of serialized assets              *)
(* (inventory/service_history.py). A case reads the asset when it is opened and *)
(* never again.                                                                 *)
EXTENDS AssetLedger, FiniteSets

CONSTANT Cases

VARIABLE case   \* asset_id and status of inventory_asset_service_cases

NoCase == [asset |-> None, status |-> "none"]

ServiceInit == case = [c \in Cases |-> NoCase]

OpenCasesOf(a) == {c \in Cases : case[c].asset = a /\ case[c].status = "open"}

\* The status an asset must have for a case of this kind.
Serviceable(a, kind) ==
    /\ asset[a].status \notin {"absent", "disposed"}
    /\ kind = "inspection" \/ asset[a].status = "service"

\* open_case: one open case per asset. The supplier an RMA or a warranty claim has to
\* name is not read again, nor is the kind.
OpenCase(c, a) ==
    /\ case[c] = NoCase
    /\ OpenCasesOf(a) = {}
    /\ \E kind \in {"inspection", "repair", "rma", "warranty_claim"} : Serviceable(a, kind)
    /\ case' = [case EXCEPT ![c] = [asset |-> a, status |-> "open"]]

\* complete and cancel: whatever has become of the asset.
EndCase(c, status) ==
    /\ case[c].status = "open"
    /\ case' = [case EXCEPT ![c].status = status]

ServiceStep ==
    /\ \E c \in Cases :
         \/ \E a \in Assets : OpenCase(c, a)
         \/ EndCase(c, "completed")
         \/ EndCase(c, "cancelled")
    /\ UNCHANGED <<asset, moves>>

--------------------------------------------------------------------------------
(* Properties *)

ServiceTypeOK ==
    case \in [Cases -> [asset : Assets \cup {None},
                        status : {"none", "open", "completed", "cancelled"}]]

\* total_service_cost adds the costs of completed cases and open_cases lists the
\* assets in service: no asset has two open cases, however often cases are opened,
\* ended and opened again while the asset moves.
OneOpenCase == \A a \in Assets : Cardinality(OpenCasesOf(a)) <= 1
====
