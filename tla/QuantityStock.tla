--------------------------- MODULE QuantityStock ---------------------------
(***************************************************************************)
(* Quantity (non-serialized) stock: balances, reservations, the stock      *)
(* transaction table and the two-step physical count.                      *)
(*                                                                         *)
(* Every operation of the code is one SQLite transaction opened with BEGIN *)
(* IMMEDIATE, so it is one step here.  A balance row that does not exist   *)
(* reads as 0 on hand and 0 reserved everywhere in the code, so positions  *)
(* are total functions.  The Slack handler that calls an operation adds    *)
(* guards of its own (an active location); they belong to the step because *)
(* the handler does not await between them and the transaction.            *)
(***************************************************************************)
EXTENDS Sequences, Totals

CONSTANTS
  Skus,            \* item codes as they are written in the balance rows
  Locations,       \* storage locations
  Customers,       \* customers with a row in inventory_customers
  Actors,          \* Slack users
  ReservationIds,  \* identifiers uuid4 may give a reservation
  CountIds,        \* identifiers uuid4 may give a physical count
  MaxQuantity,     \* bound: the largest quantity one command may name
  MaxRows,         \* bound: rows of the stock transaction table
  Switched,        \* bound: the master data whose active flag changes
  None             \* an empty text column, or a row that does not exist

VARIABLES
  onHand,        \* inventory_stock_balances.on_hand
  reserved,      \* inventory_stock_balances.reserved
  reservations,  \* inventory_stock_reservations
  transactions,  \* inventory_stock_transactions, in insertion order
  counts,        \* inventory_stock_counts: the applied physical counts
  staged,        \* inventory_staged_stock_counts
  items,         \* inventory_items.active
  customers,     \* inventory_customers.active
  locations      \* inventory_locations.active

vars == <<onHand, reserved, reservations, transactions, counts, staged, items,
          customers, locations>>
balances == <<onHand, reserved>>
counting == <<counts, staged>>
master == <<items, customers, locations>>

Positions == Skus \X Locations
Quantities == 1 .. MaxQuantity

Reservation == [status : {"active", "released", "fulfilled"}, at : Positions,
                quantity : Quantities, customer : Customers]
Transaction == [type : {"receive", "issue", "return", "transfer", "adjustment"},
                sku : Skus, quantity : Nat, from : Locations \union {None},
                to : Locations \union {None}, reference : CountIds \union {None}]
Count == [at : Positions, variance : Int]
StagedCount == [status : {"pending_confirmation", "confirmed", "cancelled"},
                at : Positions, onHand : Int, reserved : Int,
                counted : Nat, actor : Actors]

ASSUME BoundsAssumption == MaxQuantity \in Nat /\ MaxRows \in Nat
ASSUME NoneAssumption ==
  /\ None \notin Locations \union CountIds \union Reservation \union Count \union StagedCount
  /\ None \notin [at : Positions, quantity : Quantities, customer : Customers]

TypeOK ==
  /\ onHand \in [Positions -> Int]
  /\ reserved \in [Positions -> Int]
  /\ reservations \in [ReservationIds -> Reservation \union {None}]
  /\ transactions \in Seq(Transaction)
  /\ counts \in [CountIds -> Count \union {None}]
  /\ staged \in [CountIds -> StagedCount \union {None}]
  /\ items \in [Skus -> BOOLEAN]
  /\ customers \in [Customers -> BOOLEAN]
  /\ locations \in [Locations -> BOOLEAN]

Init ==
  /\ onHand = [p \in Positions |-> 0]
  /\ reserved = [p \in Positions |-> 0]
  /\ reservations = [r \in ReservationIds |-> None]
  /\ transactions = << >>
  /\ counts = [n \in CountIds |-> None]
  /\ staged = [n \in CountIds |-> None]
  /\ items = [s \in Skus |-> TRUE]
  /\ customers = [c \in Customers |-> TRUE]
  /\ locations = [l \in Locations |-> TRUE]

-----------------------------------------------------------------------------
(* What the operations read.  A definition whose name says what it leaves  *)
(* out or gets wrong, here and below, is a plausible defect of the one     *)
(* after it; the specification does not use it.                            *)

Available(p) == onHand[p] - reserved[p]

Active(r) == reservations[r] # None /\ reservations[r].status = "active"

PendingOrClosed(n) == staged[n] # None
Pending(n) == staged[n] # None /\ staged[n].status = "pending_confirmation"

\* An id no count, staged or applied, has used.
Unused(n) == staged[n] = None /\ counts[n] = None

Magnitude(i) == IF i < 0 THEN -i ELSE i

-----------------------------------------------------------------------------
(* What they write.  A stock transaction row is appended only while the    *)
(* table has fewer than MaxRows rows.                                      *)

Append1(type, sku, q, from, to, reference) ==
  /\ Len(transactions) < MaxRows
  /\ transactions' = Append(transactions,
       [type |-> type, sku |-> sku, quantity |-> q,
        from |-> from, to |-> to, reference |-> reference])

\* A delivered quantity is posted by the receiving workflow.
Receive(p, q) ==
  /\ locations[p[2]]
  /\ onHand' = [onHand EXCEPT ![p] = @ + q]
  /\ Append1("receive", p[1], q, None, p[2], None)
  /\ UNCHANGED <<reserved, reservations, counting, master>>

\* reserve stock <sku> <q> at <location> for <customer>
Reserve(r, p, q, c) ==
  /\ items[p[1]] /\ locations[p[2]] /\ customers[c]
  /\ Available(p) >= q
  /\ reservations[r] = None
  /\ reservations' = [reservations EXCEPT ![r] =
       [status |-> "active", at |-> p, quantity |-> q, customer |-> c]]
  /\ reserved' = [reserved EXCEPT ![p] = @ + q]
  /\ UNCHANGED <<onHand, transactions, counting, master>>

ReleaseKeepingReserved(r) ==
  /\ Active(r)
  /\ reservations' = [reservations EXCEPT ![r].status = "released"]
  /\ UNCHANGED <<balances, transactions, counting, master>>

\* No Slack command calls it.
ReleaseReservation(r) ==
  /\ Active(r)
  /\ reserved' = [reserved EXCEPT ![reservations[r].at] = @ - reservations[r].quantity]
  /\ reservations' = [reservations EXCEPT ![r].status = "released"]
  /\ UNCHANGED <<onHand, transactions, counting, master>>

\* issue stock <sku> <q> from <location> to <customer>
Issue(p, q, c) ==
  /\ items[p[1]] /\ locations[p[2]] /\ customers[c]
  /\ Available(p) >= q
  /\ onHand' = [onHand EXCEPT ![p] = @ - q]
  /\ Append1("issue", p[1], q, p[2], None, None)
  /\ UNCHANGED <<reserved, reservations, counting, master>>

\* The effect of an issue against reservation r, which leaves it with status.
Fulfil(r, p, q, status) ==
  /\ onHand' = [onHand EXCEPT ![p] = @ - q]
  /\ reserved' = [reserved EXCEPT ![p] = @ - q]
  /\ reservations' = [reservations EXCEPT ![r].status = status]
  /\ Append1("issue", p[1], q, p[2], None, None)
  /\ UNCHANGED <<counting, master>>

IssueReservedInPart(r, p, q, c) ==
  /\ items[p[1]] /\ locations[p[2]] /\ customers[c] /\ Active(r)
  /\ reservations[r].at = p /\ reservations[r].customer = c
  /\ Available(p) + q >= q
  /\ Fulfil(r, p, q, "fulfilled")

IssueReservedFromElsewhere(r, p, q, c) ==
  /\ items[p[1]] /\ locations[p[2]] /\ customers[c] /\ Active(r)
  /\ reservations[r].customer = c /\ reservations[r].quantity = q
  /\ Available(p) + q >= q
  /\ Fulfil(r, p, q, "fulfilled")

\* issue stock ... reservation <r>: the reserved units count as available to
\* the issue and leave both columns of the balance.
IssueReserved(r, p, q, c) ==
  /\ items[p[1]] /\ locations[p[2]] /\ customers[c]
  /\ Active(r)
  /\ reservations[r].at = p
  /\ reservations[r].customer = c
  /\ reservations[r].quantity = q
  /\ Available(p) + q >= q
  /\ Fulfil(r, p, q, "fulfilled")

\* return stock <sku> <q> to <location> from <customer>: the item and the
\* customer may be inactive, and nothing relates the quantity to what was
\* issued.
ReturnStock(p, q) ==
  /\ locations[p[2]]
  /\ onHand' = [onHand EXCEPT ![p] = @ + q]
  /\ Append1("return", p[1], q, None, p[2], None)
  /\ UNCHANGED <<reserved, reservations, counting, master>>

\* Both balances are read before either is written.
TransferOntoItself(sku, from, to, q) ==
  /\ items[sku] /\ locations[from] /\ locations[to]
  /\ Available(<<sku, from>>) >= q
  /\ onHand' = [onHand EXCEPT ![<<sku, from>>] = @ - q,
                              ![<<sku, to>>] = onHand[<<sku, to>>] + q]
  /\ Append1("transfer", sku, q, from, to, None)
  /\ UNCHANGED <<reserved, reservations, counting, master>>

\* transfer stock <sku> <q> from <location> to <location>
Transfer(sku, from, to, q) ==
  /\ items[sku] /\ locations[from] /\ locations[to]
  /\ from # to
  /\ Available(<<sku, from>>) >= q
  /\ onHand' = [onHand EXCEPT ![<<sku, from>>] = @ - q, ![<<sku, to>>] = @ + q]
  /\ Append1("transfer", sku, q, from, to, None)
  /\ UNCHANGED <<reserved, reservations, counting, master>>

-----------------------------------------------------------------------------
(* Physical counts.                                                        *)

CountRecordingTheFigure(n, p, counted) ==
  /\ locations[p[2]]
  /\ Unused(n)
  /\ counts' = [counts EXCEPT ![n] = [at |-> p, variance |-> counted - onHand[p]]]
  /\ onHand' = [onHand EXCEPT ![p] = counted]
  /\ Append1("adjustment", p[1], counted, p[2], p[2], n)
  /\ UNCHANGED <<reserved, reservations, staged, master>>

\* The one-step count of QuantityStockService.  The Slack agent matches
\* "count stock" first and stages the count instead.
CountAndReconcile(n, p, counted) ==
  /\ locations[p[2]]
  /\ Unused(n)
  /\ counts' = [counts EXCEPT ![n] = [at |-> p, variance |-> counted - onHand[p]]]
  /\ onHand' = [onHand EXCEPT ![p] = counted]
  /\ Append1("adjustment", p[1], Magnitude(counted - onHand[p]), p[2], p[2], n)
  /\ UNCHANGED <<reserved, reservations, staged, master>>

\* count stock <sku> at <location> = <counted>
StageCount(n, p, counted, a) ==
  /\ locations[p[2]]
  /\ Unused(n)
  /\ \A m \in CountIds : Pending(m) => staged[m].at # p
  /\ staged' = [staged EXCEPT ![n] =
       [status |-> "pending_confirmation", at |-> p, onHand |-> onHand[p],
        reserved |-> reserved[p], counted |-> counted, actor |-> a]]
  /\ UNCHANGED <<balances, reservations, transactions, counts, master>>

\* The effect of confirming count n with the given variance.
Apply(n, variance) ==
  LET p == staged[n].at IN
    /\ counts' = [counts EXCEPT ![n] = [at |-> p, variance |-> variance]]
    /\ onHand' = [onHand EXCEPT ![p] = staged[n].counted]
    /\ IF variance # 0
         THEN Append1("adjustment", p[1], Magnitude(variance), p[2], p[2], n)
         ELSE UNCHANGED transactions
    /\ staged' = [staged EXCEPT ![n].status = "confirmed"]
    /\ UNCHANGED <<reserved, reservations, master>>

ConfirmBelowReserved(n, a) ==
  /\ Pending(n) /\ staged[n].actor = a
  /\ onHand[staged[n].at] = staged[n].onHand
  /\ Apply(n, staged[n].counted - onHand[staged[n].at])

\* confirm count <n>: the location is not looked at again.
ConfirmCount(n, a) ==
  /\ Pending(n) /\ staged[n].actor = a
  /\ LET p == staged[n].at IN
       /\ onHand[p] = staged[n].onHand
       /\ reserved[p] = staged[n].reserved
       /\ staged[n].counted >= reserved[p]
       /\ Apply(n, staged[n].counted - onHand[p])

CancelCount(n, a) ==
  /\ Pending(n) /\ staged[n].actor = a
  /\ staged' = [staged EXCEPT ![n].status = "cancelled"]
  /\ UNCHANGED <<balances, reservations, transactions, counts, master>>

-----------------------------------------------------------------------------
(* Master data the operations read.                                        *)

\* activate / deactivate customer.  Deactivation looks at serialized assets
\* only; whether the customer holds one is not part of this module.
SetCustomerActive(c, active) ==
  /\ customers' = [customers EXCEPT ![c] = active]
  /\ UNCHANGED <<balances, reservations, transactions, counting, items, locations>>

\* An item is deactivated only while none of it is in stock.  The code also
\* looks at open order lines and serialized assets, which are not part of
\* this module.
SetItemActive(s, active) ==
  /\ ~active => \A l \in Locations : onHand[<<s, l>>] = 0
  /\ items' = [items EXCEPT ![s] = active]
  /\ UNCHANGED <<balances, reservations, transactions, counting, customers, locations>>

\* A location is deactivated only while all its balances are zero.
SetLocationActive(l, active) ==
  /\ ~active => \A s \in Skus : onHand[<<s, l>>] = 0 /\ reserved[<<s, l>>] = 0
  /\ locations' = [locations EXCEPT ![l] = active]
  /\ UNCHANGED <<balances, reservations, transactions, counting, items, customers>>

Next ==
  \/ \E p \in Positions, q \in Quantities : Receive(p, q) \/ ReturnStock(p, q)
  \/ \E p \in Positions, q \in Quantities, c \in Customers :
       \/ Issue(p, q, c)
       \/ \E r \in ReservationIds : Reserve(r, p, q, c) \/ IssueReserved(r, p, q, c)
  \/ \E r \in ReservationIds : ReleaseReservation(r)
  \/ \E sku \in Skus, from, to \in Locations, q \in Quantities : Transfer(sku, from, to, q)
  \/ \E n \in CountIds, p \in Positions, counted \in 0 .. MaxQuantity :
       \/ CountAndReconcile(n, p, counted)
       \/ \E a \in Actors : StageCount(n, p, counted, a)
  \/ \E n \in CountIds, a \in Actors : ConfirmCount(n, a) \/ CancelCount(n, a)
  \/ \E active \in BOOLEAN :
       \/ \E s \in Skus \intersect Switched : SetItemActive(s, active)
       \/ \E c \in Customers \intersect Switched : SetCustomerActive(c, active)
       \/ \E l \in Locations \intersect Switched : SetLocationActive(l, active)

Spec == Init /\ [][Next]_vars

-----------------------------------------------------------------------------
(* Properties.                                                             *)

\* The reservations that hold units of a position, and their quantities.
Held(p) == {r \in ReservationIds : Active(r) /\ reservations[r].at = p}
ReservedBy == [r \in ReservationIds |->
                 IF reservations[r] = None THEN 0 ELSE reservations[r].quantity]

\* The cached column reserved equals the sum of the active reservations of
\* its position: reserve, release and issue keep the two tables in step.
ReservedIsHeld == \A p \in Positions : reserved[p] = Total(Held(p), ReservedBy)

\* Counts the one-step operation applied: those nobody had staged.
DirectCounts == {n \in CountIds : counts[n] # None /\ staged[n] = None}

\* No issue, transfer or confirmed count takes a unit an active reservation
\* holds: what is available at a position does not become negative.  Only the
\* one-step count, which writes whatever figure was counted, can bring that
\* about, and what follows one is not judged here.
ReservedCovered ==
  DirectCounts = {} => \A p \in Positions : 0 <= reserved[p] /\ reserved[p] <= onHand[p]

\* The rows that brought units to a position and those that took units away.
\* An adjustment row has only a magnitude: its sign is the variance of the
\* count it refers to.
Arrivals(p) == {i \in DOMAIN transactions :
  LET row == transactions[i] IN
    /\ row.sku = p[1] /\ row.to = p[2]
    /\ \/ row.type \in {"receive", "return", "transfer"}
       \/ row.type = "adjustment" /\ counts[row.reference].variance > 0}
Departures(p) == {i \in DOMAIN transactions :
  LET row == transactions[i] IN
    /\ row.sku = p[1] /\ row.from = p[2]
    /\ \/ row.type \in {"issue", "transfer"}
       \/ row.type = "adjustment" /\ counts[row.reference].variance < 0}
Moved == [i \in DOMAIN transactions |-> transactions[i].quantity]

\* Replaying the stock transaction table, with the signs of the count table,
\* gives the balance: every operation writes the row that explains it.
LedgerExplainsStock ==
  \A p \in Positions : onHand[p] = Total(Arrivals(p), Moved) - Total(Departures(p), Moved)

\* A staged count is applied exactly when it is confirmed: its count row and
\* its adjustment row exist once, with the staged variance; a pending or
\* cancelled count has changed nothing.
Adjustments(n) == {i \in DOMAIN transactions : transactions[i].reference = n}
StagedCountsApplyOnce ==
  \A n \in CountIds : staged[n] # None =>
    IF staged[n].status = "confirmed"
      THEN LET variance == staged[n].counted - staged[n].onHand IN
             /\ counts[n] = [at |-> staged[n].at, variance |-> variance]
             /\ Cardinality(Adjustments(n)) = (IF variance = 0 THEN 0 ELSE 1)
             /\ \A i \in Adjustments(n) : transactions[i].quantity = Magnitude(variance)
      ELSE counts[n] = None /\ Adjustments(n) = {}

\* What stock with claims sees of the tables.
OpenClaims == [r \in ReservationIds |->
  IF Active(r)
    THEN [at |-> reservations[r].at, quantity |-> reservations[r].quantity,
          customer |-> reservations[r].customer]
    ELSE None]
Settled == {r \in ReservationIds : reservations[r] # None /\ ~Active(r)}
Claims == INSTANCE StockClaims WITH
  ClaimIds <- ReservationIds, stock <- onHand, claims <- OpenClaims, settled <- Settled

\* Reserving, issuing, transferring and confirming counts never give away
\* claimed units: until somebody uses the one-step count, each step is a step
\* of StockClaims or leaves its variables alone.
ImplementsClaims ==
  Claims!Init /\ [][DirectCounts' = {} => Claims!Next]_<<onHand, OpenClaims, Settled>>
=============================================================================
