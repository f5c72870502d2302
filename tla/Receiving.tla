----------------------------- MODULE Receiving -----------------------------
(***************************************************************************)
(* Purchase orders and deliveries: orders and delivery notes are staged    *)
(* from an uploaded document and confirmed or cancelled by the same user;  *)
(* a confirmed delivery updates the order and posts stock or creates       *)
(* serialized assets.                                                      *)
(*                                                                         *)
(* Every operation runs in one Python process without yielding, so it is   *)
(* one step, except that confirming a receipt is two SQLite transactions:  *)
(* the process may stop, or the second one fail, between them.             *)
(*                                                                         *)
(* A definition whose name says what it leaves out or gets wrong is a      *)
(* plausible defect of the one after it; the specification does not use it.*)
(***************************************************************************)
EXTENDS Reconciliation, Bags

CONSTANTS
  Orders,          \* purchase order numbers the users choose
  LineIds,         \* primary keys of inventory_po_lines
  RowIds,          \* primary keys of inventory_delivery_lines
  OrderDocuments,  \* what the document uploaded for each order may say:
                   \*   functions from line ids to [sku, ordered]
  Notes,           \* what an uploaded delivery note may say (Reconciliation)
  Suppliers, Skus, Locations,
  Serials,         \* serial numbers
  Actors,          \* Slack users
  StagingIds,      \* identifiers uuid4 may give a staged order
  ReceiptIds,      \* identifiers uuid4 may give a staged receipt; its delivery
                   \*   id is drawn together with it and is the same value here
  MaxUnits,        \* bound: serial numbers of one note row
  MaxCopies,       \* bound: how often a receipt may raise the same exception
  Switched         \* bound: the master data rows whose active flag changes

VARIABLES
  orders,      \* inventory_purchase_orders
  lines,       \* inventory_po_lines
  stagings,    \* inventory_staged_purchase_orders
  receipts,    \* inventory_staged_receipts
  deliveries,  \* inventory_deliveries.status
  rows,        \* inventory_delivery_lines: the delivery each row belongs to
  posted,      \* inventory_stock_transactions of type receive
  stock,       \* inventory_stock_balances.on_hand
  assets,      \* inventory_assets
  exceptions,  \* inventory_exceptions: a bag, their ids are drawn in sequence
  active,      \* the active suppliers, items and locations
  stopped      \* history: the receipts a confirmation of which ended between its
               \*   two transactions

vars == <<orders, lines, stagings, receipts, deliveries, rows, posted, stock, assets,
          exceptions, active, stopped>>
goods == <<posted, stock, assets>>
delivery == <<deliveries, rows, exceptions, stopped>>

Positions == Skus \X Locations
AssetIds == ReceiptIds \X LineIds \X (1 .. MaxUnits)
Statuses == {"open", "partially_received", "received"}
Order == [supplier : Suppliers, status : Statuses]
Line == [order : Orders, sku : Skus, ordered : Nat, received : Nat]
Stage == {"pending_confirmation", "confirmed", "cancelled"}
Staging == [order : Orders, supplier : Suppliers, actor : Actors,
            document : UNION {OrderDocuments[o] : o \in Orders}, status : Stage]
Receipt == [order : Orders, destination : Locations, actor : Actors,
            note : Notes, status : Stage]
Asset == [sku : Skus, serial : Serials, location : Locations, order : Orders,
          status : {"received", "in_stock"}]

ASSUME BoundsAssumption == MaxUnits \in Nat /\ MaxCopies \in Nat
ASSUME TablesAssumption ==
  /\ IsFiniteSet(LineIds) /\ IsFiniteSet(ReceiptIds)
  /\ Suppliers \intersect Skus = {}
  /\ Locations \intersect (Suppliers \union Skus) = {}
  /\ Switched \subseteq Suppliers \union Skus \union Locations
ASSUME DocumentsAssumption ==
  /\ \A o \in Orders : \A d \in OrderDocuments[o] :
       /\ DOMAIN d \subseteq LineIds
       /\ d \in [DOMAIN d -> [sku : Skus, ordered : Nat]]
  /\ \A n \in Notes :
       /\ Len(n) \in Nat /\ DOMAIN n = 1 .. Len(n)
       /\ \A i \in DOMAIN n :
            n[i].delivered \in Int /\ n[i].damaged \in Int /\ n[i].serials \in Seq(Serials)
ASSUME NoneAssumption ==
  /\ None \notin Orders \union LineIds \union ReceiptIds \union {"accepted", "exception"}
  /\ None \notin Order \union Line \union Staging \union Receipt \union Asset

TypeOK ==
  /\ orders \in [Orders -> Order \union {None}]
  /\ lines \in [LineIds -> Line \union {None}]
  /\ stagings \in [StagingIds -> Staging \union {None}]
  /\ receipts \in [ReceiptIds -> Receipt \union {None}]
  /\ deliveries \in [ReceiptIds -> {"accepted", "exception", None}]
  /\ rows \in [RowIds -> ReceiptIds \union {None}]
  /\ posted \in [ReceiptIds \X LineIds -> Nat]
  /\ stock \in [Positions -> Nat]
  /\ assets \in [AssetIds -> Asset \union {None}]
  /\ IsABag(exceptions)
  /\ active \subseteq Suppliers \union Skus \union Locations
  /\ stopped \subseteq ReceiptIds

Init ==
  /\ orders = [o \in Orders |-> None]
  /\ lines = [l \in LineIds |-> None]
  /\ stagings = [s \in StagingIds |-> None]
  /\ receipts = [r \in ReceiptIds |-> None]
  /\ deliveries = [r \in ReceiptIds |-> None]
  /\ rows = [d \in RowIds |-> None]
  /\ posted = [k \in ReceiptIds \X LineIds |-> 0]
  /\ stock = [p \in Positions |-> 0]
  /\ assets = [a \in AssetIds |-> None]
  /\ exceptions = EmptyBag
  /\ active = Suppliers \union Skus \union Locations
  /\ stopped = {}

-----------------------------------------------------------------------------
(* Purchase orders.                                                        *)

LinesOf(o) == {l \in LineIds : lines[l] # None /\ lines[l].order = o}

\* An order as _load_purchase_order reads it.
OrderTable(o) == [l \in LinesOf(o) |-> lines[l]]

ItemsUnchecked(document) == TRUE
ItemsActive(document) == \A l \in DOMAIN document : document[l].sku \in active

\* create po <o> supplier <supplier> with a document attached
StageOrder(s, o, supplier, document, a) ==
  /\ supplier \in active
  /\ orders[o] = None
  /\ ItemsActive(document)
  /\ stagings[s] = None
  /\ stagings' = [stagings EXCEPT ![s] =
       [order |-> o, supplier |-> supplier, actor |-> a, document |-> document,
        status |-> "pending_confirmation"]]
  /\ UNCHANGED <<orders, lines, receipts, delivery, goods, active>>

PendingOrder(s, a) ==
  stagings[s] # None /\ stagings[s].status = "pending_confirmation" /\ stagings[s].actor = a

\* A line id that is already in the table keeps its row, of whatever order, and
\* only has its received quantity set; otherwise a row is inserted.
SavedLines(o, document) ==
  [l \in LineIds |->
     IF l \notin DOMAIN document THEN lines[l]
     ELSE IF lines[l] # None THEN [lines[l] EXCEPT !.received = 0]
     ELSE [order |-> o, sku |-> document[l].sku, ordered |-> document[l].ordered,
           received |-> 0]]

ConfirmOrderAgain(s, a) ==
  /\ PendingOrder(s, a)
  /\ stagings[s].supplier \in active
  /\ ItemsActive(stagings[s].document)
  /\ orders' = [orders EXCEPT ![stagings[s].order] =
       [supplier |-> stagings[s].supplier, status |-> "open"]]
  /\ lines' = SavedLines(stagings[s].order, stagings[s].document)
  /\ stagings' = [stagings EXCEPT ![s].status = "confirmed"]
  /\ UNCHANGED <<receipts, delivery, goods, active>>

\* confirm po <s>
ConfirmOrder(s, a) ==
  /\ PendingOrder(s, a)
  /\ stagings[s].supplier \in active
  /\ ItemsActive(stagings[s].document)
  /\ orders[stagings[s].order] = None
  /\ orders' = [orders EXCEPT ![stagings[s].order] =
       [supplier |-> stagings[s].supplier, status |-> "open"]]
  /\ lines' = SavedLines(stagings[s].order, stagings[s].document)
  /\ stagings' = [stagings EXCEPT ![s].status = "confirmed"]
  /\ UNCHANGED <<receipts, delivery, goods, active>>

\* cancel po <s>
CancelOrder(s, a) ==
  /\ PendingOrder(s, a)
  /\ stagings' = [stagings EXCEPT ![s].status = "cancelled"]
  /\ UNCHANGED <<orders, lines, receipts, delivery, goods, active>>

-----------------------------------------------------------------------------
(* Receipts.                                                               *)

\* receive <o> at <destination> with a delivery note attached
StageReceipt(r, o, destination, note, a) ==
  /\ destination \in active
  /\ orders[o] # None
  /\ Acceptable(OrderTable(o), note)
  /\ receipts[r] = None
  /\ receipts' = [receipts EXCEPT ![r] =
       [order |-> o, destination |-> destination, actor |-> a, note |-> note,
        status |-> "pending_confirmation"]]
  /\ UNCHANGED <<orders, lines, stagings, delivery, goods, active>>

StagedReceipt(r, a) == receipts[r] # None /\ receipts[r].actor = a
PendingReceipt(r, a) ==
  receipts[r] # None /\ receipts[r].status = "pending_confirmation" /\ receipts[r].actor = a

\* The stock transaction and the assets of receipt r for line l.
AcceptedFor(r, l) ==
  IF l \in LinesOf(receipts[r].order)
    THEN Accepted(OrderTable(receipts[r].order), receipts[r].note, l)
    ELSE 0
QuantityDelivered(r, l) ==
  IF l \in LinesOf(receipts[r].order) /\ lines[l].sku \notin Serialized
    THEN DeliveredTo(OrderTable(receipts[r].order), receipts[r].note, l)
    ELSE 0
QuantityPosted(r, l) ==
  IF lines[l] # None /\ lines[l].sku \notin Serialized THEN AcceptedFor(r, l) ELSE 0
SerialsPosted(r, l) ==
  IF lines[l] # None /\ lines[l].sku \in Serialized /\ AcceptedFor(r, l) > 0
    THEN SerialsOfLine(OrderTable(receipts[r].order), receipts[r].note, l)
    ELSE << >>
NewAssets(r) == {a \in AssetIds : a[1] = r /\ a[3] <= Len(SerialsPosted(r, a[2]))}
SerialOf(a) == SerialsPosted(a[1], a[2])[a[3]]

\* Serial numbers are unique in the table; the row of the same asset may come
\* back, it is then updated.
SerialsFree(r) ==
  \A a \in NewAssets(r) :
    /\ \A b \in AssetIds \ {a} : assets[b] # None => assets[b].serial # SerialOf(a)
    /\ \A b \in NewAssets(r) \ {a} : SerialOf(b) # SerialOf(a)

\* The lines of the delivered order, and of the others, after receipt r.
ReceivedLines(r) ==
  [l \in LineIds |-> IF l \in LinesOf(receipts[r].order)
                       THEN [lines[l] EXCEPT !.received = @ + AcceptedFor(r, l)]
                       ELSE lines[l]]

StatusBefore(r) == StatusOf(OrderTable(receipts[r].order))
StatusAfter(r) == StatusOf([l \in LinesOf(receipts[r].order) |-> ReceivedLines(r)[l]])

\* The first transaction of a confirmation: AtomicReceivingService.receive.
\* The id of a stock transaction is made of the delivery and the line, so a
\* second one for the same pair violates the primary key and undoes it all.
Receive(r) ==
  LET o == receipts[r].order
      note == receipts[r].note
      found == {[delivery |-> r, what |-> d] : d \in Discrepancies(OrderTable(o), note)}
      balance(p) == Total({l \in LinesOf(o) : lines[l].sku = p[1]},
                          [l \in LineIds |-> QuantityPosted(r, l)])
  IN
  /\ Acceptable(OrderTable(o), note)
  /\ WithinOrder(OrderTable(o), note)
  /\ \A l \in LineIds : QuantityPosted(r, l) > 0 => posted[<<r, l>>] = 0
  /\ SerialsFree(r)
  /\ lines' = ReceivedLines(r)
  /\ orders' = [orders EXCEPT ![o].status = StatusAfter(r)]
  /\ deliveries' = [deliveries EXCEPT ![r] = IF found = {} THEN "accepted" ELSE "exception"]
  /\ rows' = [d \in RowIds |-> IF \E i \in DOMAIN note : note[i].id = d THEN r ELSE rows[d]]
  /\ posted' = [k \in ReceiptIds \X LineIds |->
                  IF k[1] = r THEN posted[k] + QuantityPosted(r, k[2]) ELSE posted[k]]
  /\ stock' = [p \in Positions |->
                 IF p[2] = receipts[r].destination THEN stock[p] + balance(p) ELSE stock[p]]
  /\ assets' = [a \in AssetIds |->
                  IF a \notin NewAssets(r) THEN assets[a]
                  ELSE IF assets[a] # None
                    THEN [assets[a] EXCEPT !.status = "received",
                                           !.location = receipts[r].destination]
                  ELSE [sku |-> lines[a[2]].sku, serial |-> SerialOf(a), order |-> o,
                        location |-> receipts[r].destination, status |-> "received"]]
  /\ \A e \in found : BagIn(e, exceptions) => exceptions[e] < MaxCopies
  /\ exceptions' = exceptions (+) SetToBag(found)

\* confirm receipt <r>
ConfirmReceipt(r, a) ==
  /\ PendingReceipt(r, a)
  /\ receipts[r].destination \in active
  /\ Receive(r)
  /\ receipts' = [receipts EXCEPT ![r].status = "confirmed"]
  /\ UNCHANGED <<stagings, active, stopped>>

\* The same, ended between its two transactions: the receipt stays pending and
\* may be confirmed again, or cancelled.
ConfirmReceiptStopped(r, a) ==
  /\ PendingReceipt(r, a)
  /\ receipts[r].destination \in active
  /\ Receive(r)
  /\ stopped' = stopped \union {r}
  /\ UNCHANGED <<stagings, receipts, active>>

\* cancel receipt <r>
CancelReceipt(r, a) ==
  /\ PendingReceipt(r, a)
  /\ receipts' = [receipts EXCEPT ![r].status = "cancelled"]
  /\ UNCHANGED <<orders, lines, stagings, delivery, goods, active>>

-----------------------------------------------------------------------------
(* What the rest of the inventory does to the goods and the master data.   *)

\* put asset <a> away at <location>
PutAway(a, location) ==
  /\ location \in active
  /\ assets[a] # None /\ assets[a].status = "received"
  /\ assets' = [assets EXCEPT ![a].status = "in_stock", ![a].location = location]
  /\ UNCHANGED <<orders, lines, stagings, receipts, delivery, posted, stock, active>>

\* Units are issued.
IssueStock(p, q) ==
  /\ p[2] \in active
  /\ stock[p] >= q
  /\ stock' = [stock EXCEPT ![p] = @ - q]
  /\ UNCHANGED <<orders, lines, stagings, receipts, delivery, posted, assets, active>>

Activate(x) ==
  /\ active' = active \union {x}
  /\ UNCHANGED <<orders, lines, stagings, receipts, delivery, goods>>

Deactivate(x) ==
  /\ active' = active \ {x}
  /\ UNCHANGED <<orders, lines, stagings, receipts, delivery, goods>>

\* A supplier is deactivated only while none of its orders awaits goods.
DeactivateSupplier(x) ==
  /\ \A o \in Orders : orders[o] # None /\ orders[o].supplier = x => orders[o].status = "received"
  /\ Deactivate(x)

\* An item only while no order line awaits it and none is left.
DeactivateItem(x) ==
  /\ \A l \in LineIds : lines[l] # None /\ lines[l].sku = x => lines[l].received >= lines[l].ordered
  /\ \A p \in Positions : p[1] = x => stock[p] = 0
  /\ \A a \in AssetIds : assets[a] # None => assets[a].sku # x
  /\ Deactivate(x)

DeactivateLocationWithStock(x) ==
  /\ \A a \in AssetIds : assets[a] # None => assets[a].location # x
  /\ Deactivate(x)

\* A location only while nothing is there.
DeactivateLocation(x) ==
  /\ \A p \in Positions : p[2] = x => stock[p] = 0
  /\ \A a \in AssetIds : assets[a] # None => assets[a].location # x
  /\ Deactivate(x)

Next ==
  \/ \E s \in StagingIds, a \in Actors :
       \/ ConfirmOrder(s, a)
       \/ CancelOrder(s, a)
       \/ \E o \in Orders, x \in Suppliers : \E d \in OrderDocuments[o] : StageOrder(s, o, x, d, a)
  \/ \E r \in ReceiptIds, a \in Actors :
       \/ ConfirmReceipt(r, a)
       \/ ConfirmReceiptStopped(r, a)
       \/ CancelReceipt(r, a)
       \/ \E o \in Orders, x \in Locations, n \in Notes : StageReceipt(r, o, x, n, a)
  \/ \E a \in AssetIds, x \in Locations : PutAway(a, x)
  \/ \E p \in Positions, q \in 1 .. MaxUnits : IssueStock(p, q)
  \/ \E x \in Switched : Activate(x)
  \/ \E x \in Switched \intersect Suppliers : DeactivateSupplier(x)
  \/ \E x \in Switched \intersect Skus : DeactivateItem(x)
  \/ \E x \in Switched \intersect Locations : DeactivateLocation(x)

Spec == Init /\ [][Next]_vars

-----------------------------------------------------------------------------
(* Documents that the properties need and the code does not ask for.       *)

\* Orders have line ids of their own.  Where two share one, confirming the
\* second sets back what was received for the first.
LineIdsApart ==
  \A o, q \in Orders : o # q =>
    \A d \in OrderDocuments[o], e \in OrderDocuments[q] : DOMAIN d \intersect DOMAIN e = {}

\* Every serialized row of a note names its line, alone.  One that names no
\* line, or shares one, is counted on the order and creates no asset, or too few.
SerialsNamed ==
  \A n \in Notes : \A i \in DOMAIN n : n[i].sku \in Serialized =>
    /\ n[i].line # None
    /\ \A j \in DOMAIN n : n[j].line = n[i].line => j = i
    /\ Len(n[i].serials) <= MaxUnits

-----------------------------------------------------------------------------
(* Properties.                                                             *)

\* No order line is received beyond what was ordered, however many delivery
\* notes are staged against it at once.
NeverOverReceived == \A l \in LineIds : lines[l] # None => lines[l].received <= lines[l].ordered

\* The units a line brought into the inventory: its stock transactions, or the
\* assets created for it.
Arrived(l) ==
  Total(ReceiptIds, [r \in ReceiptIds |-> posted[<<r, l>>]])
    + Cardinality({a \in AssetIds : a[2] = l /\ assets[a] # None})

\* What an order line says was received is what entered the inventory for it.
\* The code breaks this: serialized units of a receipt that is confirmed again,
\* after a confirmation that ended half way, count twice.
OrdersMatchGoods == \A l \in LineIds : lines[l] # None => lines[l].received = Arrived(l)

\* That is all that goes wrong, whatever confirmations end half way and are
\* repeated: an order never says less than came in, says exactly that of its
\* quantity lines, and of its serialized lines too unless a confirmation of one
\* of its own receipts ended half way.
GoodsMatchUnlessStopped ==
  \A l \in LineIds : lines[l] # None =>
    /\ Arrived(l) <= lines[l].received
    /\ \/ lines[l].received = Arrived(l)
       \/ /\ lines[l].sku \in Serialized
          /\ \E r \in stopped : receipts[r].order = lines[l].order

\* An order's status follows from the received quantities of its lines.
OrderStatusDerived ==
  \A o \in Orders : orders[o] # None => orders[o].status = StatusOf(OrderTable(o))

\* A delivery is in the tables exactly when its receipt was confirmed or a
\* confirmation of it ended half way: nothing else that is pending or cancelled
\* has changed anything, and nothing is confirmed unapplied.
AppliedIffConfirmed ==
  \A r \in ReceiptIds :
    (deliveries[r] # None) <=>
      (receipts[r] # None /\ (receipts[r].status = "confirmed" \/ r \in stopped))

\* While a line awaits goods its item is active and so is its supplier.
AwaitedGoodsAreActive ==
  \A l \in LineIds : lines[l] # None /\ lines[l].received < lines[l].ordered =>
    /\ lines[l].sku \in active
    /\ orders[lines[l].order].supplier \in active

\* Goods lie at active locations only.
GoodsLieAtActiveLocations ==
  /\ \A p \in Positions : stock[p] > 0 => p[2] \in active
  /\ \A a \in AssetIds : assets[a] # None => assets[a].location \in active

\* An asset that was put away is not set back to received, by whatever receipt
\* is confirmed, unless its own ended half way before and is confirmed again.
AssetsStayPutAway ==
  [][\A a \in AssetIds :
       assets[a] # None /\ assets[a].status = "in_stock" /\ a[1] \notin stopped =>
         assets'[a] = assets[a]]_vars

OrderedUnits == [l \in LineIds |-> IF lines[l] = None THEN 0 ELSE lines[l].ordered]
ArrivedUnits == [l \in LineIds |-> Arrived(l)]
OrdersOfLines == [l \in LineIds |-> IF lines[l] = None THEN None ELSE lines[l].order]

Fulfilment == INSTANCE OrderFulfilment WITH
  ordered <- OrderedUnits, arrived <- ArrivedUnits, belongs <- OrdersOfLines

\* Goods arrive only as deliveries of one order, never beyond what it ordered.
ImplementsFulfilment == Fulfilment!Spec
=============================================================================
