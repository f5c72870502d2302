--------------------------- MODULE Reconciliation ---------------------------
(***************************************************************************)
(* Matching one delivery note to one purchase order: DeliveryReconciler    *)
(* and ReceivingPlanner, which read the order and decide, and write        *)
(* nothing.  A delivery note is a sequence of rows                         *)
(*   [id, line, sku, delivered, damaged, serials]                          *)
(* where line is None when the row names no order line.  The order is the  *)
(* table of its lines, a function from their ids to                        *)
(*   [sku, ordered, received].                                             *)
(***************************************************************************)
EXTENDS Sequences, Totals

CONSTANTS
  Serialized,  \* the SKUs whose units carry a serial number
  None         \* an empty column

ASSUME NoneIsNoSku == None \notin Serialized

Outstanding(line) ==
  IF line.received >= line.ordered THEN 0 ELSE line.ordered - line.received

Usable(row) == row.delivered - row.damaged

\* The line a row is about: the one it names or, if it names none, the only
\* line of the order for its SKU.
LineOf(order, row) ==
  LET sameSku == {l \in DOMAIN order : order[l].sku = row.sku}
      candidates == IF row.line # None THEN {row.line} \intersect DOMAIN order ELSE sameSku
  IN  IF Cardinality(candidates) = 1 THEN CHOOSE l \in candidates : TRUE ELSE None

\* Rows that count towards a line: matched, and of the SKU the line orders.
RowsFor(order, note, l) ==
  {i \in DOMAIN note : LineOf(order, note[i]) = l /\ note[i].sku = order[l].sku}

\* The note can be reconciled at all; otherwise the reconciler raises.
Acceptable(order, note) ==
  /\ \A i \in DOMAIN note : note[i].delivered > 0 /\ note[i].damaged \in 0 .. note[i].delivered
  /\ \A l \in DOMAIN order : order[l].sku \in Serialized =>
       \A i \in RowsFor(order, note, l) : Len(note[i].serials) = Usable(note[i])

\* What each row contributes to its line.  Outstanding is read from the order
\* for every row; it is not lowered by the rows before.
Contribution(order, note, l) ==
  [i \in DOMAIN note |->
     IF Usable(note[i]) < Outstanding(order[l]) THEN Usable(note[i]) ELSE Outstanding(order[l])]

Accepted(order, note, l) ==
  Total(RowsFor(order, note, l), Contribution(order, note, l))

DeliveredTo(order, note, l) ==
  Total(RowsFor(order, note, l), [i \in DOMAIN note |-> note[i].delivered])

\* Accepting the note receives no line beyond what was ordered; otherwise
\* accept() raises before anything is written.
AnyQuantity(order, note) == TRUE
WithinOrder(order, note) ==
  \A l \in DOMAIN order : order[l].received + Accepted(order, note, l) <= order[l].ordered

\* The rows of the exceptions table the note gives rise to, by their kind.
UnexpectedRows(order, note) ==
  {[type |-> "unexpected_line", row |-> i, line |-> None] :
     i \in {j \in DOMAIN note : LineOf(order, note[j]) = None}}
WrongRows(order, note, l) ==
  {[type |-> "wrong_sku", row |-> i, line |-> l] :
     i \in {j \in DOMAIN note : LineOf(order, note[j]) = l /\ note[j].sku # order[l].sku}}
DamagedRows(order, note, l) ==
  {[type |-> "damaged", row |-> i, line |-> l] :
     i \in {j \in RowsFor(order, note, l) : note[j].damaged > 0}}
SurplusRows(order, note, l) ==
  {[type |-> "over", row |-> i, line |-> l] :
     i \in {j \in RowsFor(order, note, l) : note[j].delivered > Outstanding(order[l])}}
ShortLines(order, note) ==
  {[type |-> "short", row |-> 0, line |-> l] :
     l \in {k \in DOMAIN order : DeliveredTo(order, note, k) < Outstanding(order[k])}}

Discrepancies(order, note) ==
  (UNION {WrongRows(order, note, l) \union DamagedRows(order, note, l)
            \union SurplusRows(order, note, l) : l \in DOMAIN order})
    \union UnexpectedRows(order, note) \union ShortLines(order, note)

\* The serial numbers ReceivingPlanner gives the accepted units of a line:
\* those of the last row that names the line.  A row matched by its SKU names
\* none, and then no serial number is found.
SerialsOfLine(order, note, l) ==
  LET named == {i \in DOMAIN note : note[i].line = l} IN
    IF named = {} THEN << >>
    ELSE LET last == CHOOSE i \in named : \A j \in named : j <= i
             serials == note[last].serials
             accepted == Accepted(order, note, l)
         IN  SubSeq(serials, 1, IF accepted < Len(serials) THEN accepted ELSE Len(serials))

\* The status of an order whose lines are these.
StatusOf(order) ==
  LET ordered == Total(DOMAIN order, [l \in DOMAIN order |-> order[l].ordered])
      received == Total(DOMAIN order, [l \in DOMAIN order |-> order[l].received])
  IN  IF received = 0 THEN "open"
      ELSE IF received < ordered THEN "partially_received"
      ELSE "received"
=============================================================================
