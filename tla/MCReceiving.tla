---------------------------- MODULE MCReceiving ----------------------------
EXTENDS Receiving, TLC

CONSTANTS r1, r2, s1, s2, u1, u2

\* uuid4 identifiers and users carry no order.
Symmetry == Permutations(ReceiptIds) \union Permutations(StagingIds) \union Permutations(Actors)

Row(id, line, sku, delivered, damaged, serials) ==
  [id |-> id, line |-> line, sku |-> sku, delivered |-> delivered,
   damaged |-> damaged, serials |-> serials]

\* Two orders with line ids of their own.
TwoOrders ==
  [o \in {"PO1", "PO2"} |->
     IF o = "PO1"
       THEN {("L1" :> [sku |-> "MOUSE", ordered |-> 3]) @@
             ("L2" :> [sku |-> "LAPTOP", ordered |-> 2])}
       ELSE {"L3" :> [sku |-> "MOUSE", ordered |-> 1]}]

OneOrder == [o \in {"PO1"} |-> {"L1" :> [sku |-> "LAPTOP", ordered |-> 2]}]

\* Part of a line, damage, both lines at once, a surplus, a row matched by its
\* SKU, two rows for one line, and a wrong SKU.
ManyNotes ==
  {<<Row("D1", "L1", "MOUSE", 2, 0, << >>)>>,
   <<Row("D1", "L1", "MOUSE", 1, 0, << >>), Row("D2", "L2", "LAPTOP", 2, 1, <<"SN1">>)>>,
   <<Row("D1", "L2", "LAPTOP", 1, 0, <<"SN1">>)>>,
   <<Row("D1", None, "MOUSE", 2, 0, << >>)>>,
   <<Row("D1", "L1", "MOUSE", 2, 0, << >>), Row("D2", "L1", "MOUSE", 2, 0, << >>)>>,
   <<Row("D1", "L3", "LAPTOP", 1, 0, <<"SN2">>)>>}

SerializedNotes ==
  {<<Row("D1", "L1", "LAPTOP", 1, 0, <<"SN1">>)>>, <<Row("D2", "L1", "LAPTOP", 1, 0, <<"SN2">>)>>}

\* The documents of every instance are such as the theorems speak of.
ASSUME InstanceDocuments == LineIdsApart /\ SerialsNamed

=============================================================================
