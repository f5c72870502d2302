-------------------------- MODULE Receiving_proofs --------------------------
(***************************************************************************)
(* Theorems about purchase orders and deliveries, for any documents, notes *)
(* and identifiers, any number of orders and receipts and any bounds.      *)
(***************************************************************************)
EXTENDS Receiving, FiniteSetTheorems, FunctionTheorems, WellFoundedInduction, TLAPS

-----------------------------------------------------------------------------
(* Totals over finite sets of rows.                                        *)

\* The tokens of one row.
LEMMA RowTokens ==
  ASSUME NEW i, NEW n \in Nat
  PROVE  IsFiniteSet({i} \X (1 .. n)) /\ Cardinality({i} \X (1 .. n)) = n
<1>1. IsFiniteSet({i}) /\ Cardinality({i}) = 1
  BY FS_Singleton
<1>2. IsFiniteSet(1 .. n) /\ Cardinality(1 .. n) = n
  BY FS_Interval
<1>3. /\ IsFiniteSet({i} \X (1 .. n))
      /\ Cardinality({i} \X (1 .. n)) = Cardinality({i}) * Cardinality(1 .. n)
  BY <1>1, <1>2, FS_Product, Zenon
<1>4. 1 * n = n
  OBVIOUS
<1>5. QED
  BY <1>1, <1>2, <1>3, <1>4, Zenon

\* The total of a column over finitely many rows is a natural number.
LEMMA TotalIsNat ==
  ASSUME NEW S, IsFiniteSet(S), NEW w, \A i \in S : w[i] \in Nat
  PROVE  IsFiniteSet(Units(S, w)) /\ Total(S, w) \in Nat
<1> DEFINE T == {{i} \X (1 .. w[i]) : i \in S}
           f == [i \in S |-> {i} \X (1 .. w[i])]
<1>1. f \in Surjection(S, T)
  BY DEF Surjection
<1>2. IsFiniteSet(T)
  BY <1>1, FS_Surjection, Zenon
<1>3. ASSUME NEW U \in T
      PROVE  IsFiniteSet(U)
  <2>1. PICK i \in S : U = {i} \X (1 .. w[i])
    OBVIOUS
  <2>2. QED
    BY <2>1, RowTokens
<1>4. IsFiniteSet(UNION T)
  BY <1>2, <1>3, FS_UNION
<1>5. Units(S, w) = UNION T
  BY DEF Units
<1> HIDE DEF T
<1>6. QED
  BY <1>4, <1>5, FS_CardinalityType DEF Total

\* Only the weights of the rows count.
LEMMA TotalSame ==
  ASSUME NEW S, NEW w, NEW v, \A i \in S : w[i] = v[i]
  PROVE  Total(S, w) = Total(S, v)
<1>1. Units(S, w) = Units(S, v)
  BY DEF Units
<1>2. QED
  BY <1>1 DEF Total

\* A row that weighed nothing and now weighs something adds that to the total.
LEMMA TotalRaise ==
  ASSUME NEW S, IsFiniteSet(S), NEW w, NEW v, NEW r \in S,
         \A i \in S : w[i] \in Nat, w[r] = 0, v[r] \in Nat,
         \A i \in S : i # r => v[i] = w[i]
  PROVE  Total(S, v) = Total(S, w) + v[r]
<1> DEFINE row == {r} \X (1 .. v[r])
<1>1. Units(S, v) = Units(S, w) \union row
  <2>1. \A i \in S : i # r => {i} \X (1 .. v[i]) = {i} \X (1 .. w[i])
    OBVIOUS
  <2>2. {r} \X (1 .. w[r]) = {}
    OBVIOUS
  <2>3. QED
    BY <2>1, <2>2 DEF Units
<1>2. Units(S, w) \intersect row = {}
  BY DEF Units
<1>3. IsFiniteSet(row) /\ Cardinality(row) = v[r]
  BY RowTokens
<1>4. IsFiniteSet(Units(S, w)) /\ Total(S, w) \in Nat
  BY TotalIsNat
<1>5. Cardinality(Units(S, w) \union row)
        = Cardinality(Units(S, w)) + Cardinality(row) - Cardinality({})
  BY <1>2, <1>3, <1>4, FS_Union
<1>6. Cardinality({}) = 0
  BY FS_EmptySet
<1> HIDE DEF row
<1>7. QED
  BY <1>1, <1>3, <1>4, <1>5, <1>6 DEF Total

\* Smaller weights make no larger total, and an equal one only if no weight
\* is smaller.
LEMMA TotalSqueeze ==
  ASSUME NEW S, IsFiniteSet(S), NEW w, NEW v,
         \A i \in S : w[i] \in Nat /\ v[i] \in Nat /\ w[i] <= v[i]
  PROVE  /\ Total(S, w) <= Total(S, v)
         /\ Total(S, w) = Total(S, v) => \A i \in S : w[i] = v[i]
<1>1. \A i \in S : w[i] \in Nat
  OBVIOUS
<1>2. \A i \in S : v[i] \in Nat
  OBVIOUS
<1>3. IsFiniteSet(Units(S, w)) /\ IsFiniteSet(Units(S, v))
  BY <1>1, <1>2, TotalIsNat
<1>4. Units(S, w) \in SUBSET Units(S, v)
  <2>1. \A i \in S : 1 .. w[i] \subseteq 1 .. v[i]
    OBVIOUS
  <2>2. QED
    BY <2>1 DEF Units
<1>5. /\ Cardinality(Units(S, w)) <= Cardinality(Units(S, v))
      /\ Cardinality(Units(S, v)) = Cardinality(Units(S, w)) => Units(S, v) = Units(S, w)
  BY <1>3, <1>4, FS_Subset
<1>6. ASSUME Units(S, v) = Units(S, w), NEW i \in S
      PROVE  w[i] = v[i]
  <2>1. CASE v[i] = 0
    BY <2>1
  <2>2. CASE v[i] > 0
    <3>1. <<i, v[i]>> \in Units(S, v)
      <4>1. v[i] \in 1 .. v[i]
        BY <2>2
      <4>2. <<i, v[i]>> \in {i} \X (1 .. v[i])
        BY <4>1
      <4>3. QED
        BY <4>2 DEF Units
    <3>2. PICK j \in S : <<i, v[i]>> \in {j} \X (1 .. w[j])
      BY <1>6, <3>1 DEF Units
    <3>3. QED
      BY <3>2
  <2>3. QED
    BY <2>1, <2>2
<1>7. QED
  BY <1>5, <1>6 DEF Total

LEMMA TotalOfZeros ==
  ASSUME NEW S, NEW w, \A i \in S : w[i] = 0
  PROVE  Total(S, w) = 0
<1>1. Units(S, w) = {}
  BY DEF Units
<1>2. QED
  BY <1>1, FS_EmptySet DEF Total

LEMMA TotalOfOne ==
  ASSUME NEW i, NEW w, w[i] \in Nat
  PROVE  Total({i}, w) = w[i]
<1>1. Units({i}, w) = {i} \X (1 .. w[i])
  BY DEF Units
<1>2. QED
  BY <1>1, RowTokens DEF Total

-----------------------------------------------------------------------------
(* Matching a note to an order.                                            *)

\* The last of some rows of a note exists.
LEMMA LastExists ==
  ASSUME NEW n \in Nat, NEW T \in SUBSET (1 .. n), T # {}
  PROVE  \E x \in T : \A y \in T : y <= x
<1> DEFINE Above == {p \in Nat \X Nat : p[1] < p[2]}
           U == {u \in Nat : \E y \in T : u = n - y}
<1>1. IsWellFoundedOn(Above, Nat)
  BY NatLessThanWellFounded DEF OpToRel
<1>2. \A y \in T : n - y \in Nat
  OBVIOUS
<1>3. U \in SUBSET Nat /\ U # {}
  BY <1>2
<1> HIDE DEF Above, U
<1>4. PICK u \in U : \A v \in U : <<v, u>> \notin Above
  BY <1>1, <1>3, WFMin
<1>5. PICK x \in T : u = n - x
  BY DEF U
<1>6. ASSUME NEW y \in T
      PROVE  y <= x
  <2>1. n - y \in U /\ n - y \in Nat /\ u \in Nat
    BY <1>2 DEF U
  <2>2. ~ (n - y < u)
    BY <1>4, <2>1 DEF Above
  <2>3. QED
    BY <1>5, <2>2
<1>7. QED
  BY <1>6

\* The lines of an order as the reconciler sees them.
OrderOK(order) == \A l \in DOMAIN order : order[l].ordered \in Nat /\ order[l].received \in Nat

LEMMA OutstandingIsNat ==
  ASSUME NEW order, OrderOK(order), NEW l \in DOMAIN order
  PROVE  Outstanding(order[l]) \in Nat
  BY DEF OrderOK, Outstanding

\* What the rows of an acceptable note contribute is a natural number, and no
\* more than was delivered undamaged.
LEMMA ContributionIsNat ==
  ASSUME NEW order, OrderOK(order), NEW l \in DOMAIN order, NEW note \in Notes,
         Acceptable(order, note), NEW i \in DOMAIN note
  PROVE  /\ Contribution(order, note, l)[i] \in Nat
         /\ Usable(note[i]) \in Nat
         /\ Contribution(order, note, l)[i] <= Usable(note[i])
<1>1. /\ note[i].delivered \in Int /\ note[i].damaged \in Int
      /\ note[i].damaged \in 0 .. note[i].delivered
  BY DocumentsAssumption DEF Acceptable
<1>2. Usable(note[i]) \in Nat
  BY <1>1 DEF Usable
<1>3. Outstanding(order[l]) \in Nat
  BY OutstandingIsNat
<1>4. QED
  BY <1>2, <1>3 DEF Contribution

LEMMA AcceptedIsNat ==
  ASSUME NEW order, OrderOK(order), NEW l \in DOMAIN order, NEW note \in Notes,
         Acceptable(order, note)
  PROVE  Accepted(order, note, l) \in Nat
<1>1. Len(note) \in Nat /\ DOMAIN note = 1 .. Len(note)
  BY DocumentsAssumption
<1>2. IsFiniteSet(1 .. Len(note))
  BY <1>1, FS_Interval
<1>3. RowsFor(order, note, l) \in SUBSET (1 .. Len(note))
  BY <1>1 DEF RowsFor
<1>4. IsFiniteSet(RowsFor(order, note, l))
  BY <1>2, <1>3, FS_Subset
<1>5. \A i \in RowsFor(order, note, l) : Contribution(order, note, l)[i] \in Nat
  BY <1>1, <1>3, ContributionIsNat
<1>6. QED
  BY <1>4, <1>5, TotalIsNat DEF Accepted

\* The serial numbers given to a line are numbers of the note, at most one for
\* each accepted unit.
LEMMA SerialsOfLineShape ==
  ASSUME NEW order, OrderOK(order), NEW l \in DOMAIN order, NEW note \in Notes,
         Acceptable(order, note)
  PROVE  /\ SerialsOfLine(order, note, l) \in Seq(Serials)
         /\ Len(SerialsOfLine(order, note, l)) \in Nat
         /\ Len(SerialsOfLine(order, note, l)) <= Accepted(order, note, l)
<1> DEFINE named == {i \in DOMAIN note : note[i].line = l}
           accepted == Accepted(order, note, l)
<1>1. accepted \in Nat
  BY AcceptedIsNat
<1>2. CASE named = {}
  <2>1. SerialsOfLine(order, note, l) = << >>
    BY <1>2 DEF SerialsOfLine
  <2>2. QED
    BY <1>1, <2>1
<1>3. CASE named # {}
  <2> DEFINE last == CHOOSE i \in named : \A j \in named : j <= i
             serials == note[last].serials
             k == IF accepted < Len(serials) THEN accepted ELSE Len(serials)
  <2>1. Len(note) \in Nat /\ named \in SUBSET (1 .. Len(note))
    BY DocumentsAssumption
  <2>2. last \in named
    BY <1>3, <2>1, LastExists
  <2>3. serials \in Seq(Serials)
    BY <2>2, DocumentsAssumption
  <2>4. SerialsOfLine(order, note, l) = SubSeq(serials, 1, k)
    BY <1>3 DEF SerialsOfLine
  <2> HIDE DEF serials, accepted
  <2>5. k \in 0 .. Len(serials) /\ k <= accepted
    BY <1>1, <2>3
  <2> HIDE DEF k
  <2>6. SubSeq(serials, 1, k) \in Seq(Serials) /\ Len(SubSeq(serials, 1, k)) = k
    BY <2>3, <2>5
  <2>7. QED
    BY <1>1, <2>4, <2>5, <2>6 DEF accepted
<1>4. QED
  BY <1>2, <1>3

-----------------------------------------------------------------------------
(* One receipt and the order it is for.                                    *)

\* Receipt r is staged and its note can be reconciled with its order.
Deliverable(r) ==
  /\ r \in ReceiptIds /\ receipts[r] # None
  /\ Acceptable(OrderTable(receipts[r].order), receipts[r].note)

LEMMA OrderTableOK ==
  ASSUME TypeOK, NEW o
  PROVE  /\ LinesOf(o) \subseteq LineIds /\ IsFiniteSet(LinesOf(o))
         /\ DOMAIN OrderTable(o) = LinesOf(o)
         /\ \A l \in LinesOf(o) : lines[l] \in Line /\ OrderTable(o)[l] = lines[l]
         /\ OrderOK(OrderTable(o))
<1>1. LinesOf(o) \subseteq LineIds /\ IsFiniteSet(LinesOf(o))
  BY TablesAssumption, FS_Subset DEF LinesOf
<1>2. DOMAIN OrderTable(o) = LinesOf(o)
  BY DEF OrderTable
<1>3. \A l \in LinesOf(o) : lines[l] \in Line /\ OrderTable(o)[l] = lines[l]
  BY DEF OrderTable, LinesOf, TypeOK
<1>4. OrderOK(OrderTable(o))
  BY <1>2, <1>3 DEF OrderOK, Line
<1>5. QED
  BY <1>1, <1>2, <1>3, <1>4

\* What a receipt brings for a line: units, some of them posted as stock, or
\* serial numbers, no more than units.
LEMMA AcceptedForShape ==
  ASSUME TypeOK, NEW r, Deliverable(r), NEW l \in LineIds
  PROVE  /\ AcceptedFor(r, l) \in Nat
         /\ l \notin LinesOf(receipts[r].order) => AcceptedFor(r, l) = 0
         /\ QuantityPosted(r, l) =
              IF lines[l] # None /\ lines[l].sku \notin Serialized THEN AcceptedFor(r, l) ELSE 0
         /\ QuantityPosted(r, l) \in Nat
         /\ SerialsPosted(r, l) \in Seq(Serials)
         /\ Len(SerialsPosted(r, l)) \in Nat
         /\ Len(SerialsPosted(r, l)) <= AcceptedFor(r, l)
         /\ Len(SerialsPosted(r, l)) > 0 => lines[l] # None /\ lines[l].sku \in Serialized
<1> DEFINE order == OrderTable(receipts[r].order)
           note == receipts[r].note
<1>1. receipts[r] \in Receipt /\ note \in Notes /\ Acceptable(order, note)
  BY DEF Deliverable, TypeOK, Receipt
<1>2. OrderOK(order) /\ DOMAIN order = LinesOf(receipts[r].order)
  BY OrderTableOK
<1>3. l \in LinesOf(receipts[r].order) => AcceptedFor(r, l) = Accepted(order, note, l)
  BY DEF AcceptedFor
<1>4. l \notin LinesOf(receipts[r].order) => AcceptedFor(r, l) = 0
  BY DEF AcceptedFor
<1> HIDE DEF order, note
<1>5. l \in LinesOf(receipts[r].order) =>
        /\ Accepted(order, note, l) \in Nat
        /\ SerialsOfLine(order, note, l) \in Seq(Serials)
        /\ Len(SerialsOfLine(order, note, l)) \in Nat
        /\ Len(SerialsOfLine(order, note, l)) <= Accepted(order, note, l)
  BY <1>1, <1>2, AcceptedIsNat, SerialsOfLineShape
<1>6. AcceptedFor(r, l) \in Nat
  BY <1>3, <1>4, <1>5
<1>7. QuantityPosted(r, l) \in Nat
  BY <1>6 DEF QuantityPosted
<1>8. CASE lines[l] # None /\ lines[l].sku \in Serialized /\ AcceptedFor(r, l) > 0
  <2>1. SerialsPosted(r, l) = SerialsOfLine(order, note, l)
    BY <1>8 DEF SerialsPosted, order, note
  <2>2. l \in LinesOf(receipts[r].order)
    BY <1>4, <1>8
  <2>3. QED
    BY <1>3, <1>4, <1>5, <1>6, <1>7, <1>8, <2>1, <2>2 DEF QuantityPosted
<1>9. CASE ~ (lines[l] # None /\ lines[l].sku \in Serialized /\ AcceptedFor(r, l) > 0)
  <2>1. SerialsPosted(r, l) = << >>
    BY <1>9 DEF SerialsPosted
  <2>2. QED
    BY <1>4, <1>6, <1>7, <2>1 DEF QuantityPosted
<1>10. QED
  BY <1>8, <1>9

\* The bags of the exceptions table.
LEMMA MoreExceptions ==
  ASSUME IsABag(exceptions), NEW S
  PROVE  IsABag(exceptions (+) SetToBag(S))
  BY DEF IsABag, SetToBag, (+)

\* A staged receipt is for an order in the tables.
ReceiptsHaveOrders == \A r \in ReceiptIds : receipts[r] # None => orders[receipts[r].order] # None

\* What the first transaction of a confirmation writes has the right type.
LEMMA ReceiveTypes ==
  ASSUME TypeOK, ReceiptsHaveOrders, NEW r \in ReceiptIds, receipts[r] # None, Receive(r)
  PROVE  /\ orders' \in [Orders -> Order \union {None}]
         /\ lines' \in [LineIds -> Line \union {None}]
         /\ deliveries' \in [ReceiptIds -> {"accepted", "exception", None}]
         /\ rows' \in [RowIds -> ReceiptIds \union {None}]
         /\ posted' \in [ReceiptIds \X LineIds -> Nat]
         /\ stock' \in [Positions -> Nat]
         /\ assets' \in [AssetIds -> Asset \union {None}]
         /\ IsABag(exceptions')
<1> DEFINE o == receipts[r].order
<1>1. Deliverable(r)
  BY DEF Deliverable, Receive
<1>2. receipts[r] \in Receipt /\ o \in Orders /\ receipts[r].destination \in Locations
  BY DEF TypeOK, Receipt
<1>3. \A l \in LineIds : AcceptedFor(r, l) \in Nat /\ QuantityPosted(r, l) \in Nat
  BY <1>1, AcceptedForShape
<1>4. orders' \in [Orders -> Order \union {None}]
  <2>1. orders' = [orders EXCEPT ![o].status = StatusAfter(r)]
    BY DEF Receive
  <2>2. StatusAfter(r) \in Statuses
    BY DEF StatusAfter, StatusOf, Statuses
  <2>3. orders[o] \in Order
    BY <1>2 DEF TypeOK, ReceiptsHaveOrders
  <2>4. [orders[o] EXCEPT !.status = StatusAfter(r)] \in Order
    BY <2>2, <2>3 DEF Order
  <2>5. QED
    BY <1>2, <2>1, <2>4 DEF TypeOK
<1>5. lines' \in [LineIds -> Line \union {None}]
  <2>1. lines' = ReceivedLines(r)
    BY DEF Receive
  <2>2. ASSUME NEW l \in LineIds, l \in LinesOf(o)
        PROVE  [lines[l] EXCEPT !.received = @ + AcceptedFor(r, l)] \in Line
    <3>1. lines[l] \in Line
      BY <2>2, OrderTableOK
    <3>2. QED
      BY <1>3, <3>1 DEF Line
  <2>3. QED
    BY <2>1, <2>2 DEF ReceivedLines, TypeOK
<1>6. deliveries' \in [ReceiptIds -> {"accepted", "exception", None}]
  BY DEF Receive, TypeOK
<1>7. rows' \in [RowIds -> ReceiptIds \union {None}]
  BY DEF Receive, TypeOK
<1>8. posted' \in [ReceiptIds \X LineIds -> Nat]
  <2>1. posted' = [k \in ReceiptIds \X LineIds |->
                     IF k[1] = r THEN posted[k] + QuantityPosted(r, k[2]) ELSE posted[k]]
    BY DEF Receive
  <2>2. \A k \in ReceiptIds \X LineIds : posted[k] \in Nat /\ QuantityPosted(r, k[2]) \in Nat
    BY <1>3 DEF TypeOK
  <2>3. QED
    BY <2>1, <2>2
<1>9. stock' \in [Positions -> Nat]
  <2> DEFINE quantities == [l \in LineIds |-> QuantityPosted(r, l)]
             balance(p) == Total({l \in LinesOf(o) : lines[l].sku = p[1]}, quantities)
  <2>1. stock' = [p \in Positions |->
                    IF p[2] = receipts[r].destination THEN stock[p] + balance(p) ELSE stock[p]]
    BY DEF Receive
  <2>2. ASSUME NEW p \in Positions
        PROVE  balance(p) \in Nat
    <3> DEFINE S == {l \in LinesOf(o) : lines[l].sku = p[1]}
    <3>1. IsFiniteSet(S) /\ S \subseteq LineIds
      BY OrderTableOK, FS_Subset
    <3>2. \A l \in S : quantities[l] \in Nat
      BY <1>3, <3>1
    <3> HIDE DEF S, quantities
    <3>3. Total(S, quantities) \in Nat
      BY <3>1, <3>2, TotalIsNat
    <3>4. QED
      BY <3>3 DEF S
  <2> HIDE DEF balance
  <2>3. QED
    BY <2>1, <2>2 DEF TypeOK
<1>10. assets' \in [AssetIds -> Asset \union {None}]
  <2>1. assets' = [a \in AssetIds |->
                  IF a \notin NewAssets(r) THEN assets[a]
                  ELSE IF assets[a] # None
                    THEN [assets[a] EXCEPT !.status = "received",
                                           !.location = receipts[r].destination]
                  ELSE [sku |-> lines[a[2]].sku, serial |-> SerialOf(a), order |-> o,
                        location |-> receipts[r].destination, status |-> "received"]]
    BY DEF Receive
  <2>2. ASSUME NEW a \in AssetIds, assets[a] # None
        PROVE  [assets[a] EXCEPT !.status = "received",
                                 !.location = receipts[r].destination] \in Asset
    <3>1. assets[a] \in Asset
      BY <2>2 DEF TypeOK
    <3>2. QED
      BY <1>2, <3>1 DEF Asset
  <2>3. ASSUME NEW a \in AssetIds, a \in NewAssets(r)
        PROVE  [sku |-> lines[a[2]].sku, serial |-> SerialOf(a), order |-> o,
                location |-> receipts[r].destination, status |-> "received"] \in Asset
    <3>1. a[1] = r /\ a[2] \in LineIds /\ a[3] \in 1 .. MaxUnits
      BY <2>3 DEF NewAssets, AssetIds
    <3>2. a[3] \in 1 .. Len(SerialsPosted(r, a[2])) /\ Len(SerialsPosted(r, a[2])) > 0
      BY <1>1, <2>3, <3>1, AcceptedForShape, BoundsAssumption DEF NewAssets
    <3>3. SerialsPosted(r, a[2]) \in Seq(Serials) /\ lines[a[2]] # None
      BY <1>1, <3>1, <3>2, AcceptedForShape
    <3>4. SerialOf(a) \in Serials
      BY <3>1, <3>2, <3>3 DEF SerialOf
    <3>5. lines[a[2]].sku \in Skus
      BY <3>1, <3>3 DEF TypeOK, Line
    <3>6. QED
      BY <1>2, <3>4, <3>5 DEF Asset
  <2>4. QED
    BY <2>1, <2>2, <2>3 DEF TypeOK
<1>11. IsABag(exceptions')
  <2>1. \E S : exceptions' = exceptions (+) SetToBag(S)
    BY DEF Receive
  <2>2. QED
    BY <2>1, MoreExceptions DEF TypeOK
<1>12. QED
  BY <1>4, <1>5, <1>6, <1>7, <1>8, <1>9, <1>10, <1>11

-----------------------------------------------------------------------------
(* What holds of the tables whatever the documents and notes say.          *)

\* A staged document is one the order may have.
StagedDocuments ==
  \A s \in StagingIds : stagings[s] # None => stagings[s].document \in OrderDocuments[stagings[s].order]

\* A line is of an order in the tables, and of a document that order may have.
LinesFromDocuments ==
  \A l \in LineIds : lines[l] # None =>
    /\ orders[lines[l].order] # None
    /\ \E d \in OrderDocuments[lines[l].order] : l \in DOMAIN d

\* Stock and assets are there for a delivery and a line, each kind for lines of
\* its own.
GoodsHaveLines ==
  /\ \A r \in ReceiptIds, l \in LineIds : posted[<<r, l>>] # 0 =>
       deliveries[r] # None /\ lines[l] # None /\ lines[l].sku \notin Serialized
  /\ \A a \in AssetIds : assets[a] # None =>
       deliveries[a[1]] # None /\ lines[a[2]] # None /\ lines[a[2]].sku \in Serialized

Records ==
  /\ TypeOK
  /\ ReceiptsHaveOrders
  /\ StagedDocuments
  /\ LinesFromDocuments
  /\ GoodsHaveLines
  /\ NeverOverReceived
  /\ GoodsLieAtActiveLocations

\* What a staged order that is being confirmed looks like.
LEMMA PendingOrderShape ==
  ASSUME Records, NEW s \in StagingIds, NEW a, PendingOrder(s, a)
  PROVE  /\ stagings[s] \in Staging /\ stagings[s].order \in Orders
         /\ stagings[s].document \in OrderDocuments[stagings[s].order]
         /\ DOMAIN stagings[s].document \subseteq LineIds
         /\ \A l \in DOMAIN stagings[s].document :
              stagings[s].document[l].sku \in Skus /\ stagings[s].document[l].ordered \in Nat
<1> DEFINE d == stagings[s].document
           o == stagings[s].order
<1>1. stagings[s] \in Staging /\ o \in Orders
  BY DEF Records, TypeOK, PendingOrder, Staging
<1>2. d \in OrderDocuments[o]
  BY DEF Records, StagedDocuments, PendingOrder
<1> HIDE DEF d, o
<1>3. DOMAIN d \subseteq LineIds /\ d \in [DOMAIN d -> [sku : Skus, ordered : Nat]]
  BY <1>1, <1>2, DocumentsAssumption
<1>4. \A l \in DOMAIN d : d[l].sku \in Skus /\ d[l].ordered \in Nat
  BY <1>3
<1>5. QED
  BY <1>1, <1>2, <1>3, <1>4 DEF d, o

\* The lines after an order is confirmed: those of its document, with nothing
\* received, and the others as they were.
LEMMA SavedLinesShape ==
  ASSUME Records, NEW s \in StagingIds, NEW a, PendingOrder(s, a), NEW l \in LineIds
  PROVE  LET new == SavedLines(stagings[s].order, stagings[s].document)[l]
             document == stagings[s].document
         IN  /\ new \in Line \union {None}
             /\ l \notin DOMAIN document => new = lines[l]
             /\ l \in DOMAIN document => new # None /\ new.received = 0 /\ new.ordered \in Nat
             /\ lines[l] # None =>
                  new # None /\ new.order = lines[l].order /\ new.sku = lines[l].sku
                    /\ new.ordered = lines[l].ordered
             /\ lines[l] = None /\ l \in DOMAIN document =>
                  /\ new.order = stagings[s].order /\ new.sku = document[l].sku
                  /\ new.ordered = document[l].ordered
<1> DEFINE document == stagings[s].document
           new == SavedLines(stagings[s].order, document)[l]
<1>1. lines[l] \in Line \union {None}
  BY DEF Records, TypeOK
<1>2. CASE l \notin DOMAIN document
  BY <1>1, <1>2 DEF SavedLines
<1>3. CASE l \in DOMAIN document /\ lines[l] # None
  <2>1. new = [lines[l] EXCEPT !.received = 0]
    BY <1>3 DEF SavedLines
  <2>2. new \in Line
    BY <1>1, <1>3, <2>1 DEF Line
  <2>3. QED
    BY <1>1, <1>3, <2>1, <2>2, NoneAssumption DEF Line
<1>4. CASE l \in DOMAIN document /\ lines[l] = None
  <2>1. new = [order |-> stagings[s].order, sku |-> document[l].sku,
               ordered |-> document[l].ordered, received |-> 0]
    BY <1>4 DEF SavedLines
  <2>2. new \in Line
    BY <1>4, <2>1, PendingOrderShape DEF Line
  <2>3. QED
    BY <1>4, <2>1, <2>2, NoneAssumption DEF Line
<1>5. QED
  BY <1>2, <1>3, <1>4

\* What the first transaction of a confirmation leaves of lines and orders.
LEMMA ReceiveShape ==
  ASSUME Records, NEW r \in ReceiptIds, receipts[r] # None, Receive(r)
  PROVE  /\ Deliverable(r)
         /\ receipts[r] \in Receipt
         /\ \A l \in LineIds :
              /\ lines'[l] = None <=> lines[l] = None
              /\ lines[l] # None =>
                   /\ lines'[l].order = lines[l].order /\ lines'[l].sku = lines[l].sku
                   /\ lines'[l].ordered = lines[l].ordered
                   /\ lines'[l].received = lines[l].received + AcceptedFor(r, l)
                   /\ lines'[l].received <= lines[l].ordered
         /\ \A o \in Orders :
              /\ orders'[o] = None <=> orders[o] = None
              /\ orders[o] # None => orders'[o].supplier = orders[o].supplier
              /\ o # receipts[r].order => orders'[o] = orders[o]
              /\ o = receipts[r].order => orders'[o].status = StatusAfter(r)
<1> DEFINE p == receipts[r].order
<1>1. Deliverable(r) /\ receipts[r] \in Receipt
  BY DEF Deliverable, Receive, Records, TypeOK
<1>2. p \in Orders /\ orders[p] \in Order
  BY <1>1 DEF Receipt, Records, TypeOK, ReceiptsHaveOrders
<1>3. ASSUME NEW l \in LineIds
      PROVE  /\ lines'[l] = None <=> lines[l] = None
             /\ lines[l] # None =>
                  /\ lines'[l].order = lines[l].order /\ lines'[l].sku = lines[l].sku
                  /\ lines'[l].ordered = lines[l].ordered
                  /\ lines'[l].received = lines[l].received + AcceptedFor(r, l)
                  /\ lines'[l].received <= lines[l].ordered
  <2>1. lines'[l] = IF l \in LinesOf(p)
                      THEN [lines[l] EXCEPT !.received = @ + AcceptedFor(r, l)]
                      ELSE lines[l]
    BY DEF Receive, ReceivedLines
  <2>2. lines[l] \in Line \union {None} /\ AcceptedFor(r, l) \in Nat
    BY <1>1, AcceptedForShape DEF Records, TypeOK
  <2>3. CASE l \in LinesOf(p)
    <3>1. lines[l] \in Line /\ lines[l] # None
      BY <2>2, <2>3 DEF LinesOf
    <3>2. lines[l].received + AcceptedFor(r, l) <= lines[l].ordered
      <4>1. WithinOrder(OrderTable(p), receipts[r].note)
        BY DEF Receive
      <4>2. OrderTable(p)[l] = lines[l] /\ l \in DOMAIN OrderTable(p)
        BY <2>3, OrderTableOK DEF Records
      <4>3. AcceptedFor(r, l) = Accepted(OrderTable(p), receipts[r].note, l)
        BY <2>3 DEF AcceptedFor
      <4>4. QED
        BY <4>1, <4>2, <4>3 DEF WithinOrder
    <3>3. lines'[l] \in Line
      BY <2>1, <2>2, <2>3, <3>1 DEF Line
    <3>4. QED
      BY <2>1, <2>3, <3>1, <3>2, <3>3, NoneAssumption DEF Line
  <2>4. CASE l \notin LinesOf(p)
    <3>1. AcceptedFor(r, l) = 0
      BY <2>4 DEF AcceptedFor
    <3>2. QED
      BY <2>1, <2>2, <2>4, <3>1 DEF Line, Records, NeverOverReceived
  <2>5. QED
    BY <2>3, <2>4
<1>4. ASSUME NEW o \in Orders
      PROVE  /\ orders'[o] = None <=> orders[o] = None
             /\ orders[o] # None => orders'[o].supplier = orders[o].supplier
             /\ o # receipts[r].order => orders'[o] = orders[o]
             /\ o = receipts[r].order => orders'[o].status = StatusAfter(r)
  <2>1. orders' = [orders EXCEPT ![p].status = StatusAfter(r)]
    BY DEF Receive
  <2>2. orders'[o] = IF o = p THEN [orders[o] EXCEPT !.status = StatusAfter(r)] ELSE orders[o]
    BY <2>1 DEF Records, TypeOK
  <2>3. StatusAfter(r) \in Statuses
    BY DEF StatusAfter, StatusOf, Statuses
  <2>4. [orders[p] EXCEPT !.status = StatusAfter(r)] \in Order
    BY <1>2, <2>3 DEF Order
  <2>5. QED
    BY <1>2, <2>2, <2>4, NoneAssumption DEF Order
<1>5. QED
  BY <1>1, <1>3, <1>4

LEMMA RecordsInit ==
  ASSUME Init
  PROVE  Records
<1>1. TypeOK
  BY DEF Init, TypeOK, IsABag, EmptyBag, SetToBag
<1>2. ReceiptsHaveOrders /\ StagedDocuments /\ LinesFromDocuments /\ NeverOverReceived
  BY DEF Init, ReceiptsHaveOrders, StagedDocuments, LinesFromDocuments, NeverOverReceived
<1>3. GoodsHaveLines
  BY DEF Init, GoodsHaveLines
<1>4. GoodsLieAtActiveLocations
  BY DEF Init, GoodsLieAtActiveLocations
<1>5. QED
  BY <1>1, <1>2, <1>3, <1>4 DEF Records

LEMMA StageOrderRecords ==
  ASSUME Records, NEW s \in StagingIds, NEW o \in Orders, NEW x \in Suppliers,
         NEW d \in OrderDocuments[o], NEW a \in Actors, StageOrder(s, o, x, d, a)
  PROVE  Records'
<1> DEFINE row == [order |-> o, supplier |-> x, actor |-> a, document |-> d,
                   status |-> "pending_confirmation"]
<1>1. row \in Staging
  <2>1. d \in UNION {OrderDocuments[q] : q \in Orders}
    OBVIOUS
  <2>2. QED
    BY <2>1 DEF Staging, Stage
<1>2. stagings' = [stagings EXCEPT ![s] = row]
  BY DEF StageOrder
<1> USE DEF Records
<1>3. TypeOK'
  BY <1>1, <1>2 DEF StageOrder, TypeOK, delivery, goods
<1>4. StagedDocuments'
  BY <1>2 DEF StagedDocuments, TypeOK
<1>5. /\ ReceiptsHaveOrders' /\ LinesFromDocuments' /\ NeverOverReceived'
      /\ GoodsHaveLines' /\ GoodsLieAtActiveLocations'
  BY DEF StageOrder, delivery, goods, ReceiptsHaveOrders, LinesFromDocuments,
         NeverOverReceived, GoodsHaveLines, GoodsLieAtActiveLocations
<1>6. QED
  BY <1>3, <1>4, <1>5

LEMMA ConfirmOrderRecords ==
  ASSUME Records, NEW s \in StagingIds, NEW a \in Actors, ConfirmOrder(s, a)
  PROVE  Records'
<1> DEFINE o == stagings[s].order
           document == stagings[s].document
<1>1. PendingOrder(s, a) /\ lines' = SavedLines(o, document)
  BY DEF ConfirmOrder
<1>2. stagings[s] \in Staging /\ o \in Orders /\ document \in OrderDocuments[o]
  BY <1>1, PendingOrderShape
<1>3. orders' = [orders EXCEPT ![o] = [supplier |-> stagings[s].supplier, status |-> "open"]]
  BY DEF ConfirmOrder
<1>4. [supplier |-> stagings[s].supplier, status |-> "open"] \in Order
  BY <1>2 DEF Staging, Order, Statuses
<1>5. \A l \in LineIds :
        /\ lines'[l] \in Line \union {None}
        /\ l \notin DOMAIN document => lines'[l] = lines[l]
        /\ l \in DOMAIN document => lines'[l] # None /\ lines'[l].received = 0 /\ lines'[l].ordered \in Nat
        /\ lines[l] # None =>
             lines'[l] # None /\ lines'[l].order = lines[l].order /\ lines'[l].sku = lines[l].sku
        /\ lines[l] = None /\ l \in DOMAIN document => lines'[l].order = o
  BY <1>1, SavedLinesShape
<1>6. \A q \in Orders : orders[q] # None => orders'[q] # None
  BY <1>3, <1>4, NoneAssumption DEF Records, TypeOK
<1>7. orders'[o] # None
  BY <1>2, <1>3, <1>4, NoneAssumption DEF Records, TypeOK
<1>8. stagings' = [stagings EXCEPT ![s].status = "confirmed"]
  BY DEF ConfirmOrder
<1> HIDE DEF o, document
<1> USE DEF Records
<1>9. TypeOK'
  <2>1. orders' \in [Orders -> Order \union {None}]
    BY <1>2, <1>3, <1>4 DEF TypeOK
  <2>2. lines' \in [LineIds -> Line \union {None}]
    BY <1>1, <1>5 DEF SavedLines
  <2>3. stagings' \in [StagingIds -> Staging \union {None}]
    BY <1>2, <1>8 DEF TypeOK, Staging, Stage
  <2>4. QED
    BY <2>1, <2>2, <2>3 DEF ConfirmOrder, TypeOK, delivery, goods
<1>10. StagedDocuments'
  <2>1. \A t \in StagingIds : stagings'[t] # None =>
          /\ stagings[t] # None
          /\ stagings'[t].order = stagings[t].order /\ stagings'[t].document = stagings[t].document
    <3>1. \A t \in StagingIds \ {s} : stagings'[t] = stagings[t]
      BY <1>8 DEF TypeOK
    <3>2. stagings'[s].order = stagings[s].order /\ stagings'[s].document = stagings[s].document
      BY <1>2, <1>8 DEF TypeOK, Staging
    <3>3. QED
      BY <1>1, <3>1, <3>2 DEF PendingOrder
  <2>2. QED
    BY <2>1 DEF StagedDocuments
<1>11. ReceiptsHaveOrders'
  <2>1. \A r \in ReceiptIds : receipts[r] # None => receipts[r].order \in Orders
    BY DEF TypeOK, Receipt
  <2>2. QED
    BY <1>6, <2>1 DEF ReceiptsHaveOrders, ConfirmOrder
<1>12. LinesFromDocuments'
  <2> SUFFICES ASSUME NEW l \in LineIds, lines'[l] # None
               PROVE  /\ orders'[lines'[l].order] # None
                      /\ \E d \in OrderDocuments[lines'[l].order] : l \in DOMAIN d
    BY DEF LinesFromDocuments
  <2>1. CASE lines[l] # None
    <3>1. lines[l] \in Line /\ lines'[l].order = lines[l].order /\ lines[l].order \in Orders
      BY <1>5, <2>1 DEF TypeOK, Line
    <3>2. orders[lines[l].order] # None /\ \E d \in OrderDocuments[lines[l].order] : l \in DOMAIN d
      BY <2>1 DEF LinesFromDocuments
    <3>3. QED
      BY <1>6, <3>1, <3>2
  <2>2. CASE lines[l] = None
    BY <1>2, <1>5, <1>7, <2>2
  <2>3. QED
    BY <2>1, <2>2
<1>13. NeverOverReceived'
  <2> SUFFICES ASSUME NEW l \in LineIds, lines'[l] # None
               PROVE  lines'[l].received <= lines'[l].ordered
    BY DEF NeverOverReceived
  <2>1. CASE l \in DOMAIN document
    BY <1>5, <2>1
  <2>2. CASE l \notin DOMAIN document
    BY <1>5, <2>2 DEF NeverOverReceived
  <2>3. QED
    BY <2>1, <2>2
<1>14. GoodsHaveLines'
  <2>1. \A b \in AssetIds : b[2] \in LineIds
    BY DEF AssetIds
  <2>2. QED
    BY <1>5, <2>1 DEF GoodsHaveLines, ConfirmOrder, delivery, goods
<1>15. GoodsLieAtActiveLocations'
  BY DEF GoodsLieAtActiveLocations, ConfirmOrder, goods
<1>16. QED
  BY <1>9, <1>10, <1>11, <1>12, <1>13, <1>14, <1>15

LEMMA CancelOrderRecords ==
  ASSUME Records, NEW s \in StagingIds, NEW a \in Actors, CancelOrder(s, a)
  PROVE  Records'
<1>1. stagings[s] \in Staging /\ stagings' = [stagings EXCEPT ![s].status = "cancelled"]
  BY DEF CancelOrder, PendingOrder, Records, TypeOK
<1> USE DEF Records
<1>2. TypeOK'
  <2>1. stagings' \in [StagingIds -> Staging \union {None}]
    BY <1>1 DEF TypeOK, Staging, Stage
  <2>2. QED
    BY <2>1 DEF CancelOrder, TypeOK, delivery, goods
<1>3. StagedDocuments'
  <2>1. \A t \in StagingIds \ {s} : stagings'[t] = stagings[t]
    BY <1>1 DEF TypeOK
  <2>2. stagings'[s].order = stagings[s].order /\ stagings'[s].document = stagings[s].document
    BY <1>1 DEF TypeOK, Staging
  <2>3. QED
    BY <2>1, <2>2 DEF StagedDocuments, CancelOrder, PendingOrder
<1>4. /\ ReceiptsHaveOrders' /\ LinesFromDocuments' /\ NeverOverReceived'
      /\ GoodsHaveLines' /\ GoodsLieAtActiveLocations'
  BY DEF CancelOrder, delivery, goods, ReceiptsHaveOrders, LinesFromDocuments,
         NeverOverReceived, GoodsHaveLines, GoodsLieAtActiveLocations
<1>5. QED
  BY <1>2, <1>3, <1>4

LEMMA StageReceiptRecords ==
  ASSUME Records, NEW r \in ReceiptIds, NEW o \in Orders, NEW x \in Locations,
         NEW n \in Notes, NEW a \in Actors, StageReceipt(r, o, x, n, a)
  PROVE  Records'
<1> DEFINE row == [order |-> o, destination |-> x, actor |-> a, note |-> n,
                   status |-> "pending_confirmation"]
<1>1. row \in Receipt
  BY DEF Receipt, Stage
<1>2. receipts' = [receipts EXCEPT ![r] = row]
  BY DEF StageReceipt
<1> USE DEF Records
<1>3. TypeOK'
  BY <1>1, <1>2 DEF StageReceipt, TypeOK, delivery, goods
<1>4. ReceiptsHaveOrders'
  BY <1>2 DEF StageReceipt, ReceiptsHaveOrders, TypeOK
<1>5. /\ StagedDocuments' /\ LinesFromDocuments' /\ NeverOverReceived'
      /\ GoodsHaveLines' /\ GoodsLieAtActiveLocations'
  BY DEF StageReceipt, delivery, goods, StagedDocuments, LinesFromDocuments,
         NeverOverReceived, GoodsHaveLines, GoodsLieAtActiveLocations
<1>6. QED
  BY <1>3, <1>4, <1>5

LEMMA CancelReceiptRecords ==
  ASSUME Records, NEW r \in ReceiptIds, NEW a \in Actors, CancelReceipt(r, a)
  PROVE  Records'
<1>1. receipts[r] \in Receipt /\ receipts' = [receipts EXCEPT ![r].status = "cancelled"]
  BY DEF CancelReceipt, PendingReceipt, Records, TypeOK
<1> USE DEF Records
<1>2. TypeOK'
  <2>1. receipts' \in [ReceiptIds -> Receipt \union {None}]
    BY <1>1 DEF TypeOK, Receipt, Stage
  <2>2. QED
    BY <2>1 DEF CancelReceipt, TypeOK, delivery, goods
<1>3. ReceiptsHaveOrders'
  <2>1. \A q \in ReceiptIds \ {r} : receipts'[q] = receipts[q]
    BY <1>1 DEF TypeOK
  <2>2. receipts'[r].order = receipts[r].order
    BY <1>1 DEF TypeOK, Receipt
  <2>3. QED
    BY <2>1, <2>2 DEF ReceiptsHaveOrders, CancelReceipt, PendingReceipt
<1>4. /\ StagedDocuments' /\ LinesFromDocuments' /\ NeverOverReceived'
      /\ GoodsHaveLines' /\ GoodsLieAtActiveLocations'
  BY DEF CancelReceipt, delivery, goods, StagedDocuments, LinesFromDocuments,
         NeverOverReceived, GoodsHaveLines, GoodsLieAtActiveLocations
<1>5. QED
  BY <1>2, <1>3, <1>4

\* What the first transaction of a confirmation leaves of the assets.
LEMMA ReceivedAssets ==
  ASSUME Records, NEW r \in ReceiptIds, receipts[r] # None, Receive(r), NEW b \in AssetIds
  PROVE  /\ assets[b] # None => assets'[b] # None
         /\ b \notin NewAssets(r) => assets'[b] = assets[b]
         /\ b \in NewAssets(r) =>
              /\ b[1] = r /\ b[2] \in LineIds /\ b[3] \in 1 .. AcceptedFor(r, b[2])
              /\ lines[b[2]] # None /\ lines[b[2]].sku \in Serialized
              /\ assets'[b] # None /\ assets'[b].location = receipts[r].destination
<1>1. b[2] \in LineIds /\ b[3] \in 1 .. MaxUnits
  BY DEF AssetIds
<1>2. b \notin NewAssets(r) => assets'[b] = assets[b]
  BY DEF Receive
<1>3. ASSUME b \in NewAssets(r)
      PROVE  /\ b[1] = r /\ b[3] \in 1 .. AcceptedFor(r, b[2])
             /\ lines[b[2]] # None /\ lines[b[2]].sku \in Serialized
             /\ assets'[b] # None /\ assets'[b].location = receipts[r].destination
  <2>1. Deliverable(r) /\ receipts[r] \in Receipt /\ assets'[b] \in Asset \union {None}
    BY ReceiveShape, ReceiveTypes DEF Records
  <2>2. b[1] = r /\ b[3] <= Len(SerialsPosted(r, b[2]))
    BY <1>3 DEF NewAssets
  <2>3. /\ Len(SerialsPosted(r, b[2])) \in Nat /\ AcceptedFor(r, b[2]) \in Nat
        /\ Len(SerialsPosted(r, b[2])) <= AcceptedFor(r, b[2])
        /\ Len(SerialsPosted(r, b[2])) > 0 =>
             lines[b[2]] # None /\ lines[b[2]].sku \in Serialized
    BY <1>1, <2>1, AcceptedForShape DEF Records
  <2>4. b[3] \in 1 .. AcceptedFor(r, b[2]) /\ lines[b[2]] # None /\ lines[b[2]].sku \in Serialized
    BY <1>1, <2>2, <2>3, BoundsAssumption
  <2>5. \/ /\ assets[b] # None
           /\ assets'[b] = [assets[b] EXCEPT !.status = "received",
                                             !.location = receipts[r].destination]
        \/ /\ assets[b] = None
           /\ assets'[b] = [sku |-> lines[b[2]].sku, serial |-> SerialOf(b),
                            order |-> receipts[r].order,
                            location |-> receipts[r].destination, status |-> "received"]
    BY <1>3 DEF Receive
  <2>6. assets'[b] # None /\ assets'[b].location = receipts[r].destination
    <3>1. CASE assets[b] # None
      <4>1. assets[b] \in Asset
        BY <3>1 DEF Records, TypeOK
      <4>2. /\ assets'[b] \in Asset
            /\ assets'[b].location = receipts[r].destination
        BY <2>1, <2>5, <3>1, <4>1 DEF Asset, Receipt
      <4>3. QED
        BY <4>2, NoneAssumption
    <3>2. CASE assets[b] = None
      <4>1. assets'[b] = [sku |-> lines[b[2]].sku, serial |-> SerialOf(b),
                          order |-> receipts[r].order,
                          location |-> receipts[r].destination, status |-> "received"]
        BY <2>5, <3>2
      <4>2. assets'[b] \in Asset
        <5>1. SerialOf(b) \in Serials
          <6>1. SerialsPosted(r, b[2]) \in Seq(Serials)
            BY <1>1, <2>1, AcceptedForShape DEF Records
          <6>2. QED
            BY <1>1, <2>2, <2>3, <6>1, BoundsAssumption DEF SerialOf
        <5>2. lines[b[2]].sku \in Skus
          BY <1>1, <2>4 DEF Records, TypeOK, Line
        <5>3. QED
          BY <2>1, <4>1, <5>1, <5>2 DEF Receipt, Asset
      <4>3. QED
        BY <4>1, <4>2, NoneAssumption
    <3>3. QED
      BY <3>1, <3>2
  <2>7. QED
    BY <2>2, <2>4, <2>6
<1>4. assets[b] # None => assets'[b] # None
  BY <1>2, <1>3
<1>5. QED
  BY <1>1, <1>2, <1>3, <1>4

\* The first transaction keeps what holds of the tables.
LEMMA ReceiveRecords ==
  ASSUME Records, NEW r \in ReceiptIds, receipts[r] # None, Receive(r),
         receipts[r].destination \in active, UNCHANGED <<stagings, active>>,
         receipts' \in [ReceiptIds -> Receipt \union {None}], stopped' \subseteq ReceiptIds,
         \A q \in ReceiptIds : receipts'[q] # None =>
           receipts[q] # None /\ receipts'[q].order = receipts[q].order
  PROVE  Records'
<1>1. TypeOK'
  <2>1. /\ orders' \in [Orders -> Order \union {None}]
        /\ lines' \in [LineIds -> Line \union {None}]
        /\ deliveries' \in [ReceiptIds -> {"accepted", "exception", None}]
        /\ rows' \in [RowIds -> ReceiptIds \union {None}]
        /\ posted' \in [ReceiptIds \X LineIds -> Nat]
        /\ stock' \in [Positions -> Nat]
        /\ assets' \in [AssetIds -> Asset \union {None}]
        /\ IsABag(exceptions')
    BY ReceiveTypes DEF Records
  <2>2. QED
    BY <2>1 DEF TypeOK, Records
<1>2. /\ Deliverable(r)
      /\ \A l \in LineIds :
           /\ lines'[l] = None <=> lines[l] = None
           /\ lines[l] # None =>
                /\ lines'[l].order = lines[l].order /\ lines'[l].sku = lines[l].sku
                /\ lines'[l].ordered = lines[l].ordered
                /\ lines'[l].received <= lines[l].ordered
      /\ \A o \in Orders : orders'[o] = None <=> orders[o] = None
  BY ReceiveShape
<1>3. deliveries'[r] # None /\ \A q \in ReceiptIds : deliveries[q] # None => deliveries'[q] # None
  BY NoneAssumption DEF Receive, Records, TypeOK
<1>4. ReceiptsHaveOrders'
  <2>1. \A q \in ReceiptIds : receipts[q] # None => receipts[q].order \in Orders
    BY DEF Records, TypeOK, Receipt
  <2>2. QED
    BY <1>2, <2>1 DEF Records, ReceiptsHaveOrders
<1>5. StagedDocuments'
  BY DEF Records, StagedDocuments
<1>6. LinesFromDocuments'
  <2>1. \A l \in LineIds : lines[l] # None => lines[l].order \in Orders
    BY DEF Records, TypeOK, Line
  <2>2. QED
    BY <1>2, <2>1 DEF Records, LinesFromDocuments
<1>7. NeverOverReceived'
  BY <1>2 DEF NeverOverReceived
<1>8. GoodsHaveLines'
  <2>1. ASSUME NEW q \in ReceiptIds, NEW l \in LineIds, posted'[<<q, l>>] # 0
        PROVE  deliveries'[q] # None /\ lines'[l] # None /\ lines'[l].sku \notin Serialized
    <3>1. posted'[<<q, l>>] =
            IF q = r THEN posted[<<q, l>>] + QuantityPosted(r, l) ELSE posted[<<q, l>>]
      BY DEF Receive
    <3>2. CASE posted[<<q, l>>] # 0
      BY <1>2, <1>3, <3>2 DEF Records, GoodsHaveLines
    <3>3. CASE posted[<<q, l>>] = 0
      <4>1. q = r /\ QuantityPosted(r, l) # 0
        BY <2>1, <3>1, <3>3
      <4>2. lines[l] # None /\ lines[l].sku \notin Serialized
        BY <4>1 DEF QuantityPosted
      <4>3. QED
        BY <1>2, <1>3, <4>1, <4>2
    <3>4. QED
      BY <3>2, <3>3
  <2>2. ASSUME NEW b \in AssetIds, assets'[b] # None
        PROVE  deliveries'[b[1]] # None /\ lines'[b[2]] # None /\ lines'[b[2]].sku \in Serialized
    <3>1. b[1] \in ReceiptIds /\ b[2] \in LineIds
      BY DEF AssetIds
    <3>2. CASE b \in NewAssets(r)
      <4>1. b[1] = r /\ lines[b[2]] # None /\ lines[b[2]].sku \in Serialized
        BY <3>2, ReceivedAssets
      <4>2. QED
        BY <1>2, <1>3, <3>1, <4>1
    <3>3. CASE b \notin NewAssets(r)
      <4>1. assets[b] # None
        BY <2>2, <3>3, ReceivedAssets
      <4>2. deliveries[b[1]] # None /\ lines[b[2]] # None /\ lines[b[2]].sku \in Serialized
        BY <4>1 DEF Records, GoodsHaveLines
      <4>3. QED
        BY <1>2, <1>3, <3>1, <4>2
    <3>4. QED
      BY <3>2, <3>3
  <2>3. QED
    BY <2>1, <2>2 DEF GoodsHaveLines
<1>9. GoodsLieAtActiveLocations'
  <2>1. ASSUME NEW p \in Positions, stock'[p] > 0
        PROVE  p[2] \in active
    BY <2>1 DEF Receive, Records, GoodsLieAtActiveLocations
  <2>2. ASSUME NEW b \in AssetIds, assets'[b] # None
        PROVE  assets'[b].location \in active
    <3>1. CASE b \in NewAssets(r)
      BY <3>1, ReceivedAssets
    <3>2. CASE b \notin NewAssets(r)
      <4>1. assets'[b] = assets[b]
        BY <3>2, ReceivedAssets
      <4>2. QED
        BY <2>2, <4>1 DEF Records, GoodsLieAtActiveLocations
    <3>3. QED
      BY <3>1, <3>2
  <2>3. QED
    BY <2>1, <2>2 DEF GoodsLieAtActiveLocations
<1>10. QED
  BY <1>1, <1>4, <1>5, <1>6, <1>7, <1>8, <1>9 DEF Records

LEMMA ConfirmReceiptRecords ==
  ASSUME Records, NEW r \in ReceiptIds, NEW a \in Actors,
         ConfirmReceipt(r, a) \/ ConfirmReceiptStopped(r, a)
  PROVE  Records'
<1>1. /\ receipts[r] # None /\ receipts[r].destination \in active /\ Receive(r)
      /\ UNCHANGED <<stagings, active>>
  BY DEF ConfirmReceipt, ConfirmReceiptStopped, PendingReceipt
<1>2. receipts[r] \in Receipt
  BY <1>1 DEF Records, TypeOK
<1>3. /\ receipts' \in [ReceiptIds -> Receipt \union {None}]
      /\ \A q \in ReceiptIds : receipts'[q] # None =>
           receipts[q] # None /\ receipts'[q].order = receipts[q].order
  <2>1. CASE ConfirmReceiptStopped(r, a)
    BY <2>1 DEF ConfirmReceiptStopped, Records, TypeOK
  <2>2. CASE ConfirmReceipt(r, a)
    <3>1. receipts' = [receipts EXCEPT ![r].status = "confirmed"]
      BY <2>2 DEF ConfirmReceipt
    <3>2. \A q \in ReceiptIds \ {r} : receipts'[q] = receipts[q]
      BY <3>1 DEF Records, TypeOK
    <3>3. receipts'[r] \in Receipt /\ receipts'[r].order = receipts[r].order
      BY <1>2, <3>1 DEF Records, TypeOK, Receipt, Stage
    <3>4. receipts' \in [ReceiptIds -> Receipt \union {None}]
      BY <3>1, <3>3 DEF Records, TypeOK
    <3>5. QED
      BY <1>1, <3>2, <3>3, <3>4
  <2>3. QED
    BY <2>1, <2>2
<1>4. stopped' \subseteq ReceiptIds
  BY DEF ConfirmReceipt, ConfirmReceiptStopped, Records, TypeOK
<1>5. QED
  BY <1>1, <1>3, <1>4, ReceiveRecords

LEMMA PutAwayRecords ==
  ASSUME Records, NEW b \in AssetIds, NEW x \in Locations, PutAway(b, x)
  PROVE  Records'
<1>1. assets[b] \in Asset /\ assets[b] # None /\ x \in active
  BY DEF PutAway, Records, TypeOK
<1>2. assets' = [assets EXCEPT ![b].status = "in_stock", ![b].location = x]
  BY DEF PutAway
<1> DEFINE put == [assets[b] EXCEPT !.status = "in_stock", !.location = x]
<1>3. put \in Asset /\ put.location = x
  BY <1>1 DEF Asset
<1>4. \A c \in AssetIds : assets'[c] = IF c = b THEN put ELSE assets[c]
  BY <1>1, <1>2 DEF Records, TypeOK, Asset
<1> HIDE DEF put
<1> USE DEF Records
<1>5. TypeOK'
  <2>1. assets' \in [AssetIds -> Asset \union {None}]
    BY <1>2, <1>3, <1>4 DEF TypeOK
  <2>2. QED
    BY <2>1 DEF PutAway, TypeOK, delivery
<1>6. GoodsHaveLines'
  BY <1>1, <1>4 DEF GoodsHaveLines, PutAway, delivery
<1>7. GoodsLieAtActiveLocations'
  <2>1. UNCHANGED <<stock, active>>
    BY DEF PutAway
  <2>2. \A c \in AssetIds : assets'[c] # None => assets'[c].location \in active
    BY <1>1, <1>3, <1>4 DEF GoodsLieAtActiveLocations
  <2>3. QED
    BY <2>1, <2>2 DEF GoodsLieAtActiveLocations
<1>8. ReceiptsHaveOrders' /\ StagedDocuments' /\ LinesFromDocuments' /\ NeverOverReceived'
  BY DEF PutAway, delivery, ReceiptsHaveOrders, StagedDocuments, LinesFromDocuments,
         NeverOverReceived
<1>9. QED
  BY <1>5, <1>6, <1>7, <1>8

LEMMA IssueStockRecords ==
  ASSUME Records, NEW p \in Positions, NEW q \in 1 .. MaxUnits, IssueStock(p, q)
  PROVE  Records'
<1>1. /\ stock[p] \in Nat /\ q \in Nat /\ stock[p] - q \in Nat /\ p[2] \in active
      /\ stock' = [stock EXCEPT ![p] = @ - q]
  BY BoundsAssumption DEF IssueStock, Records, TypeOK
<1> USE DEF Records
<1>2. TypeOK'
  BY <1>1 DEF IssueStock, TypeOK, delivery
<1>3. GoodsLieAtActiveLocations'
  BY <1>1 DEF GoodsLieAtActiveLocations, IssueStock, TypeOK
<1>4. /\ ReceiptsHaveOrders' /\ StagedDocuments' /\ LinesFromDocuments'
      /\ NeverOverReceived' /\ GoodsHaveLines'
  BY DEF IssueStock, delivery, ReceiptsHaveOrders, StagedDocuments, LinesFromDocuments,
         NeverOverReceived, GoodsHaveLines
<1>5. QED
  BY <1>2, <1>3, <1>4

\* The master data changes and nothing else; no location with goods is
\* deactivated.
LEMMA MasterDataRecords ==
  ASSUME Records, UNCHANGED <<orders, lines, stagings, receipts, delivery, goods>>,
         active' \subseteq Suppliers \union Skus \union Locations,
         GoodsLieAtActiveLocations'
  PROVE  Records'
BY DEF Records, TypeOK, delivery, goods, ReceiptsHaveOrders, StagedDocuments,
       LinesFromDocuments, NeverOverReceived, GoodsHaveLines

LEMMA ActiveRecords ==
  ASSUME Records,
         \/ \E x \in Switched : Activate(x)
         \/ \E x \in Switched \intersect Suppliers : DeactivateSupplier(x)
         \/ \E x \in Switched \intersect Skus : DeactivateItem(x)
         \/ \E x \in Switched \intersect Locations : DeactivateLocation(x)
  PROVE  Records'
<1>1. /\ UNCHANGED <<orders, lines, stagings, receipts, delivery, goods>>
      /\ active' \subseteq Suppliers \union Skus \union Locations
  BY TablesAssumption DEF Records, TypeOK, Activate, DeactivateSupplier, DeactivateItem, DeactivateLocation, Deactivate
<1>2. \A p \in Positions : p[2] \in Locations
  BY DEF Positions
<1>3. \A b \in AssetIds : assets[b] # None => assets[b].location \in Locations
  BY DEF Records, TypeOK, Asset
<1>4. GoodsLieAtActiveLocations'
  <2>1. ASSUME NEW x \in Switched, Activate(x)
        PROVE  GoodsLieAtActiveLocations'
    BY <2>1 DEF Activate, goods, Records, GoodsLieAtActiveLocations
  <2>2. ASSUME NEW x \in Suppliers \union Skus, Deactivate(x)
        PROVE  GoodsLieAtActiveLocations'
    <3>1. x \notin Locations
      BY TablesAssumption
    <3>2. QED
      BY <1>2, <1>3, <2>2, <3>1 DEF Deactivate, goods, Records, GoodsLieAtActiveLocations
  <2>3. ASSUME NEW x \in Locations, DeactivateLocation(x)
        PROVE  GoodsLieAtActiveLocations'
    <3>1. /\ \A p \in Positions : p[2] = x => stock[p] = 0
          /\ \A b \in AssetIds : assets[b] # None => assets[b].location # x
          /\ active' = active \ {x} /\ UNCHANGED goods
      BY <2>3 DEF DeactivateLocation, Deactivate
    <3>2. QED
      BY <3>1 DEF goods, Records, GoodsLieAtActiveLocations
  <2>4. QED
    BY <2>1, <2>2, <2>3 DEF DeactivateSupplier, DeactivateItem
<1>5. QED
  BY <1>1, <1>4, MasterDataRecords

LEMMA RecordsNext ==
  ASSUME Records, [Next]_vars
  PROVE  Records'
<1>1. ASSUME NEW s \in StagingIds, NEW a \in Actors,
             \/ ConfirmOrder(s, a)
             \/ CancelOrder(s, a)
             \/ \E o \in Orders, x \in Suppliers : \E d \in OrderDocuments[o] :
                  StageOrder(s, o, x, d, a)
      PROVE  Records'
  BY <1>1, ConfirmOrderRecords, CancelOrderRecords, StageOrderRecords
<1>2. ASSUME NEW r \in ReceiptIds, NEW a \in Actors,
             \/ ConfirmReceipt(r, a)
             \/ ConfirmReceiptStopped(r, a)
             \/ CancelReceipt(r, a)
             \/ \E o \in Orders, x \in Locations, n \in Notes : StageReceipt(r, o, x, n, a)
      PROVE  Records'
  BY <1>2, ConfirmReceiptRecords, CancelReceiptRecords, StageReceiptRecords
<1>3. CASE UNCHANGED vars
  BY <1>3 DEF vars, delivery, goods, Records, TypeOK, ReceiptsHaveOrders, StagedDocuments,
     LinesFromDocuments, NeverOverReceived, GoodsHaveLines, GoodsLieAtActiveLocations
<1>4. QED
  BY <1>1, <1>2, <1>3, PutAwayRecords, IssueStockRecords, ActiveRecords DEF Next

\* The tables of orders, lines, stagings, receipts and goods agree about which
\* of them exists, whatever documents are staged and wherever a process stops.
THEOREM RecordsHold == Spec => []Records
<1>1. Init => Records
  BY RecordsInit
<1>2. Records /\ [Next]_vars => Records'
  BY RecordsNext
<1>3. QED
  BY <1>1, <1>2, PTL DEF Spec

\* Every table keeps its type, and the stock and the totals stay natural numbers.
THEOREM TypeCorrect == Spec => []TypeOK
<1>1. Records => TypeOK
  BY DEF Records
<1>2. QED
  BY <1>1, RecordsHold, PTL

\* No order line is received beyond what was ordered, however many notes are
\* staged against it, whatever their rows claim and wherever the process stops.
THEOREM NothingOverReceived == Spec => []NeverOverReceived
<1>1. Records => NeverOverReceived
  BY DEF Records
<1>2. QED
  BY <1>1, RecordsHold, PTL

\* Goods lie at active locations only: receiving checks the destination again
\* when it is confirmed, and a location with goods is not deactivated.
THEOREM GoodsAtActiveLocations == Spec => []GoodsLieAtActiveLocations
<1>1. Records => GoodsLieAtActiveLocations
  BY DEF Records
<1>2. QED
  BY <1>1, RecordsHold, PTL

-----------------------------------------------------------------------------
(* With line ids of their own the orders, their lines and the master data  *)
(* stay in step.                                                           *)

\* A confirmed order adds its lines and touches no other.
LEMMA ConfirmOrderInserts ==
  ASSUME Records, LineIdsApart, NEW s \in StagingIds, NEW a \in Actors, ConfirmOrder(s, a)
  PROVE  LET o == stagings[s].order
             document == stagings[s].document
         IN  /\ o \in Orders /\ LinesOf(o) = {}
             /\ \A q \in Orders \ {o} : orders'[q] = orders[q]
             /\ orders[o] = None /\ orders'[o] \in Order /\ orders'[o].status = "open"
             /\ orders'[o].supplier = stagings[s].supplier
             /\ \A l \in LineIds \ DOMAIN document : lines'[l] = lines[l]
             /\ \A l \in DOMAIN document :
                  /\ l \in LineIds /\ lines[l] = None
                  /\ lines'[l] \in Line /\ lines'[l] # None
                  /\ lines'[l].order = o /\ lines'[l].sku = document[l].sku
                  /\ lines'[l].received = 0
<1> DEFINE o == stagings[s].order
           document == stagings[s].document
<1>1. PendingOrder(s, a) /\ lines' = SavedLines(o, document) /\ orders[o] = None
  BY DEF ConfirmOrder
<1>2. stagings[s] \in Staging /\ o \in Orders /\ document \in OrderDocuments[o]
      /\ DOMAIN document \subseteq LineIds
  BY <1>1, PendingOrderShape
<1>3. orders' = [orders EXCEPT ![o] = [supplier |-> stagings[s].supplier, status |-> "open"]]
  BY DEF ConfirmOrder
<1>4. \A l \in LineIds :
        /\ lines'[l] \in Line \union {None}
        /\ l \notin DOMAIN document => lines'[l] = lines[l]
        /\ l \in DOMAIN document => lines'[l] # None /\ lines'[l].received = 0
        /\ lines[l] = None /\ l \in DOMAIN document =>
             lines'[l].order = o /\ lines'[l].sku = document[l].sku
  BY <1>1, SavedLinesShape
<1>5. [supplier |-> stagings[s].supplier, status |-> "open"] \in Order
  BY <1>2 DEF Staging, Order, Statuses
<1> HIDE DEF o, document
<1>6. orders'[o] = [supplier |-> stagings[s].supplier, status |-> "open"]
      /\ \A q \in Orders \ {o} : orders'[q] = orders[q]
  BY <1>2, <1>3 DEF Records, TypeOK
<1>7. \A l \in LineIds : lines[l] # None =>
        /\ lines[l].order \in Orders /\ orders[lines[l].order] # None
        /\ \E d \in OrderDocuments[lines[l].order] : l \in DOMAIN d
  BY DEF Records, LinesFromDocuments, TypeOK, Line
<1>8. LinesOf(o) = {}
  BY <1>1, <1>7 DEF LinesOf
<1>9. ASSUME NEW l \in DOMAIN document
      PROVE  l \in LineIds /\ lines[l] = None
  <2>1. l \in LineIds
    BY <1>2
  <2>2. SUFFICES ASSUME lines[l] # None
                 PROVE  FALSE
    BY <2>1
  <2>3. PICK d \in OrderDocuments[lines[l].order] : l \in DOMAIN d
    BY <1>7, <2>1, <2>2
  <2>4. lines[l].order \in Orders /\ lines[l].order # o
    BY <1>1, <1>7, <2>1, <2>2
  <2>5. DOMAIN d \intersect DOMAIN document = {}
    BY <1>2, <2>4 DEF LineIdsApart
  <2>6. QED
    BY <2>3, <2>5
<1>10. QED
  BY <1>1, <1>2, <1>4, <1>5, <1>6, <1>8, <1>9 DEF o, document

\* An order's table is read off its lines alone.
LEMMA SameOrderTable ==
  ASSUME NEW q,
         \A l \in LineIds : (lines[l] # None /\ lines[l].order = q) =>
           lines'[l] = lines[l],
         \A l \in LineIds : (lines'[l] # None /\ lines'[l].order = q) =>
           lines'[l] = lines[l]
  PROVE  OrderTable(q)' = OrderTable(q)
<1>1. LinesOf(q)' = LinesOf(q)
  BY DEF LinesOf
<1>2. \A l \in LinesOf(q) : lines'[l] = lines[l]
  BY DEF LinesOf
<1>3. QED
  BY <1>1, <1>2 DEF OrderTable

\* The table of the delivered order after the first transaction is the one its
\* status was computed from, and no other order's table changes.
LEMMA ReceivedTables ==
  ASSUME Records, NEW r \in ReceiptIds, receipts[r] # None, Receive(r), NEW q
  PROVE  /\ LinesOf(q)' = LinesOf(q)
         /\ q # receipts[r].order => OrderTable(q)' = OrderTable(q)
         /\ q = receipts[r].order =>
              OrderTable(q)' = [l \in LinesOf(receipts[r].order) |-> ReceivedLines(r)[l]]
<1>1. \A l \in LineIds :
        /\ lines'[l] = None <=> lines[l] = None
        /\ lines[l] # None => lines'[l].order = lines[l].order
  BY ReceiveShape
<1>2. LinesOf(q)' = LinesOf(q)
  BY <1>1 DEF LinesOf
<1>3. lines' = ReceivedLines(r)
  BY DEF Receive
<1>4. ASSUME q # receipts[r].order
      PROVE  OrderTable(q)' = OrderTable(q)
  <2>1. \A l \in LinesOf(q) : lines'[l] = lines[l]
    BY <1>3, <1>4 DEF ReceivedLines, LinesOf
  <2>2. QED
    BY <1>2, <2>1 DEF OrderTable
<1>5. ASSUME q = receipts[r].order
      PROVE  OrderTable(q)' = [l \in LinesOf(receipts[r].order) |-> ReceivedLines(r)[l]]
  BY <1>2, <1>3, <1>5 DEF OrderTable
<1>6. QED
  BY <1>2, <1>4, <1>5

\* The status of an order none of whose lines has been received.
LEMMA StatusOfNew ==
  ASSUME NEW order, \A l \in DOMAIN order : order[l].received = 0
  PROVE  StatusOf(order) = "open"
<1> DEFINE w == [l \in DOMAIN order |-> order[l].received]
<1>1. \A l \in DOMAIN order : w[l] = 0
  OBVIOUS
<1> HIDE DEF w
<1>2. Total(DOMAIN order, w) = 0
  BY <1>1, TotalOfZeros
<1>3. QED
  BY <1>2 DEF StatusOf, w

\* An order that is received, and no line of it too often, awaits nothing.
LEMMA ReceivedAwaitsNothing ==
  ASSUME NEW order, IsFiniteSet(DOMAIN order), OrderOK(order), StatusOf(order) = "received",
         \A l \in DOMAIN order : order[l].received <= order[l].ordered
  PROVE  \A l \in DOMAIN order : order[l].received = order[l].ordered
<1> DEFINE S == DOMAIN order
           w == [l \in S |-> order[l].received]
           v == [l \in S |-> order[l].ordered]
<1>1. \A l \in S : w[l] \in Nat /\ v[l] \in Nat /\ w[l] <= v[l]
  BY DEF OrderOK
<1>2. Total(S, w) = 0 \/ ~ (Total(S, w) < Total(S, v))
  BY DEF StatusOf
<1>3. Total(S, w) # 0
  BY DEF StatusOf
<1>4. /\ \A l \in S : w[l] = order[l].received
      /\ \A l \in S : v[l] = order[l].ordered
  OBVIOUS
<1>5. IsFiniteSet(S)
  OBVIOUS
<1> HIDE DEF S, w, v
<1>6. \A l \in S : w[l] \in Nat
  BY <1>1
<1>7. \A l \in S : v[l] \in Nat
  BY <1>1
<1>8. Total(S, w) \in Nat /\ Total(S, v) \in Nat
  BY <1>5, <1>6, <1>7, TotalIsNat
<1>9. /\ Total(S, w) <= Total(S, v)
      /\ Total(S, w) = Total(S, v) => \A l \in S : w[l] = v[l]
  BY <1>1, <1>5, TotalSqueeze
<1>10. \A l \in S : w[l] = v[l]
  BY <1>2, <1>3, <1>8, <1>9
<1>11. QED
  BY <1>4, <1>10 DEF S

\* Orders and what they await: what Records says, the statuses and the master
\* data of lines that await goods.
OrdersInStep == Records /\ OrderStatusDerived /\ AwaitedGoodsAreActive

LEMMA ConfirmOrderInStep ==
  ASSUME OrdersInStep, LineIdsApart, NEW s \in StagingIds, NEW a \in Actors, ConfirmOrder(s, a)
  PROVE  OrderStatusDerived' /\ AwaitedGoodsAreActive'
<1> DEFINE o == stagings[s].order
           document == stagings[s].document
<1>1. /\ o \in Orders /\ LinesOf(o) = {}
      /\ \A q \in Orders \ {o} : orders'[q] = orders[q]
      /\ orders'[o].status = "open"
      /\ orders'[o].supplier = stagings[s].supplier
      /\ \A l \in LineIds \ DOMAIN document : lines'[l] = lines[l]
      /\ \A l \in DOMAIN document :
           /\ l \in LineIds /\ lines[l] = None
           /\ lines'[l] # None /\ lines'[l].order = o /\ lines'[l].sku = document[l].sku
           /\ lines'[l].received = 0
  BY ConfirmOrderInserts DEF OrdersInStep
<1>2. /\ stagings[s].supplier \in active /\ ItemsActive(document) /\ active' = active
  BY DEF ConfirmOrder
<1> HIDE DEF o, document
<1>3. OrderStatusDerived'
  <2> SUFFICES ASSUME NEW q \in Orders, orders'[q] # None
               PROVE  orders'[q].status = StatusOf(OrderTable(q)')
    BY DEF OrderStatusDerived
  <2>1. CASE q = o
    <3>1. \A l \in LinesOf(q)' : lines'[l].received = 0
      BY <1>1, <2>1 DEF LinesOf
    <3>2. DOMAIN OrderTable(q)' = LinesOf(q)' /\ \A l \in LinesOf(q)' : OrderTable(q)'[l] = lines'[l]
      BY DEF OrderTable
    <3>3. StatusOf(OrderTable(q)') = "open"
      BY <3>1, <3>2, StatusOfNew
    <3>4. QED
      BY <1>1, <2>1, <3>3
  <2>2. CASE q # o
    <3>1. OrderTable(q)' = OrderTable(q)
      <4>1. \A l \in LineIds : (lines[l] # None /\ lines[l].order = q) => lines'[l] = lines[l]
        BY <1>1
      <4>2. \A l \in LineIds : (lines'[l] # None /\ lines'[l].order = q) => lines'[l] = lines[l]
        BY <1>1, <2>2
      <4>3. QED
        BY <4>1, <4>2, SameOrderTable
    <3>2. QED
      BY <1>1, <2>2, <3>1 DEF OrdersInStep, OrderStatusDerived
  <2>3. QED
    BY <2>1, <2>2
<1>4. AwaitedGoodsAreActive'
  <2> SUFFICES ASSUME NEW l \in LineIds, lines'[l] # None, lines'[l].received < lines'[l].ordered
               PROVE  lines'[l].sku \in active /\ orders'[lines'[l].order].supplier \in active
    BY <1>2 DEF AwaitedGoodsAreActive
  <2>1. CASE l \in DOMAIN document
    BY <1>1, <1>2, <2>1 DEF ItemsActive
  <2>2. CASE l \notin DOMAIN document
    <3>1. lines'[l] = lines[l]
      BY <1>1, <2>2
    <3>2. lines[l].order \in Orders /\ lines[l].order # o
      BY <1>1, <3>1 DEF OrdersInStep, Records, TypeOK, Line, LinesOf
    <3>3. QED
      BY <1>1, <3>1, <3>2 DEF OrdersInStep, AwaitedGoodsAreActive
  <2>3. QED
    BY <2>1, <2>2
<1>5. QED
  BY <1>3, <1>4

LEMMA ReceiveInStep ==
  ASSUME OrdersInStep, NEW r \in ReceiptIds, receipts[r] # None, Receive(r), active' = active
  PROVE  OrderStatusDerived' /\ AwaitedGoodsAreActive'
<1>1. /\ Deliverable(r)
      /\ \A l \in LineIds :
           /\ lines'[l] = None <=> lines[l] = None
           /\ lines[l] # None =>
                /\ lines'[l].order = lines[l].order /\ lines'[l].sku = lines[l].sku
                /\ lines'[l].ordered = lines[l].ordered
                /\ lines'[l].received = lines[l].received + AcceptedFor(r, l)
      /\ \A q \in Orders :
           /\ orders'[q] = None <=> orders[q] = None
           /\ orders[q] # None => orders'[q].supplier = orders[q].supplier
           /\ q # receipts[r].order => orders'[q] = orders[q]
           /\ q = receipts[r].order => orders'[q].status = StatusAfter(r)
  BY ReceiveShape DEF OrdersInStep
<1>2. OrderStatusDerived'
  <2> SUFFICES ASSUME NEW q \in Orders, orders'[q] # None
               PROVE  orders'[q].status = StatusOf(OrderTable(q)')
    BY DEF OrderStatusDerived
  <2>1. CASE q = receipts[r].order
    <3>1. OrderTable(q)' = [l \in LinesOf(receipts[r].order) |-> ReceivedLines(r)[l]]
      BY <2>1, ReceivedTables DEF OrdersInStep
    <3>2. QED
      BY <1>1, <2>1, <3>1 DEF StatusAfter
  <2>2. CASE q # receipts[r].order
    <3>1. OrderTable(q)' = OrderTable(q)
      BY <2>2, ReceivedTables DEF OrdersInStep
    <3>2. QED
      BY <1>1, <2>2, <3>1 DEF OrdersInStep, OrderStatusDerived
  <2>3. QED
    BY <2>1, <2>2
<1>3. AwaitedGoodsAreActive'
  <2> SUFFICES ASSUME NEW l \in LineIds, lines'[l] # None, lines'[l].received < lines'[l].ordered
               PROVE  lines'[l].sku \in active /\ orders'[lines'[l].order].supplier \in active
    BY DEF AwaitedGoodsAreActive
  <2>1. lines[l] # None /\ lines[l] \in Line /\ AcceptedFor(r, l) \in Nat
    BY <1>1, AcceptedForShape DEF OrdersInStep, Records, TypeOK
  <2>2. lines[l].received < lines[l].ordered
    BY <1>1, <2>1 DEF Line
  <2>3. lines[l].sku \in active /\ orders[lines[l].order].supplier \in active
    BY <2>1, <2>2 DEF OrdersInStep, AwaitedGoodsAreActive
  <2>4. lines[l].order \in Orders /\ orders[lines[l].order] # None
    BY <2>1 DEF Line, OrdersInStep, Records, LinesFromDocuments
  <2>5. QED
    BY <1>1, <2>1, <2>3, <2>4
<1>4. QED
  BY <1>2, <1>3

\* No supplier or item is deactivated while a line awaits it.
LEMMA DeactivateInStep ==
  ASSUME OrdersInStep, NEW l \in LineIds, lines[l] # None, lines[l].received < lines[l].ordered
  PROVE  /\ \A x : DeactivateSupplier(x) => orders[lines[l].order].supplier # x
         /\ \A x : DeactivateItem(x) => lines[l].sku # x
         /\ lines[l].sku \in active /\ orders[lines[l].order].supplier \in active
         /\ lines[l].sku \in Skus /\ orders[lines[l].order].supplier \in Suppliers
<1> DEFINE q == lines[l].order
<1>1. lines[l] \in Line /\ q \in Orders /\ orders[q] # None /\ orders[q] \in Order
  BY DEF Line, OrdersInStep, Records, TypeOK, LinesFromDocuments
<1>2. orders[q].status # "received"
  <2>1. SUFFICES ASSUME orders[q].status = "received"
                 PROVE  FALSE
    OBVIOUS
  <2>2. StatusOf(OrderTable(q)) = "received"
    BY <1>1, <2>1 DEF OrdersInStep, OrderStatusDerived
  <2>3. /\ DOMAIN OrderTable(q) = LinesOf(q) /\ IsFiniteSet(LinesOf(q))
        /\ LinesOf(q) \subseteq LineIds
        /\ \A k \in LinesOf(q) : OrderTable(q)[k] = lines[k]
        /\ OrderOK(OrderTable(q))
    BY OrderTableOK DEF OrdersInStep, Records
  <2>4. \A k \in LinesOf(q) : lines[k].received <= lines[k].ordered
    BY <2>3 DEF LinesOf, OrdersInStep, Records, NeverOverReceived
  <2>5. \A k \in LinesOf(q) : OrderTable(q)[k].received = OrderTable(q)[k].ordered
    BY <2>2, <2>3, <2>4, ReceivedAwaitsNothing
  <2>6. l \in LinesOf(q)
    BY DEF LinesOf
  <2>7. lines[l].received = lines[l].ordered
    BY <2>3, <2>5, <2>6
  <2>8. QED
    BY <1>1, <2>7 DEF Line
<1>3. \A x : DeactivateSupplier(x) => orders[q].supplier # x
  BY <1>1, <1>2 DEF DeactivateSupplier
<1>4. ASSUME NEW x, DeactivateItem(x)
      PROVE  lines[l].sku # x
  <2>1. lines[l].sku = x => lines[l].received >= lines[l].ordered
    BY <1>4 DEF DeactivateItem
  <2>2. QED
    BY <1>1, <2>1 DEF Line
<1>5. QED
  BY <1>1, <1>3, <1>4 DEF Line, Order, OrdersInStep, AwaitedGoodsAreActive

LEMMA ActiveInStep ==
  ASSUME OrdersInStep,
         \/ \E x \in Switched : Activate(x)
         \/ \E x \in Switched \intersect Suppliers : DeactivateSupplier(x)
         \/ \E x \in Switched \intersect Skus : DeactivateItem(x)
         \/ \E x \in Switched \intersect Locations : DeactivateLocation(x)
  PROVE  OrderStatusDerived' /\ AwaitedGoodsAreActive'
<1>1. orders' = orders /\ lines' = lines
  BY DEF Activate, DeactivateSupplier, DeactivateItem, DeactivateLocation, Deactivate
<1>2. OrderStatusDerived'
  BY <1>1 DEF OrdersInStep, OrderStatusDerived, OrderTable, LinesOf
<1>3. AwaitedGoodsAreActive'
  <2> SUFFICES ASSUME NEW l \in LineIds, lines[l] # None, lines[l].received < lines[l].ordered
               PROVE  lines[l].sku \in active' /\ orders[lines[l].order].supplier \in active'
    BY <1>1 DEF AwaitedGoodsAreActive
  <2> DEFINE i == lines[l].sku
             p == orders[lines[l].order].supplier
  <2>1. /\ \A x : DeactivateSupplier(x) => p # x
        /\ \A x : DeactivateItem(x) => i # x
        /\ i \in active /\ p \in active /\ i \in Skus /\ p \in Suppliers
    BY DeactivateInStep
  <2> HIDE DEF i, p
  <2>2. ASSUME NEW x, Activate(x)
        PROVE  i \in active' /\ p \in active'
    BY <2>1, <2>2 DEF Activate
  <2>3. ASSUME NEW x \in Suppliers, DeactivateSupplier(x)
        PROVE  i \in active' /\ p \in active'
    BY <2>1, <2>3, TablesAssumption DEF DeactivateSupplier, Deactivate
  <2>4. ASSUME NEW x \in Skus, DeactivateItem(x)
        PROVE  i \in active' /\ p \in active'
    BY <2>1, <2>4, TablesAssumption DEF DeactivateItem, Deactivate
  <2>5. ASSUME NEW x \in Locations, DeactivateLocation(x)
        PROVE  i \in active' /\ p \in active'
    BY <2>1, <2>5, TablesAssumption DEF DeactivateLocation, Deactivate
  <2>6. QED
    BY <2>2, <2>3, <2>4, <2>5 DEF i, p
<1>4. QED
  BY <1>2, <1>3

\* Steps that leave orders, lines and the master data alone.
LEMMA StillInStep ==
  ASSUME OrdersInStep, UNCHANGED <<orders, lines, active>>
  PROVE  OrderStatusDerived' /\ AwaitedGoodsAreActive'
BY DEF OrdersInStep, OrderStatusDerived, AwaitedGoodsAreActive, OrderTable, LinesOf

LEMMA OrdersInStepNext ==
  ASSUME OrdersInStep, LineIdsApart, [Next]_vars
  PROVE  OrdersInStep'
<1>1. Records'
  BY RecordsNext DEF OrdersInStep
<1>2. ASSUME NEW s \in StagingIds, NEW a \in Actors,
             \/ ConfirmOrder(s, a)
             \/ CancelOrder(s, a)
             \/ \E o \in Orders, x \in Suppliers : \E d \in OrderDocuments[o] :
                  StageOrder(s, o, x, d, a)
      PROVE  OrderStatusDerived' /\ AwaitedGoodsAreActive'
  <2>1. CASE ConfirmOrder(s, a)
    BY <2>1, ConfirmOrderInStep
  <2>2. CASE ~ ConfirmOrder(s, a)
    <3>1. UNCHANGED <<orders, lines, active>>
      BY <1>2, <2>2 DEF CancelOrder, StageOrder
    <3>2. QED
      BY <3>1, StillInStep
  <2>3. QED
    BY <2>1, <2>2
<1>3. ASSUME NEW r \in ReceiptIds, NEW a \in Actors,
             \/ ConfirmReceipt(r, a)
             \/ ConfirmReceiptStopped(r, a)
             \/ CancelReceipt(r, a)
             \/ \E o \in Orders, x \in Locations, n \in Notes : StageReceipt(r, o, x, n, a)
      PROVE  OrderStatusDerived' /\ AwaitedGoodsAreActive'
  <2>1. CASE ConfirmReceipt(r, a) \/ ConfirmReceiptStopped(r, a)
    <3>1. receipts[r] # None /\ Receive(r) /\ active' = active
      BY <2>1 DEF ConfirmReceipt, ConfirmReceiptStopped, PendingReceipt
    <3>2. QED
      BY <3>1, ReceiveInStep
  <2>2. CASE ~ (ConfirmReceipt(r, a) \/ ConfirmReceiptStopped(r, a))
    <3>1. UNCHANGED <<orders, lines, active>>
      BY <1>3, <2>2 DEF CancelReceipt, StageReceipt
    <3>2. QED
      BY <3>1, StillInStep
  <2>3. QED
    BY <2>1, <2>2
<1>4. ASSUME \/ \E b \in AssetIds, x \in Locations : PutAway(b, x)
             \/ \E p \in Positions, q \in 1 .. MaxUnits : IssueStock(p, q)
             \/ UNCHANGED vars
      PROVE  OrderStatusDerived' /\ AwaitedGoodsAreActive'
  <2>1. UNCHANGED <<orders, lines, active>>
    BY <1>4 DEF PutAway, IssueStock, vars
  <2>2. QED
    BY <2>1, StillInStep
<1>5. OrderStatusDerived' /\ AwaitedGoodsAreActive'
  BY <1>2, <1>3, <1>4, ActiveInStep DEF Next
<1>6. QED
  BY <1>1, <1>5 DEF OrdersInStep

\* With line ids of their own, orders, their lines and the master data agree.
THEOREM OrdersStayInStep ==
  ASSUME LineIdsApart
  PROVE  Spec => []OrdersInStep
<1>1. Init => OrdersInStep
  BY RecordsInit DEF Init, OrdersInStep, OrderStatusDerived, AwaitedGoodsAreActive
<1>2. OrdersInStep /\ [Next]_vars => OrdersInStep'
  BY OrdersInStepNext
<1>3. QED
  BY <1>1, <1>2, PTL DEF Spec

\* An order's stored status is the one its lines give, after any deliveries,
\* stopped or not: the status is computed from the lines the transaction wrote.
THEOREM StatusFollowsLines ==
  ASSUME LineIdsApart
  PROVE  Spec => []OrderStatusDerived
<1>1. OrdersInStep => OrderStatusDerived
  BY DEF OrdersInStep
<1>2. QED
  BY <1>1, OrdersStayInStep, PTL

\* While a line awaits goods its item and supplier stay active.  For the
\* supplier this rests on the status: DeactivateSupplier looks at the status of
\* its orders and not at their lines.
THEOREM AwaitedStayActive ==
  ASSUME LineIdsApart
  PROVE  Spec => []AwaitedGoodsAreActive
<1>1. OrdersInStep => AwaitedGoodsAreActive
  BY DEF OrdersInStep
<1>2. QED
  BY <1>1, OrdersStayInStep, PTL

-----------------------------------------------------------------------------
(* Receipts and deliveries.  A confirmation that ended half way leaves its *)
(* delivery in the tables and its receipt pending, and may be repeated.    *)

\* Only a receipt that was staged is stopped.
StoppedReceipts == \A r \in stopped : r \in ReceiptIds /\ receipts[r] # None

Applied == Records /\ StoppedReceipts /\ AppliedIffConfirmed

LEMMA AppliedNext ==
  ASSUME Applied, [Next]_vars
  PROVE  Applied'
<1> USE DEF Applied
<1>1. Records'
  BY RecordsNext
<1>2. ASSUME NEW r \in ReceiptIds, NEW a \in Actors, ConfirmReceipt(r, a)
      PROVE  StoppedReceipts' /\ AppliedIffConfirmed'
  <2>1. receipts' = [receipts EXCEPT ![r].status = "confirmed"] /\ receipts[r] \in Receipt
    BY <1>2 DEF ConfirmReceipt, PendingReceipt, Records, TypeOK
  <2>2. receipts'[r] \in Receipt /\ receipts'[r].status = "confirmed"
    BY <2>1 DEF Records, TypeOK, Receipt, Stage
  <2>3. \A q \in ReceiptIds \ {r} : receipts'[q] = receipts[q]
    BY <2>1 DEF Records, TypeOK
  <2>4. deliveries'[r] # None /\ \A q \in ReceiptIds \ {r} : deliveries'[q] = deliveries[q]
    BY <1>2, NoneAssumption DEF ConfirmReceipt, Receive, Records, TypeOK
  <2>5. receipts'[r] # None
    BY <2>2, NoneAssumption
  <2>6. stopped' = stopped
    BY <1>2 DEF ConfirmReceipt
  <2>7. QED
    BY <2>2, <2>3, <2>4, <2>5, <2>6 DEF AppliedIffConfirmed, StoppedReceipts
<1>3. ASSUME NEW r \in ReceiptIds, NEW a \in Actors, CancelReceipt(r, a)
      PROVE  StoppedReceipts' /\ AppliedIffConfirmed'
  <2>1. receipts' = [receipts EXCEPT ![r].status = "cancelled"] /\ receipts[r] \in Receipt
    BY <1>3 DEF CancelReceipt, PendingReceipt, Records, TypeOK
  <2>2. receipts'[r].status = "cancelled" /\ \A q \in ReceiptIds \ {r} : receipts'[q] = receipts[q]
    BY <2>1 DEF Records, TypeOK, Receipt
  <2>3. /\ receipts[r] # None /\ receipts[r].status # "confirmed"
        /\ deliveries' = deliveries /\ stopped' = stopped
    BY <1>3 DEF CancelReceipt, PendingReceipt, delivery
  <2>4. receipts'[r] # None
    <3>1. receipts'[r] \in Receipt
      BY <2>1 DEF Receipt, Stage, Records, TypeOK
    <3>2. QED
      BY <3>1, NoneAssumption
  <2>5. QED
    BY <2>2, <2>3, <2>4 DEF AppliedIffConfirmed, StoppedReceipts
<1>4. ASSUME NEW r \in ReceiptIds, NEW o \in Orders, NEW x \in Locations, NEW n \in Notes,
             NEW a \in Actors, StageReceipt(r, o, x, n, a)
      PROVE  StoppedReceipts' /\ AppliedIffConfirmed'
  <2>1. /\ receipts[r] = None /\ deliveries' = deliveries
        /\ receipts'[r].status = "pending_confirmation" /\ stopped' = stopped
        /\ \A q \in ReceiptIds \ {r} : receipts'[q] = receipts[q]
    BY <1>4 DEF StageReceipt, delivery, Records, TypeOK
  <2>2. r \notin stopped
    BY <2>1 DEF StoppedReceipts
  <2>3. QED
    BY <2>1, <2>2 DEF AppliedIffConfirmed, StoppedReceipts
<1>5. ASSUME UNCHANGED <<receipts, deliveries, stopped>>
      PROVE  StoppedReceipts' /\ AppliedIffConfirmed'
  BY <1>5 DEF AppliedIffConfirmed, StoppedReceipts
<1>11. ASSUME NEW r \in ReceiptIds, NEW a \in Actors, ConfirmReceiptStopped(r, a)
      PROVE  StoppedReceipts' /\ AppliedIffConfirmed'
  <2>1. receipts[r] # None /\ receipts' = receipts /\ stopped' = stopped \union {r}
    BY <1>11 DEF ConfirmReceiptStopped, PendingReceipt
  <2>2. deliveries'[r] # None /\ \A q \in ReceiptIds \ {r} : deliveries'[q] = deliveries[q]
    BY <1>11, NoneAssumption DEF ConfirmReceiptStopped, Receive, Records, TypeOK
  <2>3. QED
    BY <2>1, <2>2 DEF AppliedIffConfirmed, StoppedReceipts
<1>6. CASE \E s \in StagingIds, a \in Actors :
             \/ ConfirmOrder(s, a)
             \/ CancelOrder(s, a)
             \/ \E o \in Orders, x \in Suppliers : \E d \in OrderDocuments[o] :
                  StageOrder(s, o, x, d, a)
  BY <1>1, <1>5, <1>6 DEF ConfirmOrder, CancelOrder, StageOrder, delivery
<1>7. CASE \E r \in ReceiptIds, a \in Actors :
             \/ ConfirmReceipt(r, a)
             \/ ConfirmReceiptStopped(r, a)
             \/ CancelReceipt(r, a)
             \/ \E o \in Orders, x \in Locations, n \in Notes : StageReceipt(r, o, x, n, a)
  BY <1>1, <1>2, <1>3, <1>4, <1>7, <1>11
<1>8. CASE \/ \E b \in AssetIds, x \in Locations : PutAway(b, x)
           \/ \E p \in Positions, q \in 1 .. MaxUnits : IssueStock(p, q)
           \/ UNCHANGED vars
  BY <1>1, <1>5, <1>8 DEF PutAway, IssueStock, delivery, vars
<1>9. CASE \/ \E x \in Switched : Activate(x)
           \/ \E x \in Switched \intersect Suppliers : DeactivateSupplier(x)
           \/ \E x \in Switched \intersect Skus : DeactivateItem(x)
           \/ \E x \in Switched \intersect Locations : DeactivateLocation(x)
  BY <1>1, <1>5, <1>9 DEF Activate, DeactivateSupplier, DeactivateItem, DeactivateLocation,
     Deactivate, delivery
<1>10. QED
  BY <1>6, <1>7, <1>8, <1>9 DEF Next

\* Deliveries and receipts agree, up to the confirmations that ended half way.
THEOREM AppliedHolds == Spec => []Applied
<1>1. Init => Applied
  BY RecordsInit DEF Init, Applied, AppliedIffConfirmed, StoppedReceipts
<1>2. Applied /\ [Next]_vars => Applied'
  BY AppliedNext
<1>3. QED
  BY <1>1, <1>2, PTL DEF Spec

\* A delivery is in the tables exactly when its receipt says confirmed or a
\* confirmation of it ended half way.
THEOREM ConfirmedOnce == Spec => []AppliedIffConfirmed
<1>1. Applied => AppliedIffConfirmed
  BY DEF Applied
<1>2. QED
  BY <1>1, AppliedHolds, PTL

\* A receipt that is being confirmed for the first time has brought nothing yet.
LEMMA PendingBroughtNothing ==
  ASSUME Applied, NEW r \in ReceiptIds, NEW a \in Actors, PendingReceipt(r, a), r \notin stopped
  PROVE  /\ \A l \in LineIds : posted[<<r, l>>] = 0
         /\ \A b \in AssetIds : b[1] = r => assets[b] = None
<1>1. deliveries[r] = None
  BY DEF PendingReceipt, Applied, AppliedIffConfirmed
<1>2. QED
  BY <1>1 DEF Applied, Records, GoodsHaveLines

\* An asset that was put away is not set back to received: the rows a
\* confirmation writes are all new, or of a receipt that ended half way before.
THEOREM PutAwayForGood == Spec => AssetsStayPutAway
<1> DEFINE Stay == \A a \in AssetIds :
                     assets[a] # None /\ assets[a].status = "in_stock" /\ a[1] \notin stopped =>
                       assets'[a] = assets[a]
<1>1. ASSUME Applied, Next
      PROVE  Stay
  <2>1. ASSUME NEW r \in ReceiptIds, NEW a \in Actors,
               ConfirmReceipt(r, a) \/ ConfirmReceiptStopped(r, a)
        PROVE  Stay
    <3>1. PendingReceipt(r, a) /\ Receive(r) /\ receipts[r] # None
      BY <2>1 DEF ConfirmReceipt, ConfirmReceiptStopped, PendingReceipt
    <3>2. ASSUME NEW b \in AssetIds, assets[b] # None, b[1] \notin stopped
          PROVE  assets'[b] = assets[b]
      <4>1. b \notin NewAssets(r)
        BY <1>1, <3>1, <3>2, PendingBroughtNothing DEF NewAssets
      <4>2. QED
        BY <1>1, <3>1, <4>1, ReceivedAssets DEF Applied
    <3>3. QED
      BY <3>2
  <2>2. ASSUME NEW b \in AssetIds, NEW x \in Locations, PutAway(b, x)
        PROVE  Stay
    <3>1. assets[b] \in Asset /\ assets[b].status = "received"
      BY <1>1, <2>2 DEF PutAway, Applied, Records, TypeOK
    <3>2. \A c \in AssetIds \ {b} : assets'[c] = assets[c]
      BY <1>1, <2>2 DEF PutAway, Applied, Records, TypeOK
    <3>3. QED
      BY <3>1, <3>2
  <2>3. ASSUME assets' = assets
        PROVE  Stay
    BY <2>3
  <2>4. CASE \E s \in StagingIds, a \in Actors :
               \/ ConfirmOrder(s, a)
               \/ CancelOrder(s, a)
               \/ \E o \in Orders, x \in Suppliers : \E d \in OrderDocuments[o] :
                    StageOrder(s, o, x, d, a)
    BY <2>3, <2>4 DEF ConfirmOrder, CancelOrder, StageOrder, goods
  <2>5. CASE \E r \in ReceiptIds, a \in Actors :
               \/ ConfirmReceipt(r, a)
               \/ ConfirmReceiptStopped(r, a)
               \/ CancelReceipt(r, a)
               \/ \E o \in Orders, x \in Locations, n \in Notes : StageReceipt(r, o, x, n, a)
    BY <2>1, <2>3, <2>5 DEF CancelReceipt, StageReceipt, goods
  <2>6. CASE \E p \in Positions, q \in 1 .. MaxUnits : IssueStock(p, q)
    BY <2>3, <2>6 DEF IssueStock
  <2>7. CASE \/ \E x \in Switched : Activate(x)
             \/ \E x \in Switched \intersect Suppliers : DeactivateSupplier(x)
             \/ \E x \in Switched \intersect Skus : DeactivateItem(x)
             \/ \E x \in Switched \intersect Locations : DeactivateLocation(x)
    BY <2>3, <2>7 DEF Activate, DeactivateSupplier, DeactivateItem, DeactivateLocation,
       Deactivate, goods
  <2> HIDE DEF Stay
  <2>8. QED
    BY <1>1, <2>2, <2>4, <2>5, <2>6, <2>7 DEF Next
<1>2. Applied /\ [Next]_vars => [Stay]_vars
  BY <1>1
<1>3. Spec => []Applied
  BY AppliedHolds
<1>4. QED
  BY <1>2, <1>3, PTL DEF Spec, AssetsStayPutAway

-----------------------------------------------------------------------------
(* What orders say and what the goods tables hold.                         *)

\* The stock transactions and the assets of one line.
PostedOf(l) == [r \in ReceiptIds |-> posted[<<r, l>>]]
AssetsOf(l) == {b \in AssetIds : b[2] = l /\ assets[b] # None}

\* Quantity lines brought in what they say was received, and serialized lines
\* no more: a row without a serial number counts and creates no asset.
GoodsAccounted ==
  \A l \in LineIds : lines[l] # None =>
    /\ Arrived(l) <= lines[l].received
    /\ lines[l].sku \notin Serialized => Arrived(l) = lines[l].received

LEMMA AssetsAreFinite == IsFiniteSet(AssetIds)
<1>1. IsFiniteSet(1 .. MaxUnits)
  BY BoundsAssumption, FS_Interval
<1>2. IsFiniteSet(LineIds \X (1 .. MaxUnits))
  BY <1>1, TablesAssumption, FS_Product
<1>3. IsFiniteSet(ReceiptIds) /\ IsFiniteSet(LineIds)
  BY TablesAssumption
<1>4. AssetIds = {<<t[1][1], t[1][2], t[2]>> : t \in (ReceiptIds \X LineIds) \X (1 .. MaxUnits)}
  <2>1. ASSUME NEW b \in AssetIds
        PROVE  b \in {<<t[1][1], t[1][2], t[2]>> : t \in (ReceiptIds \X LineIds) \X (1 .. MaxUnits)}
    <3>1. PICK r \in ReceiptIds, l \in LineIds, k \in 1 .. MaxUnits : b = <<r, l, k>>
      BY DEF AssetIds
    <3>2. <<<<r, l>>, k>> \in (ReceiptIds \X LineIds) \X (1 .. MaxUnits)
      OBVIOUS
    <3>3. QED
      BY <3>1, <3>2
  <2>2. QED
    BY <2>1 DEF AssetIds
<1>5. QED
  <2> DEFINE T == (ReceiptIds \X LineIds) \X (1 .. MaxUnits)
             f == [t \in T |-> <<t[1][1], t[1][2], t[2]>>]
  <2>1. IsFiniteSet(ReceiptIds \X LineIds)
    BY <1>3, FS_Product
  <2>2. IsFiniteSet(T)
    BY <1>1, <2>1, FS_Product
  <2>3. f \in Surjection(T, AssetIds)
    BY <1>4 DEF Surjection
  <2>4. QED
    BY <2>2, <2>3, FS_Surjection, Zenon

LEMMA ArrivedIsNat ==
  ASSUME TypeOK, NEW l \in LineIds
  PROVE  /\ Arrived(l) = Total(ReceiptIds, PostedOf(l)) + Cardinality(AssetsOf(l))
         /\ Arrived(l) \in Nat
         /\ Total(ReceiptIds, PostedOf(l)) \in Nat
         /\ IsFiniteSet(AssetsOf(l)) /\ Cardinality(AssetsOf(l)) \in Nat
<1>1. Arrived(l) = Total(ReceiptIds, PostedOf(l)) + Cardinality(AssetsOf(l))
  BY DEF Arrived, PostedOf, AssetsOf
<1>2. \A r \in ReceiptIds : PostedOf(l)[r] \in Nat
  BY DEF PostedOf, TypeOK
<1>3. Total(ReceiptIds, PostedOf(l)) \in Nat
  BY <1>2, TablesAssumption, TotalIsNat
<1>4. IsFiniteSet(AssetsOf(l)) /\ Cardinality(AssetsOf(l)) \in Nat
  BY AssetsAreFinite, FS_Subset, FS_CardinalityType DEF AssetsOf
<1>5. QED
  BY <1>1, <1>3, <1>4

\* Nothing came in for a line that does not exist; quantity lines have no
\* assets and serialized ones no stock.
LEMMA ArrivedByKind ==
  ASSUME Records, NEW l \in LineIds
  PROVE  /\ lines[l] = None => Arrived(l) = 0
         /\ lines[l] # None /\ lines[l].sku \notin Serialized =>
              AssetsOf(l) = {} /\ Arrived(l) = Total(ReceiptIds, PostedOf(l))
         /\ lines[l] # None /\ lines[l].sku \in Serialized =>
              Arrived(l) = Cardinality(AssetsOf(l))
<1>1. /\ Arrived(l) = Total(ReceiptIds, PostedOf(l)) + Cardinality(AssetsOf(l))
      /\ Total(ReceiptIds, PostedOf(l)) \in Nat /\ Cardinality(AssetsOf(l)) \in Nat
  BY ArrivedIsNat DEF Records
<1>2. ASSUME lines[l] = None \/ lines[l].sku \notin Serialized
      PROVE  AssetsOf(l) = {} /\ Cardinality(AssetsOf(l)) = 0
  <2>1. AssetsOf(l) = {}
    BY <1>2 DEF AssetsOf, Records, GoodsHaveLines
  <2>2. QED
    BY <2>1, FS_EmptySet
<1>3. ASSUME lines[l] = None \/ lines[l].sku \in Serialized
      PROVE  Total(ReceiptIds, PostedOf(l)) = 0
  <2>1. \A r \in ReceiptIds : PostedOf(l)[r] = 0
    BY <1>3 DEF PostedOf, Records, GoodsHaveLines
  <2>2. QED
    BY <2>1, TotalOfZeros
<1>4. QED
  BY <1>1, <1>2, <1>3

\* The assets a receipt creates for a line are no more than the units accepted.
LEMMA NewAssetsFew ==
  ASSUME Records, NEW r \in ReceiptIds, receipts[r] # None, Receive(r), NEW l \in LineIds
  PROVE  LET new == {b \in NewAssets(r) : b[2] = l}
         IN  IsFiniteSet(new) /\ Cardinality(new) <= AcceptedFor(r, l) /\ Cardinality(new) \in Nat
<1> DEFINE new == {b \in NewAssets(r) : b[2] = l}
           n == AcceptedFor(r, l)
           T == {<<r, l, k>> : k \in 1 .. n}
           f == [k \in 1 .. n |-> <<r, l, k>>]
<1>1. n \in Nat
  BY ReceiveShape, AcceptedForShape DEF Records
<1>2. IsFiniteSet(1 .. n) /\ Cardinality(1 .. n) = n
  BY <1>1, FS_Interval
<1>3. f \in Surjection(1 .. n, T)
  BY DEF Surjection
<1>4. IsFiniteSet(T) /\ Cardinality(T) <= n
  <2> HIDE DEF T, f
  <2>1. IsFiniteSet(T) /\ Cardinality(T) <= Cardinality(1 .. n)
    BY <1>2, <1>3, FS_Surjection, Zenon
  <2>2. QED
    BY <1>2, <2>1
<1>5. new \in SUBSET T
  <2>1. ASSUME NEW b \in new
        PROVE  b \in T
    <3>1. b \in AssetIds /\ b \in NewAssets(r) /\ b[2] = l
      BY DEF NewAssets
    <3>2. b[1] = r /\ b[3] \in 1 .. n
      BY <3>1, ReceivedAssets
    <3>3. b = <<b[1], b[2], b[3]>>
      BY <3>1 DEF AssetIds
    <3>4. QED
      BY <3>1, <3>2, <3>3
  <2>2. QED
    BY <2>1
<1> HIDE DEF new, T, n
<1>6. IsFiniteSet(new) /\ Cardinality(new) <= Cardinality(T)
  BY <1>4, <1>5, FS_Subset
<1>7. Cardinality(new) \in Nat /\ Cardinality(T) \in Nat
  BY <1>4, <1>6, FS_CardinalityType
<1>8. QED
  BY <1>1, <1>4, <1>6, <1>7 DEF new, n

\* What the first transaction of a confirmation adds to what came in.
LEMMA ReceiveArrived ==
  ASSUME Records, Records', NEW r \in ReceiptIds, receipts[r] # None, Receive(r), NEW l \in LineIds
  PROVE  /\ l \notin LinesOf(receipts[r].order) => Arrived(l)' = Arrived(l)
         /\ Arrived(l) <= Arrived(l)' /\ Arrived(l)' \in Nat
         /\ Arrived(l)' <= Arrived(l) + AcceptedFor(r, l)
         /\ lines[l] # None /\ lines[l].sku \notin Serialized =>
              Arrived(l)' = Arrived(l) + AcceptedFor(r, l)
<1> DEFINE new == {b \in NewAssets(r) : b[2] = l}
           before == Total(ReceiptIds, PostedOf(l))
           after == Total(ReceiptIds, PostedOf(l)')
<1>1. Deliverable(r) /\ AcceptedFor(r, l) \in Nat /\ QuantityPosted(r, l) \in Nat
      /\ (l \notin LinesOf(receipts[r].order) => AcceptedFor(r, l) = 0)
      /\ QuantityPosted(r, l) =
              IF lines[l] # None /\ lines[l].sku \notin Serialized THEN AcceptedFor(r, l) ELSE 0
  BY ReceiveShape, AcceptedForShape DEF Records
<1>2. /\ Arrived(l) = before + Cardinality(AssetsOf(l))
      /\ before \in Nat /\ IsFiniteSet(AssetsOf(l)) /\ Cardinality(AssetsOf(l)) \in Nat
  BY ArrivedIsNat DEF Records
<1>3. /\ Arrived(l)' = after + Cardinality(AssetsOf(l)')
      /\ after \in Nat /\ IsFiniteSet(AssetsOf(l)') /\ Cardinality(AssetsOf(l)') \in Nat
  <2>1. TypeOK'
    BY DEF Records
  <2>2. Arrived(l)' = after + Cardinality(AssetsOf(l)')
    BY DEF Arrived, PostedOf, AssetsOf
  <2>3. \A q \in ReceiptIds : (PostedOf(l)')[q] \in Nat
    BY <2>1 DEF PostedOf, TypeOK
  <2>4. after \in Nat
    BY <2>3, TablesAssumption, TotalIsNat
  <2>5. AssetsOf(l)' \in SUBSET AssetIds
    BY DEF AssetsOf
  <2>6. IsFiniteSet(AssetsOf(l)') /\ Cardinality(AssetsOf(l)') \in Nat
    BY <2>5, AssetsAreFinite, FS_Subset, FS_CardinalityType
  <2>7. QED
    BY <2>2, <2>4, <2>6
<1>4. after = before + QuantityPosted(r, l)
  <2> DEFINE w == PostedOf(l)
             v == PostedOf(l)'
  <2>1. \A q \in ReceiptIds :
          /\ w[q] \in Nat
          /\ w[q] = posted[<<q, l>>]
          /\ v[q] = IF q = r THEN posted[<<q, l>>] + QuantityPosted(r, l) ELSE posted[<<q, l>>]
    BY DEF PostedOf, Receive, Records, TypeOK
  <2>2. QuantityPosted(r, l) > 0 => posted[<<r, l>>] = 0
    BY DEF Receive
  <2> HIDE DEF w, v
  <2>3. CASE QuantityPosted(r, l) = 0
    <3>1. ASSUME NEW q \in ReceiptIds
          PROVE  w[q] = v[q]
      <4>1. w[q] \in Nat /\ w[q] = posted[<<q, l>>]
        BY <2>1
      <4>2. v[q] = posted[<<q, l>>] \/ v[q] = posted[<<q, l>>] + QuantityPosted(r, l)
        BY <2>1
      <4>3. QED
        BY <2>3, <4>1, <4>2
    <3>2. Total(ReceiptIds, w) = Total(ReceiptIds, v)
      BY <3>1, TotalSame
    <3>3. QED
      BY <1>2, <2>3, <3>2 DEF w, v
  <2>4. CASE QuantityPosted(r, l) > 0
    <3>1. w[r] = 0 /\ v[r] = QuantityPosted(r, l) /\ v[r] \in Nat
      BY <1>1, <2>1, <2>2, <2>4
    <3>2. \A q \in ReceiptIds : w[q] \in Nat
      BY <2>1
    <3>3. \A q \in ReceiptIds : q # r => v[q] = w[q]
      BY <2>1
    <3>4. Total(ReceiptIds, v) = Total(ReceiptIds, w) + v[r]
      BY <3>1, <3>2, <3>3, TablesAssumption, TotalRaise
    <3>5. QED
      BY <3>1, <3>4 DEF w, v
  <2>5. QED
    BY <1>1, <2>3, <2>4
<1>5. AssetsOf(l) \subseteq AssetsOf(l)' /\ AssetsOf(l)' \subseteq AssetsOf(l) \union new
  <2>1. ASSUME NEW b \in AssetIds
        PROVE  /\ assets[b] # None => assets'[b] # None
               /\ b \notin NewAssets(r) => assets'[b] = assets[b]
    BY ReceivedAssets
  <2>2. QED
    BY <2>1 DEF AssetsOf
<1>6. ~ (lines[l] # None /\ lines[l].sku \in Serialized) => new = {}
  <2>1. \A b \in new : b \in AssetIds /\ lines[b[2]] # None /\ lines[b[2]].sku \in Serialized
    BY ReceivedAssets DEF NewAssets
  <2>2. QED
    BY <2>1
<1>7. IsFiniteSet(new) /\ Cardinality(new) <= AcceptedFor(r, l) /\ Cardinality(new) \in Nat
  BY NewAssetsFew
<1> HIDE DEF new, before, after
<1>8. Cardinality(AssetsOf(l)) <= Cardinality(AssetsOf(l)')
  BY <1>3, <1>5, FS_Subset
<1>9. Cardinality(AssetsOf(l)') <= Cardinality(AssetsOf(l)) + Cardinality(new)
  <2> DEFINE all == AssetsOf(l) \union new
             both == AssetsOf(l) \intersect new
  <2>1. IsFiniteSet(all) /\ Cardinality(all) = Cardinality(AssetsOf(l)) + Cardinality(new) - Cardinality(both)
    BY <1>2, <1>7, FS_Union
  <2>2. IsFiniteSet(both) /\ Cardinality(both) \in Nat
    BY <1>7, FS_Subset, FS_CardinalityType
  <2> HIDE DEF all, both
  <2>3. AssetsOf(l)' \in SUBSET all
    BY <1>5 DEF all
  <2>4. Cardinality(AssetsOf(l)') <= Cardinality(all)
    BY <2>1, <2>3, FS_Subset
  <2>5. Cardinality(all) \in Nat
    BY <2>1, FS_CardinalityType
  <2>6. QED
    BY <1>2, <1>3, <1>7, <2>1, <2>2, <2>4, <2>5
<1>10. new = {} => Cardinality(new) = 0
  BY FS_EmptySet
<1>11. AcceptedFor(r, l) = 0 => Cardinality(new) = 0
  BY <1>1, <1>7
<1>12. QED
  BY <1>1, <1>2, <1>3, <1>4, <1>6, <1>7, <1>8, <1>9, <1>10, <1>11

\* A step confirms an order, delivers, or leaves lines and arrivals alone.
LEMMA StepKinds ==
  ASSUME Records, [Next]_vars
  PROVE  \/ \E s \in StagingIds, a \in Actors : ConfirmOrder(s, a)
         \/ \E r \in ReceiptIds, a \in Actors :
              PendingReceipt(r, a) /\ receipts[r] # None /\ Receive(r)
         \/ /\ UNCHANGED <<lines, posted>>
            /\ \A b \in AssetIds : assets'[b] = None <=> assets[b] = None
<1> DEFINE Still == /\ UNCHANGED <<lines, posted>>
                    /\ \A b \in AssetIds : assets'[b] = None <=> assets[b] = None
<1>1. ASSUME UNCHANGED <<lines, posted, assets>>
      PROVE  Still
  BY <1>1
<1>2. ASSUME NEW c \in AssetIds, NEW x \in Locations, PutAway(c, x)
      PROVE  Still
  <2>1. assets[c] # None /\ assets[c] \in Asset
    BY <1>2 DEF PutAway, Records, TypeOK
  <2>2. assets' = [assets EXCEPT ![c].status = "in_stock", ![c].location = x]
    BY <1>2 DEF PutAway
  <2>3. assets'[c] \in Asset /\ \A b \in AssetIds \ {c} : assets'[b] = assets[b]
    BY <2>1, <2>2 DEF Asset, Records, TypeOK
  <2>4. \A b \in AssetIds : assets'[b] = None <=> assets[b] = None
    BY <2>1, <2>3, NoneAssumption
  <2>5. QED
    BY <1>2, <2>4 DEF PutAway
<1>3. CASE \E s \in StagingIds, a \in Actors :
             \/ CancelOrder(s, a)
             \/ \E o \in Orders, x \in Suppliers : \E d \in OrderDocuments[o] :
                  StageOrder(s, o, x, d, a)
  BY <1>1, <1>3 DEF CancelOrder, StageOrder, goods
<1>4. CASE \E r \in ReceiptIds, a \in Actors :
             \/ CancelReceipt(r, a)
             \/ \E o \in Orders, x \in Locations, n \in Notes : StageReceipt(r, o, x, n, a)
  BY <1>1, <1>4 DEF CancelReceipt, StageReceipt, goods
<1>5. CASE \E r \in ReceiptIds, a \in Actors : ConfirmReceipt(r, a) \/ ConfirmReceiptStopped(r, a)
  BY <1>5 DEF ConfirmReceipt, ConfirmReceiptStopped, PendingReceipt
<1>6. CASE (\E p \in Positions, q \in 1 .. MaxUnits : IssueStock(p, q)) \/ UNCHANGED vars
  BY <1>1, <1>6 DEF IssueStock, vars
<1>7. CASE \/ \E x \in Switched : Activate(x)
           \/ \E x \in Switched \intersect Suppliers : DeactivateSupplier(x)
           \/ \E x \in Switched \intersect Skus : DeactivateItem(x)
           \/ \E x \in Switched \intersect Locations : DeactivateLocation(x)
  BY <1>1, <1>7 DEF Activate, DeactivateSupplier, DeactivateItem, DeactivateLocation,
     Deactivate, goods
<1> HIDE DEF Still
<1>8. CASE Still
  BY <1>8 DEF Still
<1>9. QED
  BY <1>2, <1>3, <1>4, <1>5, <1>6, <1>7, <1>8 DEF Next

\* What came in is read off the stock transactions and the assets there are.
LEMMA ArrivedKept ==
  ASSUME posted' = posted, \A b \in AssetIds : assets'[b] = None <=> assets[b] = None, NEW l
  PROVE  Arrived(l)' = Arrived(l)
<1>1. {b \in AssetIds : b[2] = l /\ assets'[b] # None} = {b \in AssetIds : b[2] = l /\ assets[b] # None}
  OBVIOUS
<1>2. QED
  BY <1>1 DEF Arrived

Accounted == Records /\ GoodsAccounted

LEMMA AccountedNext ==
  ASSUME Accounted, LineIdsApart, [Next]_vars
  PROVE  Accounted'
<1>1. Records /\ Records'
  BY RecordsNext DEF Accounted
<1>2. ASSUME NEW s \in StagingIds, NEW a \in Actors, ConfirmOrder(s, a)
      PROVE  GoodsAccounted'
  <2>1. \A l \in LineIds : \/ lines'[l] = lines[l]
                           \/ lines[l] = None /\ lines'[l].received = 0
    BY <1>1, <1>2, ConfirmOrderInserts
  <2>2. \A l \in LineIds : Arrived(l)' = Arrived(l)
    BY <1>2, ArrivedKept DEF ConfirmOrder, goods
  <2>3. \A l \in LineIds : lines[l] = None => Arrived(l) = 0
    BY <1>1, ArrivedByKind
  <2> SUFFICES ASSUME NEW l \in LineIds, lines'[l] # None
               PROVE  /\ Arrived(l)' <= lines'[l].received
                      /\ lines'[l].sku \notin Serialized => Arrived(l)' = lines'[l].received
    BY DEF GoodsAccounted
  <2>4. CASE lines'[l] = lines[l]
    BY <2>2, <2>4 DEF Accounted, GoodsAccounted
  <2>5. CASE lines[l] = None /\ lines'[l].received = 0
    BY <2>2, <2>3, <2>5
  <2>6. QED
    BY <2>1, <2>4, <2>5
<1>3. ASSUME NEW r \in ReceiptIds, receipts[r] # None, Receive(r)
      PROVE  GoodsAccounted'
  <2> SUFFICES ASSUME NEW l \in LineIds, lines'[l] # None
               PROVE  /\ Arrived(l)' <= lines'[l].received
                      /\ lines'[l].sku \notin Serialized => Arrived(l)' = lines'[l].received
    BY DEF GoodsAccounted
  <2>1. /\ Deliverable(r) /\ lines[l] # None /\ lines'[l].sku = lines[l].sku
        /\ lines'[l].received = lines[l].received + AcceptedFor(r, l)
    BY <1>1, <1>3, ReceiveShape
  <2>2. /\ Arrived(l)' <= Arrived(l) + AcceptedFor(r, l)
        /\ lines[l].sku \notin Serialized => Arrived(l)' = Arrived(l) + AcceptedFor(r, l)
    BY <1>1, <1>3, <2>1, ReceiveArrived
  <2>3. /\ AcceptedFor(r, l) \in Nat /\ Arrived(l) \in Nat /\ Arrived(l)' \in Nat
        /\ lines[l].received \in Nat
    <3>1. AcceptedFor(r, l) \in Nat
      BY <1>1, <2>1, AcceptedForShape DEF Records
    <3>2. Arrived(l) \in Nat
      BY <1>1, ArrivedIsNat DEF Records
    <3>3. Arrived(l)' \in Nat
      BY <1>1, <1>3, ReceiveArrived
    <3>4. lines[l].received \in Nat
      BY <1>1, <2>1 DEF Records, TypeOK, Line
    <3>5. QED
      BY <3>1, <3>2, <3>3, <3>4
  <2>4. /\ Arrived(l) <= lines[l].received
        /\ lines[l].sku \notin Serialized => Arrived(l) = lines[l].received
    BY <2>1 DEF Accounted, GoodsAccounted
  <2>5. QED
    BY <2>1, <2>2, <2>3, <2>4
<1>4. ASSUME UNCHANGED <<lines, posted>>,
             \A b \in AssetIds : assets'[b] = None <=> assets[b] = None
      PROVE  GoodsAccounted'
  <2>1. \A l \in LineIds : Arrived(l)' = Arrived(l)
    BY <1>4, ArrivedKept
  <2>2. QED
    BY <1>4, <2>1 DEF Accounted, GoodsAccounted
<1>5. QED
  BY <1>1, <1>2, <1>3, <1>4, StepKinds DEF Accounted

\* Never more enters the inventory for a line than its order says was received,
\* and for quantity lines exactly that, interrupted confirmations included.
THEOREM GoodsStayAccounted ==
  ASSUME LineIdsApart
  PROVE  Spec => []Accounted
<1>1. Init => Accounted
  BY RecordsInit DEF Init, Accounted, GoodsAccounted
<1>2. Accounted /\ [Next]_vars => Accounted'
  BY AccountedNext
<1>3. QED
  BY <1>1, <1>2, PTL DEF Spec

-----------------------------------------------------------------------------
(* The abstract specification.                                             *)

LEMMA OrderPlaced ==
  ASSUME Records, LineIdsApart, NEW s \in StagingIds, NEW a \in Actors, ConfirmOrder(s, a)
  PROVE  Fulfilment!Next
<1> DEFINE o == stagings[s].order
           document == stagings[s].document
<1>1. /\ o \in Orders /\ LinesOf(o) = {}
      /\ \A l \in LineIds \ DOMAIN document : lines'[l] = lines[l]
      /\ \A l \in DOMAIN document :
           /\ l \in LineIds /\ lines[l] = None
           /\ lines'[l] \in Line /\ lines'[l] # None /\ lines'[l].order = o
  BY ConfirmOrderInserts
<1> HIDE DEF o, document
<1>2. \A l \in LineIds : OrdersOfLines[l] # o
  BY <1>1, NoneAssumption DEF OrdersOfLines, LinesOf
<1>3. ASSUME NEW l \in LineIds
      PROVE  \/ OrdersOfLines'[l] = OrdersOfLines[l] /\ OrderedUnits'[l] = OrderedUnits[l]
             \/ OrdersOfLines[l] = None /\ OrdersOfLines'[l] = o /\ OrderedUnits'[l] \in Nat
  <2>1. CASE l \in DOMAIN document
    BY <1>1, <2>1 DEF OrdersOfLines, OrderedUnits, Line
  <2>2. CASE l \notin DOMAIN document
    BY <1>1, <2>2 DEF OrdersOfLines, OrderedUnits
  <2>3. QED
    BY <2>1, <2>2
<1>4. /\ OrdersOfLines' = [l \in LineIds |-> OrdersOfLines'[l]]
      /\ OrderedUnits' = [l \in LineIds |-> OrderedUnits'[l]]
  BY DEF OrdersOfLines, OrderedUnits
<1>5. UNCHANGED ArrivedUnits
  <2>1. \A l \in LineIds : Arrived(l)' = Arrived(l)
    BY ArrivedKept DEF ConfirmOrder, goods
  <2>2. QED
    BY <2>1 DEF ArrivedUnits
<1>6. Fulfilment!Place(o)
  BY <1>2, <1>3, <1>4, <1>5 DEF Fulfilment!Place
<1>7. QED
  BY <1>1, <1>6 DEF Fulfilment!Next

LEMMA OrderDelivered ==
  ASSUME Accounted, Accounted', NEW r \in ReceiptIds, receipts[r] # None, Receive(r)
  PROVE  Fulfilment!Next
<1> DEFINE o == receipts[r].order
<1>1. Records /\ Records'
  BY DEF Accounted
<1>2. o \in Orders
  BY <1>1 DEF Records, TypeOK, Receipt
<1>3. \A l \in LineIds :
        /\ lines'[l] = None <=> lines[l] = None
        /\ lines[l] # None => lines'[l].order = lines[l].order /\ lines'[l].ordered = lines[l].ordered
  BY <1>1, ReceiveShape
<1>4. UNCHANGED <<OrderedUnits, OrdersOfLines>>
  BY <1>3 DEF OrderedUnits, OrdersOfLines
<1>5. ASSUME NEW l \in LineIds
      PROVE  \/ ArrivedUnits'[l] = ArrivedUnits[l]
             \/ OrdersOfLines[l] = o /\ ArrivedUnits'[l] \in ArrivedUnits[l] .. OrderedUnits[l]
  <2>1. ArrivedUnits[l] = Arrived(l) /\ ArrivedUnits'[l] = Arrived(l)'
    BY DEF ArrivedUnits
  <2>2. /\ l \notin LinesOf(o) => Arrived(l)' = Arrived(l)
        /\ Arrived(l) <= Arrived(l)' /\ Arrived(l)' \in Nat
    BY <1>1, ReceiveArrived
  <2>3. CASE l \notin LinesOf(o)
    BY <2>1, <2>2, <2>3
  <2>4. CASE l \in LinesOf(o)
    <3>1. lines[l] # None /\ lines[l].order = o /\ lines'[l] # None /\ lines'[l] \in Line
      BY <1>1, <1>3, <2>4 DEF LinesOf, Records, TypeOK
    <3>2. Arrived(l)' <= lines'[l].received
      BY <3>1 DEF Accounted, GoodsAccounted
    <3>3. lines'[l].received <= lines'[l].ordered
      BY <1>1, <3>1 DEF Records, NeverOverReceived
    <3>4. Arrived(l) \in Nat
      BY <1>1, ArrivedIsNat DEF Records
    <3>5. lines'[l].received \in Nat /\ lines'[l].ordered \in Nat /\ lines'[l].ordered = lines[l].ordered
      BY <1>3, <3>1 DEF Line
    <3>6. OrderedUnits[l] = lines[l].ordered /\ OrdersOfLines[l] = o
      BY <3>1 DEF OrderedUnits, OrdersOfLines
    <3>7. Arrived(l)' \in Arrived(l) .. OrderedUnits[l]
      BY <2>2, <3>2, <3>3, <3>4, <3>5, <3>6
    <3>8. QED
      BY <2>1, <3>6, <3>7
  <2>5. QED
    BY <2>3, <2>4
<1>6. ArrivedUnits' = [l \in LineIds |-> ArrivedUnits'[l]]
  BY DEF ArrivedUnits
<1> HIDE DEF o
<1>7. Fulfilment!Deliver(o)
  BY <1>4, <1>5, <1>6 DEF Fulfilment!Deliver
<1>8. QED
  BY <1>2, <1>7 DEF Fulfilment!Next

LEMMA FulfilmentStep ==
  ASSUME Accounted, Accounted', LineIdsApart, [Next]_vars
  PROVE  [Fulfilment!Next]_<<OrderedUnits, ArrivedUnits, OrdersOfLines>>
<1>1. ASSUME UNCHANGED <<lines, posted>>,
             \A b \in AssetIds : assets'[b] = None <=> assets[b] = None
      PROVE  UNCHANGED <<OrderedUnits, ArrivedUnits, OrdersOfLines>>
  <2>1. \A l \in LineIds : Arrived(l)' = Arrived(l)
    BY <1>1, ArrivedKept
  <2>2. QED
    BY <1>1, <2>1 DEF OrderedUnits, ArrivedUnits, OrdersOfLines
<1>2. QED
  BY <1>1, StepKinds, OrderPlaced, OrderDelivered DEF Accounted

\* Receiving implements OrderFulfilment: goods arrive for the lines of one
\* order at a time, never beyond what it ordered, and lines keep their terms.
THEOREM ReceivingFulfils ==
  ASSUME LineIdsApart
  PROVE  Spec => ImplementsFulfilment
<1>1. Init => Fulfilment!Init
  <2> SUFFICES ASSUME Init
               PROVE  Fulfilment!Init
    OBVIOUS
  <2>1. \A l \in LineIds : lines[l] = None
    BY DEF Init
  <2>2. \A l \in LineIds : Arrived(l) = 0
    BY <2>1, RecordsInit, ArrivedByKind
  <2>3. QED
    BY <2>1, <2>2 DEF Fulfilment!Init, OrderedUnits, ArrivedUnits, OrdersOfLines
<1>2. Accounted /\ Accounted' /\ [Next]_vars =>
        [Fulfilment!Next]_<<OrderedUnits, ArrivedUnits, OrdersOfLines>>
  BY FulfilmentStep
<1>3. Spec => []Accounted
  BY GoodsStayAccounted
<1>4. QED
  BY <1>1, <1>2, <1>3, PTL DEF Spec, ImplementsFulfilment, Fulfilment!Spec

-----------------------------------------------------------------------------
(* With serialized rows that name their lines, what the orders say was     *)
(* received is what entered the inventory.                                 *)

\* A row that names a line is matched with that line or with none.
LEMMA NamedLine ==
  ASSUME NEW order, NEW row, row.line # None, NEW l, l # None, LineOf(order, row) = l
  PROVE  row.line = l
<1> DEFINE C == {row.line} \intersect DOMAIN order
<1>1. LineOf(order, row) = IF Cardinality(C) = 1 THEN CHOOSE k \in C : TRUE ELSE None
  BY DEF LineOf
<1>2. Cardinality(C) = 1 /\ l = CHOOSE k \in C : TRUE
  BY <1>1
<1>3. C # {}
  BY <1>2, FS_EmptySet
<1>4. l \in C
  BY <1>2, <1>3
<1>5. QED
  BY <1>4

\* Then every accepted unit of a serialized line has its serial number.
LEMMA EveryUnitHasItsSerial ==
  ASSUME Records, SerialsNamed, NEW r, Deliverable(r), NEW l \in LineIds,
         lines[l] # None, lines[l].sku \in Serialized
  PROVE  Len(SerialsPosted(r, l)) = AcceptedFor(r, l) /\ AcceptedFor(r, l) <= MaxUnits
<1> DEFINE order == OrderTable(receipts[r].order)
           note == receipts[r].note
           R == RowsFor(order, note, l)
           named == {i \in DOMAIN note : note[i].line = l}
<1>1. AcceptedFor(r, l) \in Nat
  BY AcceptedForShape DEF Records
<1>2. CASE AcceptedFor(r, l) = 0
  BY <1>2, BoundsAssumption DEF SerialsPosted
<1>3. CASE AcceptedFor(r, l) > 0
  <2>1. /\ l \in LinesOf(receipts[r].order)
        /\ AcceptedFor(r, l) = Accepted(order, note, l)
        /\ SerialsPosted(r, l) = SerialsOfLine(order, note, l)
    BY <1>3 DEF AcceptedFor, SerialsPosted
  <2>2. /\ OrderOK(order) /\ l \in DOMAIN order /\ order[l] = lines[l]
    BY <2>1, OrderTableOK DEF Records
  <2>3. note \in Notes /\ Acceptable(order, note)
    BY DEF Deliverable, Records, TypeOK, Receipt
  <2>4. Len(note) \in Nat /\ DOMAIN note = 1 .. Len(note)
    BY <2>3, DocumentsAssumption
  <2>5. \A i \in R : /\ i \in DOMAIN note /\ LineOf(order, note[i]) = l
                     /\ note[i].sku \in Serialized /\ Len(note[i].serials) = Usable(note[i])
    BY <2>2, <2>3 DEF RowsFor, Acceptable
  <2>6. l # None
    BY NoneAssumption
  <2>7. \A i \in R : note[i].line = l /\ named = {i}
    <3> SUFFICES ASSUME NEW i \in R
                 PROVE  note[i].line = l /\ named = {i}
      OBVIOUS
    <3>1. /\ note[i].line # None
          /\ \A j \in DOMAIN note : note[j].line = note[i].line => j = i
      BY <2>3, <2>5 DEF SerialsNamed
    <3>2. note[i].line = l
      BY <2>5, <2>6, <3>1, NamedLine
    <3>3. QED
      BY <2>5, <3>1, <3>2
  <2>8. R # {}
    <3>1. Total({}, Contribution(order, note, l)) = 0
      BY TotalOfZeros
    <3>2. QED
      BY <1>3, <2>1, <3>1 DEF Accepted
  <2>9. PICK i \in R : TRUE
    BY <2>8
  <2>10. R = {i} /\ named = {i} /\ i \in DOMAIN note
    BY <2>5, <2>7, <2>9
  <2> DEFINE c == Contribution(order, note, l)
  <2>11. c[i] \in Nat /\ c[i] <= Usable(note[i]) /\ Usable(note[i]) \in Nat
    BY <2>2, <2>3, <2>10, ContributionIsNat
  <2>12. Accepted(order, note, l) = c[i]
    <3> HIDE DEF c
    <3>1. Total({i}, c) = c[i]
      BY <2>11, TotalOfOne
    <3>2. QED
      BY <2>10, <3>1 DEF Accepted, c
  <2>13. note[i].serials \in Seq(Serials) /\ Len(note[i].serials) = Usable(note[i])
         /\ Len(note[i].serials) <= MaxUnits
    BY <2>3, <2>5, <2>10, DocumentsAssumption DEF SerialsNamed
  <2>14. (CHOOSE x \in named : \A y \in named : y <= x) = i
    <3>1. i \in 1 .. Len(note)
      BY <2>4, <2>10
    <3>2. \A y \in {i} : y <= i
      BY <2>4, <3>1
    <3>3. QED
      BY <2>10, <3>2
  <2>15. SerialsOfLine(order, note, l) =
           SubSeq(note[i].serials, 1,
                  IF Accepted(order, note, l) < Len(note[i].serials)
                    THEN Accepted(order, note, l) ELSE Len(note[i].serials))
    <3> DEFINE last == CHOOSE x \in named : \A y \in named : y <= x
               serials(k) == note[k].serials
               taken(k) == IF Accepted(order, note, l) < Len(serials(k))
                             THEN Accepted(order, note, l) ELSE Len(serials(k))
    <3>1. named # {}
      BY <2>10
    <3>2. SerialsOfLine(order, note, l) = SubSeq(serials(last), 1, taken(last))
      BY <3>1 DEF SerialsOfLine
    <3>3. last = i
      BY <2>14
    <3> HIDE DEF last
    <3>4. QED
      BY <3>2, <3>3
  <2> HIDE DEF c
  <2>16. SerialsOfLine(order, note, l) = SubSeq(note[i].serials, 1, c[i])
    BY <2>11, <2>12, <2>13, <2>15
  <2>17. Len(SubSeq(note[i].serials, 1, c[i])) = c[i]
    BY <2>11, <2>13
  <2>18. QED
    BY <2>1, <2>11, <2>12, <2>13, <2>16, <2>17, BoundsAssumption
<1>4. QED
  BY <1>1, <1>2, <1>3

Matched == Applied /\ Accounted /\ GoodsMatchUnlessStopped

LEMMA ReceiveMatches ==
  ASSUME Matched, Records', SerialsNamed, NEW r \in ReceiptIds, NEW a \in Actors,
         PendingReceipt(r, a), r \notin stopped, receipts[r] # None, Receive(r),
         NEW l \in LineIds, lines[l] # None
  PROVE  Arrived(l)' = Arrived(l) + AcceptedFor(r, l)
<1>1. Records /\ Deliverable(r)
  BY ReceiveShape DEF Matched, Applied
<1>2. AcceptedFor(r, l) \in Nat
  BY <1>1, AcceptedForShape DEF Records
<1>3. CASE lines[l].sku \notin Serialized
  BY <1>1, <1>3, ReceiveArrived
<1>4. CASE lines[l].sku \in Serialized
  <2> DEFINE n == AcceptedFor(r, l)
             new == {<<r, l, k>> : k \in 1 .. n}
             f == [k \in 1 .. n |-> <<r, l, k>>]
  <2>1. Len(SerialsPosted(r, l)) = n /\ n <= MaxUnits
    BY <1>1, <1>4, EveryUnitHasItsSerial
  <2>2. ASSUME NEW b \in AssetIds
        PROVE  b \in NewAssets(r) /\ b[2] = l <=> b \in new
    <3>1. b = <<b[1], b[2], b[3]>> /\ b[3] \in 1 .. MaxUnits
      BY DEF AssetIds
    <3>2. b \in NewAssets(r) /\ b[2] = l <=> b[1] = r /\ b[2] = l /\ b[3] <= n
      BY <2>1 DEF NewAssets
    <3>3. b[3] <= n <=> b[3] \in 1 .. n
      BY <1>2, <3>1, BoundsAssumption
    <3>4. QED
      BY <3>1, <3>2, <3>3
  <2>3. new \subseteq AssetIds
    BY <1>2, <2>1, BoundsAssumption DEF AssetIds
  <2>4. \A b \in new : assets[b] = None
    <3>1. \A b \in new : b \in AssetIds /\ b[1] = r
      BY <2>3
    <3>2. QED
      BY <3>1, PendingBroughtNothing DEF Matched
  <2>5. AssetsOf(l)' = AssetsOf(l) \union new
    <3>1. ASSUME NEW b \in AssetIds
          PROVE  b \in AssetsOf(l)' <=> b \in AssetsOf(l) \/ b \in new
      <4>1. CASE b \in NewAssets(r)
        <5>1. assets'[b] # None /\ assets[b] = None
          <6>1. b[1] = r
            BY <4>1 DEF NewAssets
          <6>2. QED
            BY <1>1, <4>1, <6>1, ReceivedAssets, PendingBroughtNothing DEF Matched
        <5>2. QED
          BY <2>2, <4>1, <5>1 DEF AssetsOf
      <4>2. CASE b \notin NewAssets(r)
        <5>1. assets'[b] = assets[b]
          BY <1>1, <4>2, ReceivedAssets
        <5>2. QED
          BY <2>2, <4>2, <5>1 DEF AssetsOf
      <4>3. QED
        BY <4>1, <4>2
    <3>2. AssetsOf(l)' \subseteq AssetIds /\ AssetsOf(l) \subseteq AssetIds
      BY DEF AssetsOf
    <3> HIDE DEF new
    <3>3. QED
      BY <2>3, <3>1, <3>2
  <2>6. AssetsOf(l) \intersect new = {}
    BY <2>4 DEF AssetsOf
  <2>7. IsFiniteSet(1 .. n) /\ Cardinality(1 .. n) = n
    BY <1>2, FS_Interval
  <2>8. f \in Surjection(1 .. n, new) /\ f \in Injection(1 .. n, new)
    BY DEF Surjection, Injection, IsInjective
  <2> HIDE DEF new, f
  <2>9. IsFiniteSet(new) /\ Cardinality(new) = Cardinality(1 .. n)
    BY <2>7, <2>8, FS_Surjection, Zenon
  <2>10. IsFiniteSet(AssetsOf(l)) /\ Cardinality(AssetsOf(l)) \in Nat
         /\ Arrived(l) = Cardinality(AssetsOf(l))
    BY <1>1, <1>4, ArrivedIsNat, ArrivedByKind DEF Records
  <2>11. Cardinality({}) = 0
    BY FS_EmptySet
  <2>12. Cardinality(AssetsOf(l) \union new) =
           Cardinality(AssetsOf(l)) + Cardinality(new) - Cardinality(AssetsOf(l) \intersect new)
    BY <2>9, <2>10, FS_Union
  <2>13. Cardinality(AssetsOf(l)') = Cardinality(AssetsOf(l)) + n
    <3>1. Cardinality(AssetsOf(l)') = Cardinality(AssetsOf(l) \union new)
      BY <2>5, Zenon
    <3>2. Cardinality(AssetsOf(l) \intersect new) = 0
      BY <2>6, <2>11, Zenon
    <3>3. Cardinality(new) = n
      BY <2>7, <2>9
    <3> HIDE DEF n
    <3>4. QED
      BY <1>2, <2>10, <2>12, <3>1, <3>2, <3>3 DEF n
  <2>14. Arrived(l)' = Cardinality(AssetsOf(l)')
    <3>1. lines'[l] # None /\ lines'[l].sku \in Serialized
      BY <1>1, <1>4, ReceiveShape
    <3>2. \A q \in ReceiptIds : (PostedOf(l)')[q] = 0
      BY <3>1 DEF PostedOf, Records, GoodsHaveLines
    <3>3. Total(ReceiptIds, PostedOf(l)') = 0
      BY <3>2, TotalOfZeros
    <3>4. Arrived(l)' = Total(ReceiptIds, PostedOf(l)') + Cardinality(AssetsOf(l)')
      BY DEF Arrived, PostedOf, AssetsOf
    <3>5. Cardinality(AssetsOf(l)') \in Nat
      BY <1>2, <2>10, <2>13
    <3>6. QED
      BY <3>3, <3>4, <3>5
  <2>15. QED
    BY <2>10, <2>13, <2>14
<1>5. QED
  BY <1>3, <1>4

\* What makes a line an exception of GoodsMatchUnlessStopped lasts: receipts
\* keep their orders, lines theirs, and stopped only grows.
LEMMA ExceptionsLast ==
  ASSUME Applied, [Next]_vars
  PROVE  /\ stopped \subseteq stopped'
         /\ \A r \in stopped : receipts'[r].order = receipts[r].order
<1>1. ASSUME NEW r \in ReceiptIds, NEW a \in Actors, NEW s \in {"confirmed", "cancelled"},
             PendingReceipt(r, a), receipts' = [receipts EXCEPT ![r].status = s]
      PROVE  \A q \in ReceiptIds : receipts[q] # None => receipts'[q].order = receipts[q].order
  <2>1. receipts[r] \in Receipt
    BY <1>1 DEF PendingReceipt, Applied, Records, TypeOK
  <2>2. receipts'[r].order = receipts[r].order
    BY <1>1, <2>1 DEF Receipt, Applied, Records, TypeOK
  <2>3. QED
    BY <1>1, <2>2 DEF Applied, Records, TypeOK
<1>2. \A q \in stopped : q \in ReceiptIds /\ receipts[q] # None
  BY DEF Applied, StoppedReceipts
<1>3. ASSUME NEW r \in ReceiptIds, NEW a \in Actors, ConfirmReceipt(r, a) \/ CancelReceipt(r, a)
      PROVE  stopped' = stopped /\ \A q \in stopped : receipts'[q].order = receipts[q].order
  <2>1. \A q \in ReceiptIds : receipts[q] # None => receipts'[q].order = receipts[q].order
    BY <1>1, <1>3 DEF ConfirmReceipt, CancelReceipt
  <2>2. QED
    BY <1>2, <1>3, <2>1 DEF ConfirmReceipt, CancelReceipt, delivery
<1>4. ASSUME NEW r \in ReceiptIds, NEW a \in Actors, NEW o \in Orders, NEW x \in Locations,
             NEW n \in Notes, StageReceipt(r, o, x, n, a)
      PROVE  stopped' = stopped /\ \A q \in stopped : receipts'[q].order = receipts[q].order
  <2>1. /\ receipts[r] = None /\ stopped' = stopped
        /\ \A q \in ReceiptIds \ {r} : receipts'[q] = receipts[q]
    BY <1>4 DEF StageReceipt, delivery, Applied, Records, TypeOK
  <2>2. QED
    BY <1>2, <2>1
<1>5. ASSUME receipts' = receipts, stopped \subseteq stopped'
      PROVE  stopped \subseteq stopped' /\ \A q \in stopped : receipts'[q].order = receipts[q].order
  BY <1>5
<1>6. CASE \E s \in StagingIds, a \in Actors :
             \/ ConfirmOrder(s, a)
             \/ CancelOrder(s, a)
             \/ \E o \in Orders, x \in Suppliers : \E d \in OrderDocuments[o] :
                  StageOrder(s, o, x, d, a)
  BY <1>5, <1>6 DEF ConfirmOrder, CancelOrder, StageOrder, delivery
<1>7. CASE \E r \in ReceiptIds, a \in Actors :
             \/ ConfirmReceipt(r, a)
             \/ ConfirmReceiptStopped(r, a)
             \/ CancelReceipt(r, a)
             \/ \E o \in Orders, x \in Locations, n \in Notes : StageReceipt(r, o, x, n, a)
  BY <1>3, <1>4, <1>5, <1>7 DEF ConfirmReceiptStopped
<1>8. CASE \/ \E b \in AssetIds, x \in Locations : PutAway(b, x)
           \/ \E p \in Positions, q \in 1 .. MaxUnits : IssueStock(p, q)
           \/ UNCHANGED vars
  BY <1>5, <1>8 DEF PutAway, IssueStock, delivery, vars
<1>9. CASE \/ \E x \in Switched : Activate(x)
           \/ \E x \in Switched \intersect Suppliers : DeactivateSupplier(x)
           \/ \E x \in Switched \intersect Skus : DeactivateItem(x)
           \/ \E x \in Switched \intersect Locations : DeactivateLocation(x)
  BY <1>5, <1>9 DEF Activate, DeactivateSupplier, DeactivateItem, DeactivateLocation,
     Deactivate, delivery
<1>10. QED
  BY <1>6, <1>7, <1>8, <1>9 DEF Next

\* A line that is no exception says exactly what came in.
Exact(l) == lines[l].received = Arrived(l)
Excepted(l) == lines[l].sku \in Serialized /\ \E r \in stopped : receipts[r].order = lines[l].order

LEMMA MatchedNext ==
  ASSUME Matched, LineIdsApart, SerialsNamed, [Next]_vars
  PROVE  Matched'
<1>1. Applied' /\ Accounted'
  BY AppliedNext, AccountedNext DEF Matched
<1>2. Records /\ Records'
  BY <1>1 DEF Matched, Applied
<1>3. /\ stopped \subseteq stopped'
      /\ \A r \in stopped : receipts'[r].order = receipts[r].order
  BY ExceptionsLast DEF Matched
<1>4. ASSUME NEW l \in LineIds, lines[l] # None, Excepted(l),
             lines'[l].sku = lines[l].sku, lines'[l].order = lines[l].order
      PROVE  Excepted(l)'
  BY <1>3, <1>4 DEF Excepted
<1>5. ASSUME NEW l \in LineIds, lines[l] # None
      PROVE  Exact(l) \/ Excepted(l)
  BY <1>5 DEF Matched, GoodsMatchUnlessStopped, Exact, Excepted
<1>6. ASSUME NEW l \in LineIds, lines'[l] # None
      PROVE  Exact(l)' \/ Excepted(l)'
  <2>1. ASSUME NEW s \in StagingIds, NEW a \in Actors, ConfirmOrder(s, a)
        PROVE  Exact(l)' \/ Excepted(l)'
    <3>1. \/ lines'[l] = lines[l]
          \/ lines[l] = None /\ lines'[l].received = 0
      BY <1>2, <2>1, ConfirmOrderInserts, Zenon DEF Matched
    <3>2. Arrived(l)' = Arrived(l)
      BY <2>1, ArrivedKept DEF ConfirmOrder, goods
    <3>3. lines[l] = None => Arrived(l) = 0
      BY <1>2, ArrivedByKind
    <3>4. CASE lines'[l] = lines[l]
      BY <1>4, <1>5, <1>6, <3>2, <3>4 DEF Exact
    <3>5. CASE lines[l] = None /\ lines'[l].received = 0
      BY <3>2, <3>3, <3>5 DEF Exact
    <3>6. QED
      BY <3>1, <3>4, <3>5
  <2>2. ASSUME NEW r \in ReceiptIds, NEW a \in Actors,
               PendingReceipt(r, a), receipts[r] # None, Receive(r)
        PROVE  Exact(l)' \/ Excepted(l)'
    <3>1. /\ lines[l] # None /\ lines'[l].received = lines[l].received + AcceptedFor(r, l)
          /\ lines'[l].sku = lines[l].sku /\ lines'[l].order = lines[l].order
      BY <1>2, <1>6, <2>2, ReceiveShape
    <3>2. CASE Excepted(l)
      BY <1>4, <3>1, <3>2
    <3>3. CASE Exact(l) /\ r \notin stopped
      <4>1. Arrived(l)' = Arrived(l) + AcceptedFor(r, l)
        BY <1>2, <2>2, <3>1, <3>3, ReceiveMatches
      <4>2. QED
        BY <3>1, <3>3, <4>1 DEF Exact
    <3>4. CASE Exact(l) /\ r \in stopped /\ ~ Excepted(l)
      <4>1. Deliverable(r)
        BY <1>2, <2>2, ReceiveShape
      <4>2. CASE lines[l].sku \notin Serialized
        <5>1. Arrived(l)' = Arrived(l) + AcceptedFor(r, l)
          BY <1>2, <2>2, <3>1, <4>2, ReceiveArrived
        <5>2. QED
          BY <3>1, <3>4, <5>1 DEF Exact
      <4>3. CASE lines[l].sku \in Serialized
        <5>1. l \notin LinesOf(receipts[r].order)
          BY <3>4, <4>3 DEF Excepted, LinesOf
        <5>2. Arrived(l)' = Arrived(l)
          BY <1>2, <2>2, <5>1, ReceiveArrived
        <5>3. AcceptedFor(r, l) = 0
          BY <5>1 DEF AcceptedFor
        <5>4. lines[l].received \in Nat
          BY <1>2, <3>1 DEF Records, TypeOK, Line
        <5>5. QED
          BY <3>1, <3>4, <5>2, <5>3, <5>4 DEF Exact
      <4>4. QED
        BY <4>2, <4>3
    <3>5. QED
      BY <1>5, <3>1, <3>2, <3>3, <3>4
  <2>3. ASSUME UNCHANGED <<lines, posted>>,
               \A b \in AssetIds : assets'[b] = None <=> assets[b] = None
        PROVE  Exact(l)' \/ Excepted(l)'
    <3>1. Arrived(l)' = Arrived(l)
      BY <2>3, ArrivedKept
    <3>2. QED
      BY <1>4, <1>5, <1>6, <2>3, <3>1 DEF Exact
  <2>4. QED
    BY <1>2, <2>1, <2>2, <2>3, StepKinds
<1>7. GoodsMatchUnlessStopped'
  BY <1>1, <1>6 DEF GoodsMatchUnlessStopped, Exact, Excepted, Accounted, GoodsAccounted
<1>8. QED
  BY <1>1, <1>7 DEF Matched

\* What an order line says was received is what entered the inventory, for all
\* but the serialized lines of an order one of whose confirmations ended half
\* way, as long as orders have line ids of their own and serialized rows name
\* their lines.
THEOREM GoodsMatchOrders ==
  ASSUME LineIdsApart, SerialsNamed
  PROVE  Spec => []GoodsMatchUnlessStopped
<1>1. Init => Matched
  BY RecordsInit DEF Init, Matched, Applied, AppliedIffConfirmed, StoppedReceipts, Accounted, GoodsAccounted,
     GoodsMatchUnlessStopped
<1>2. Matched /\ [Next]_vars => Matched'
  BY MatchedNext
<1>3. Matched => GoodsMatchUnlessStopped
  BY DEF Matched
<1>4. QED
  BY <1>1, <1>2, <1>3, PTL DEF Spec

-----------------------------------------------------------------------------
(* What it means that a delivery was accepted.                             *)

\* Without a discrepancy a note brings each line exactly what it awaits: no row
\* is damaged, none is a surplus and no line is short.
LEMMA NoDiscrepancy ==
  ASSUME NEW order, OrderOK(order), NEW l \in DOMAIN order, NEW note \in Notes,
         Acceptable(order, note), WithinOrder(order, note), Discrepancies(order, note) = {}
  PROVE  order[l].received + Accepted(order, note, l) = order[l].ordered
<1> DEFINE R == RowsFor(order, note, l)
           c == Contribution(order, note, l)
           d == [i \in DOMAIN note |-> note[i].delivered]
<1>0. DamagedRows(order, note, l) = {} /\ SurplusRows(order, note, l) = {} /\ ShortLines(order, note) = {}
  <2> DEFINE ofLine(k) == WrongRows(order, note, k) \union DamagedRows(order, note, k)
                            \union SurplusRows(order, note, k)
             all == {ofLine(k) : k \in DOMAIN order}
  <2>1. Discrepancies(order, note)
          = (UNION all) \union UnexpectedRows(order, note) \union ShortLines(order, note)
    BY DEF Discrepancies
  <2>2. ofLine(l) \in all
    OBVIOUS
  <2>3. DamagedRows(order, note, l) \subseteq ofLine(l) /\ SurplusRows(order, note, l) \subseteq ofLine(l)
    OBVIOUS
  <2> HIDE DEF ofLine, all
  <2>4. UNION all \subseteq Discrepancies(order, note) /\ ShortLines(order, note) \subseteq Discrepancies(order, note)
    <3> HIDE DEF R, c, d
    <3>1. \A A, B, C, D : A = B \union C \union D => B \subseteq A /\ D \subseteq A
      OBVIOUS
    <3>2. QED
      BY <2>1, <3>1, Zenon
  <2>5. ofLine(l) \subseteq Discrepancies(order, note)
    BY <2>2, <2>4
  <2>6. QED
    BY <2>3, <2>4, <2>5
<1>1. /\ order[l].ordered \in Nat /\ order[l].received \in Nat
      /\ Outstanding(order[l]) \in Nat
  BY OutstandingIsNat DEF OrderOK
<1>2. Accepted(order, note, l) \in Nat
  BY AcceptedIsNat
<1>3. order[l].received + Accepted(order, note, l) <= order[l].ordered
  BY DEF WithinOrder
<1>4. ASSUME NEW i \in R
      PROVE  c[i] = d[i]
  <2>1. i \in DOMAIN note
    BY DEF RowsFor
  <2>2. /\ note[i].delivered \in Int /\ note[i].damaged \in Int
        /\ note[i].damaged \in 0 .. note[i].delivered
    BY <2>1, DocumentsAssumption DEF Acceptable
  <2>3. ~ (note[i].damaged > 0)
    BY <1>0 DEF DamagedRows
  <2>4. ~ (note[i].delivered > Outstanding(order[l]))
    BY <1>0 DEF SurplusRows
  <2>5. Usable(note[i]) = note[i].delivered
    BY <2>2, <2>3 DEF Usable
  <2>6. QED
    BY <1>1, <2>1, <2>2, <2>4, <2>5 DEF Contribution
<1>5. Accepted(order, note, l) = DeliveredTo(order, note, l)
  <2> HIDE DEF R, c, d
  <2>1. Total(R, c) = Total(R, d)
    BY <1>4, TotalSame
  <2>2. QED
    BY <2>1 DEF Accepted, DeliveredTo, R, c, d
<1>6. ~ (DeliveredTo(order, note, l) < Outstanding(order[l]))
  BY <1>0 DEF ShortLines
<1>7. QED
  BY <1>1, <1>2, <1>3, <1>5, <1>6 DEF Outstanding

\* A delivery without an exception completes its order: afterwards no line of
\* it awaits anything (the reconciler raises an exception for every other note).
THEOREM AcceptedDeliveryCompletes ==
  Spec => [][\A r \in ReceiptIds :
               deliveries[r] # "accepted" /\ deliveries'[r] = "accepted" =>
                 \A l \in LineIds : lines[l] # None /\ lines[l].order = receipts[r].order =>
                   lines'[l].received = lines'[l].ordered]_vars
<1>1. ASSUME Records, [Next]_vars, NEW r \in ReceiptIds,
             deliveries[r] # "accepted", deliveries'[r] = "accepted",
             NEW l \in LineIds, lines[l] # None, lines[l].order = receipts[r].order
      PROVE  lines'[l].received = lines'[l].ordered
  <2>1. PICK q \in ReceiptIds : receipts[q] # None /\ Receive(q)
    <3>1. deliveries' # deliveries
      BY <1>1
    <3>2. CASE \E q \in ReceiptIds, a \in Actors :
                 ConfirmReceipt(q, a) \/ ConfirmReceiptStopped(q, a)
      BY <3>2 DEF ConfirmReceipt, ConfirmReceiptStopped, PendingReceipt
    <3>3. CASE \E s \in StagingIds, a \in Actors :
                 \/ ConfirmOrder(s, a)
                 \/ CancelOrder(s, a)
                 \/ \E o \in Orders, x \in Suppliers : \E d \in OrderDocuments[o] :
                      StageOrder(s, o, x, d, a)
      BY <3>1, <3>3 DEF ConfirmOrder, CancelOrder, StageOrder, delivery
    <3>4. CASE \E q \in ReceiptIds, a \in Actors :
                 \/ CancelReceipt(q, a)
                 \/ \E o \in Orders, x \in Locations, n \in Notes : StageReceipt(q, o, x, n, a)
      BY <3>1, <3>4 DEF CancelReceipt, StageReceipt, delivery
    <3>5. CASE \/ \E b \in AssetIds, x \in Locations : PutAway(b, x)
               \/ \E p \in Positions, k \in 1 .. MaxUnits : IssueStock(p, k)
               \/ UNCHANGED vars
      BY <3>1, <3>5 DEF PutAway, IssueStock, delivery, vars
    <3>6. CASE \/ \E x \in Switched : Activate(x)
               \/ \E x \in Switched \intersect Suppliers : DeactivateSupplier(x)
               \/ \E x \in Switched \intersect Skus : DeactivateItem(x)
               \/ \E x \in Switched \intersect Locations : DeactivateLocation(x)
      BY <3>1, <3>6 DEF Activate, DeactivateSupplier, DeactivateItem, DeactivateLocation,
         Deactivate, delivery
    <3>7. QED
      BY <1>1, <3>2, <3>3, <3>4, <3>5, <3>6 DEF Next
  <2> DEFINE order == OrderTable(receipts[q].order)
             note == receipts[q].note
             found == {[delivery |-> q, what |-> d] : d \in Discrepancies(order, note)}
  <2>2. deliveries' = [deliveries EXCEPT ![q] = IF found = {} THEN "accepted" ELSE "exception"]
    BY <2>1 DEF Receive
  <2>3. q = r /\ found = {}
    BY <1>1, <2>2 DEF Records, TypeOK
  <2>4. Discrepancies(order, note) = {}
    BY <2>3
  <2>5. /\ OrderOK(order) /\ l \in DOMAIN order /\ order[l] = lines[l]
    BY <1>1, <2>3, OrderTableOK DEF Records, LinesOf
  <2>6. Acceptable(order, note) /\ WithinOrder(order, note)
    BY <2>1 DEF Receive
  <2>7. note \in Notes
    <3>1. receipts[q] \in Receipt
      BY <1>1, <2>1 DEF Records, TypeOK
    <3>2. QED
      BY <3>1 DEF Receipt
  <2> HIDE DEF order, note, found
  <2>8. order[l].received + Accepted(order, note, l) = order[l].ordered
    BY <2>4, <2>5, <2>6, <2>7, NoDiscrepancy
  <2>9. AcceptedFor(q, l) = Accepted(order, note, l)
    BY <1>1, <2>3 DEF AcceptedFor, LinesOf, order, note
  <2>10. /\ lines'[l].received = lines[l].received + AcceptedFor(q, l)
         /\ lines'[l].ordered = lines[l].ordered
    BY <1>1, <2>1, ReceiveShape
  <2>11. QED
    BY <2>5, <2>8, <2>9, <2>10
<1>2. Records /\ [Next]_vars =>
        [\A r \in ReceiptIds :
           deliveries[r] # "accepted" /\ deliveries'[r] = "accepted" =>
             \A l \in LineIds : lines[l] # None /\ lines[l].order = receipts[r].order =>
               lines'[l].received = lines'[l].ordered]_vars
  BY <1>1
<1>3. QED
  BY <1>2, RecordsHold, PTL DEF Spec
=============================================================================
