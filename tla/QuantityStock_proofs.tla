----------------------- MODULE QuantityStock_proofs -----------------------
(***************************************************************************)
(* Theorems about quantity stock, for any sets of items, locations, users  *)
(* and identifiers and any bounds.                                         *)
(***************************************************************************)
EXTENDS QuantityStock, FiniteSetTheorems, TLAPS

-----------------------------------------------------------------------------
(* Totals: how one changes when a row joins or leaves the set of rows, and *)
(* when weights change outside of it.                                      *)

\* The tokens of one row: w[i] of them.
LEMMA RowUnits ==
  ASSUME NEW i, NEW n \in Nat
  PROVE  /\ IsFiniteSet({i} \X (1 .. n))
         /\ Cardinality({i} \X (1 .. n)) = n
<1>1. IsFiniteSet({i}) /\ Cardinality({i}) = 1
  BY FS_Singleton
<1>2. IsFiniteSet(1 .. n) /\ Cardinality(1 .. n) = n
  BY FS_Interval
<1>3. /\ IsFiniteSet({i} \X (1 .. n))
      /\ Cardinality({i} \X (1 .. n)) = Cardinality({i}) * Cardinality(1 .. n)
  BY <1>1, <1>2, FS_Product, Zenon
<1>4. 1 * n = n
  OBVIOUS
<1>5. QED
  BY <1>1, <1>2, <1>3, <1>4, Zenon

\* No rows, no units.
LEMMA TotalOfNone ==
  ASSUME NEW w
  PROVE  IsFiniteSet(Units({}, w)) /\ Total({}, w) = 0
<1>1. Units({}, w) = {}
  BY DEF Units
<1>2. QED
  BY <1>1, FS_EmptySet DEF Total

\* Only the weights of the rows of S matter.
LEMMA TotalSameWeights ==
  ASSUME NEW S, NEW w, NEW v, \A i \in S : w[i] = v[i]
  PROVE  Units(S, w) = Units(S, v) /\ Total(S, w) = Total(S, v)
<1>1. Units(S, w) = Units(S, v)
  BY DEF Units
<1>2. QED
  BY <1>1 DEF Total

\* A row that joins adds its weight.
LEMMA TotalAdd ==
  ASSUME NEW S, NEW w, NEW i, i \notin S, w[i] \in Nat, IsFiniteSet(Units(S, w))
  PROVE  /\ IsFiniteSet(Units(S \union {i}, w))
         /\ Total(S \union {i}, w) = Total(S, w) + w[i]
<1> DEFINE row == {i} \X (1 .. w[i])
<1>1. Units(S \union {i}, w) = Units(S, w) \union row
  BY DEF Units
<1>2. Units(S, w) \intersect row = {}
  BY DEF Units
<1>3. IsFiniteSet(row) /\ Cardinality(row) = w[i]
  BY RowUnits
<1>4. Cardinality(Units(S, w)) \in Nat
  BY FS_CardinalityType
<1>5. /\ IsFiniteSet(Units(S, w) \union row)
      /\ Cardinality(Units(S, w) \union row)
           = Cardinality(Units(S, w)) + Cardinality(row) - Cardinality({})
  BY <1>2, <1>3, FS_Union
<1>6. Cardinality({}) = 0
  BY FS_EmptySet
<1> HIDE DEF row
<1>7. Cardinality(Units(S, w) \union row) = Cardinality(Units(S, w)) + w[i]
  BY <1>3, <1>4, <1>5, <1>6
<1>8. QED
  BY <1>1, <1>5, <1>7, Zenon DEF Total

\* A row that leaves takes its weight along, and had no more than the total.
LEMMA TotalRemove ==
  ASSUME NEW S, NEW w, NEW i \in S, w[i] \in Nat, IsFiniteSet(Units(S, w))
  PROVE  /\ IsFiniteSet(Units(S \ {i}, w))
         /\ Total(S \ {i}, w) = Total(S, w) - w[i]
         /\ w[i] <= Total(S, w)
<1> DEFINE rest == S \ {i}
<1>1. rest \union {i} = S /\ i \notin rest
  OBVIOUS
<1>2. Units(rest, w) \subseteq Units(S, w)
  BY DEF Units
<1>3. IsFiniteSet(Units(rest, w)) /\ Cardinality(Units(rest, w)) \in Nat
  BY <1>2, FS_Subset, FS_CardinalityType
<1>4. Total(rest \union {i}, w) = Total(rest, w) + w[i]
  BY <1>1, <1>3, TotalAdd, Zenon
<1>5. Total(S, w) = Total(rest, w) + w[i]
  BY <1>1, <1>4, Zenon
<1>6. Total(rest, w) \in Nat
  BY <1>3, Zenon DEF Total
<1> HIDE DEF rest
<1>7. Total(rest, w) = Total(S, w) - w[i] /\ w[i] <= Total(S, w)
  BY <1>5, <1>6
<1>8. QED
  BY <1>3, <1>7, Zenon DEF rest

-----------------------------------------------------------------------------
(* Types.                                                                  *)

\* What Append1 does to the transaction table.
LEMMA RowAppended ==
  ASSUME TypeOK,
         NEW type \in {"receive", "issue", "return", "transfer", "adjustment"},
         NEW sku \in Skus, NEW q \in Nat,
         NEW from \in Locations \union {None}, NEW to \in Locations \union {None},
         NEW ref \in CountIds \union {None},
         Append1(type, sku, q, from, to, ref)
  PROVE  LET new == Len(transactions) + 1 IN
         /\ transactions' \in Seq(Transaction)
         /\ DOMAIN transactions' = DOMAIN transactions \union {new}
         /\ new \notin DOMAIN transactions
         /\ \A i \in DOMAIN transactions : transactions'[i] = transactions[i]
         /\ transactions'[new] = [type |-> type, sku |-> sku, quantity |-> q,
                                  from |-> from, to |-> to, reference |-> ref]
<1> DEFINE row == [type |-> type, sku |-> sku, quantity |-> q,
                   from |-> from, to |-> to, reference |-> ref]
<1>1. row \in Transaction
  BY DEF Transaction
<1>2. transactions' = Append(transactions, row) /\ transactions \in Seq(Transaction)
  BY DEF Append1, TypeOK
<1> HIDE DEF row
<1>3. QED
  BY <1>1, <1>2 DEF row

LEMMA TypeInit == Init => TypeOK
<1> SUFFICES ASSUME Init PROVE TypeOK
  OBVIOUS
<1>1. transactions \in Seq(Transaction)
  BY DEF Init
<1>2. QED
  BY <1>1 DEF Init, TypeOK

LEMMA MagnitudeIsNat == \A i \in Int : Magnitude(i) \in Nat
  BY DEF Magnitude

LEMMA TypeReceive ==
  ASSUME TypeOK, NEW p \in Positions, NEW q \in Quantities, Receive(p, q) \/ ReturnStock(p, q)
  PROVE  TypeOK'
<1>1. q \in Nat /\ p[1] \in Skus /\ p[2] \in Locations
  BY BoundsAssumption DEF Quantities, Positions
<1>2. onHand' \in [Positions -> Int]
  BY <1>1 DEF TypeOK, Receive, ReturnStock
<1>3. transactions' \in Seq(Transaction)
  BY <1>1, RowAppended DEF Receive, ReturnStock
<1>4. QED
  BY <1>2, <1>3 DEF TypeOK, Receive, ReturnStock, counting, master

LEMMA TypeIssue ==
  ASSUME TypeOK, NEW p \in Positions, NEW q \in Quantities, NEW c \in Customers, Issue(p, q, c)
  PROVE  TypeOK'
<1>1. q \in Nat /\ p[1] \in Skus /\ p[2] \in Locations
  BY BoundsAssumption DEF Quantities, Positions
<1>2. onHand' \in [Positions -> Int]
  BY <1>1 DEF TypeOK, Issue
<1>3. transactions' \in Seq(Transaction)
  BY <1>1, RowAppended DEF Issue
<1>4. QED
  BY <1>2, <1>3 DEF TypeOK, Issue, counting, master

LEMMA TypeReserve ==
  ASSUME TypeOK, NEW r \in ReservationIds, NEW p \in Positions, NEW q \in Quantities,
         NEW c \in Customers, Reserve(r, p, q, c)
  PROVE  TypeOK'
<1>1. q \in Nat
  BY BoundsAssumption DEF Quantities
<1>2. reserved' \in [Positions -> Int]
  BY <1>1 DEF TypeOK, Reserve
<1>3. reservations' \in [ReservationIds -> Reservation \union {None}]
  <2>1. [status |-> "active", at |-> p, quantity |-> q, customer |-> c] \in Reservation
    BY DEF Reservation
  <2>2. QED
    BY <2>1 DEF TypeOK, Reserve
<1>4. QED
  BY <1>2, <1>3 DEF TypeOK, Reserve, counting, master

\* The terms of an active reservation are those of a row.
LEMMA ActiveTerms ==
  ASSUME TypeOK, NEW r \in ReservationIds, Active(r)
  PROVE  /\ reservations[r] \in Reservation
         /\ reservations[r].at \in Positions
         /\ reservations[r].quantity \in Quantities
         /\ reservations[r].quantity \in Nat
         /\ reservations[r].customer \in Customers
<1>1. reservations[r] \in Reservation
  BY DEF TypeOK, Active
<1>2. QED
  BY <1>1, BoundsAssumption DEF Reservation, Quantities

\* Settling a reservation changes its status only.
LEMMA SettledReservation ==
  ASSUME TypeOK, NEW r \in ReservationIds, Active(r), NEW s \in {"released", "fulfilled"},
         reservations' = [reservations EXCEPT ![r].status = s]
  PROVE  /\ reservations' \in [ReservationIds -> Reservation \union {None}]
         /\ \A o \in ReservationIds : o # r => reservations'[o] = reservations[o]
         /\ reservations'[r] # None
         /\ reservations'[r].status = s
         /\ reservations'[r].at = reservations[r].at
         /\ reservations'[r].quantity = reservations[r].quantity
         /\ reservations'[r].customer = reservations[r].customer
<1> DEFINE row == [reservations[r] EXCEPT !.status = s]
<1>1. reservations[r] \in Reservation
  BY ActiveTerms
<1>2. row \in Reservation
  BY <1>1 DEF Reservation
<1>3. /\ row.status = s /\ row.at = reservations[r].at
      /\ row.quantity = reservations[r].quantity /\ row.customer = reservations[r].customer
  BY <1>1 DEF Reservation
<1>4. reservations' = [reservations EXCEPT ![r] = row]
  OBVIOUS
<1>5. row # None
  BY <1>2, NoneAssumption
<1> HIDE DEF row
<1>6. QED
  BY <1>2, <1>3, <1>4, <1>5 DEF TypeOK

LEMMA TypeRelease ==
  ASSUME TypeOK, NEW r \in ReservationIds, ReleaseReservation(r)
  PROVE  TypeOK'
<1>1. Active(r)
  BY DEF ReleaseReservation
<1>2. reserved' \in [Positions -> Int]
  BY <1>1, ActiveTerms DEF TypeOK, ReleaseReservation
<1>3. reservations' \in [ReservationIds -> Reservation \union {None}]
  BY <1>1, SettledReservation DEF ReleaseReservation
<1>4. QED
  BY <1>2, <1>3 DEF TypeOK, ReleaseReservation, counting, master

LEMMA TypeIssueReserved ==
  ASSUME TypeOK, NEW r \in ReservationIds, NEW p \in Positions, NEW q \in Quantities,
         NEW c \in Customers, IssueReserved(r, p, q, c)
  PROVE  TypeOK'
<1>1. q \in Nat /\ p[1] \in Skus /\ p[2] \in Locations
  BY BoundsAssumption DEF Quantities, Positions
<1>2. onHand' \in [Positions -> Int] /\ reserved' \in [Positions -> Int]
  BY <1>1 DEF TypeOK, IssueReserved, Fulfil
<1>3. transactions' \in Seq(Transaction)
  BY <1>1, RowAppended DEF IssueReserved, Fulfil
<1>4. reservations' \in [ReservationIds -> Reservation \union {None}]
  BY SettledReservation DEF IssueReserved, Fulfil
<1>5. QED
  BY <1>2, <1>3, <1>4 DEF TypeOK, IssueReserved, Fulfil, counting, master

LEMMA TypeTransfer ==
  ASSUME TypeOK, NEW sku \in Skus, NEW from \in Locations, NEW to \in Locations,
         NEW q \in Quantities, Transfer(sku, from, to, q)
  PROVE  TypeOK'
<1>1. q \in Nat /\ <<sku, from>> \in Positions /\ <<sku, to>> \in Positions
  BY BoundsAssumption DEF Quantities, Positions
<1>2. onHand' \in [Positions -> Int]
  <2> DEFINE out == <<sku, from>>
             into == <<sku, to>>
  <2>1. onHand' = [onHand EXCEPT ![out] = onHand[out] - q, ![into] = onHand[into] + q]
    BY DEF Transfer
  <2>2. out \in Positions /\ into \in Positions
    BY <1>1
  <2> HIDE DEF out, into
  <2>3. QED
    BY <1>1, <2>1, <2>2 DEF TypeOK
<1>3. transactions' \in Seq(Transaction)
  BY <1>1, RowAppended DEF Transfer
<1>4. QED
  BY <1>2, <1>3 DEF TypeOK, Transfer, counting, master

LEMMA TypeCountAndReconcile ==
  ASSUME TypeOK, NEW n \in CountIds, NEW p \in Positions, NEW counted \in Nat,
         CountAndReconcile(n, p, counted)
  PROVE  TypeOK'
<1>1. counted - onHand[p] \in Int /\ p[1] \in Skus /\ p[2] \in Locations
  BY DEF TypeOK, Positions
<1>2. onHand' \in [Positions -> Int]
  BY DEF TypeOK, CountAndReconcile
<1>3. transactions' \in Seq(Transaction)
  BY <1>1, RowAppended, MagnitudeIsNat DEF CountAndReconcile
<1>4. counts' \in [CountIds -> Count \union {None}]
  BY <1>1 DEF TypeOK, CountAndReconcile, Count
<1>5. QED
  BY <1>2, <1>3, <1>4 DEF TypeOK, CountAndReconcile, master

LEMMA TypeStageCount ==
  ASSUME TypeOK, NEW n \in CountIds, NEW p \in Positions, NEW counted \in Nat,
         NEW a \in Actors, StageCount(n, p, counted, a)
  PROVE  TypeOK'
<1>1. [status |-> "pending_confirmation", at |-> p, onHand |-> onHand[p],
       reserved |-> reserved[p], counted |-> counted, actor |-> a] \in StagedCount
  BY DEF TypeOK, StagedCount
<1>2. staged' \in [CountIds -> StagedCount \union {None}]
  BY <1>1 DEF TypeOK, StageCount
<1>3. QED
  BY <1>2 DEF TypeOK, StageCount, balances, master

\* Closing a staged count changes its status only.
LEMMA ClosedCount ==
  ASSUME TypeOK, NEW n \in CountIds, Pending(n), NEW s \in {"confirmed", "cancelled"},
         staged' = [staged EXCEPT ![n].status = s]
  PROVE  /\ staged[n] \in StagedCount
         /\ staged' \in [CountIds -> StagedCount \union {None}]
         /\ \A m \in CountIds : m # n => staged'[m] = staged[m]
         /\ staged'[n] # None /\ staged'[n].status = s
         /\ staged'[n].at = staged[n].at
         /\ staged'[n].onHand = staged[n].onHand
         /\ staged'[n].counted = staged[n].counted
<1> DEFINE row == [staged[n] EXCEPT !.status = s]
<1>1. staged[n] \in StagedCount
  BY DEF TypeOK, Pending
<1>2. row \in StagedCount
  BY <1>1 DEF StagedCount
<1>3. /\ row.status = s /\ row.at = staged[n].at
      /\ row.onHand = staged[n].onHand /\ row.counted = staged[n].counted
  BY <1>1 DEF StagedCount
<1>4. staged' = [staged EXCEPT ![n] = row]
  OBVIOUS
<1>5. row # None
  BY <1>2, NoneAssumption
<1> HIDE DEF row
<1>6. QED
  BY <1>1, <1>2, <1>3, <1>4, <1>5 DEF TypeOK

\* What the terms of a pending count are.
LEMMA PendingTerms ==
  ASSUME TypeOK, NEW n \in CountIds, Pending(n)
  PROVE  /\ staged[n].at \in Positions
         /\ staged[n].counted \in Nat
         /\ staged[n].at[1] \in Skus /\ staged[n].at[2] \in Locations
<1>1. staged[n] \in StagedCount
  BY DEF TypeOK, Pending
<1>2. QED
  BY <1>1 DEF StagedCount, Positions

LEMMA TypeConfirmCount ==
  ASSUME TypeOK, NEW n \in CountIds, NEW a \in Actors, ConfirmCount(n, a)
  PROVE  TypeOK'
<1> DEFINE p == staged[n].at
           variance == staged[n].counted - onHand[p]
<1>1. Pending(n)
  BY DEF ConfirmCount, Apply
<1>2. /\ p \in Positions /\ p[1] \in Skus /\ p[2] \in Locations
      /\ staged[n].counted \in Nat /\ variance \in Int
  BY <1>1, PendingTerms DEF TypeOK
<1>3. onHand' = [onHand EXCEPT ![p] = staged[n].counted]
  BY DEF ConfirmCount, Apply
<1>4. counts' = [counts EXCEPT ![n] = [at |-> p, variance |-> variance]]
  BY DEF ConfirmCount, Apply
<1>5. Append1("adjustment", p[1], Magnitude(variance), p[2], p[2], n)
        \/ UNCHANGED transactions
  BY DEF ConfirmCount, Apply
<1>6. staged' \in [CountIds -> StagedCount \union {None}]
  BY <1>1, ClosedCount DEF ConfirmCount, Apply
<1> HIDE DEF p, variance
<1>7. onHand' \in [Positions -> Int]
  BY <1>2, <1>3 DEF TypeOK
<1>8. counts' \in [CountIds -> Count \union {None}]
  BY <1>2, <1>4 DEF TypeOK, Count
<1>9. transactions' \in Seq(Transaction)
  BY <1>2, <1>5, RowAppended, MagnitudeIsNat DEF TypeOK
<1>10. QED
  BY <1>6, <1>7, <1>8, <1>9 DEF TypeOK, ConfirmCount, Apply, master

LEMMA TypeCancelCount ==
  ASSUME TypeOK, NEW n \in CountIds, NEW a \in Actors, CancelCount(n, a)
  PROVE  TypeOK'
<1>1. staged' \in [CountIds -> StagedCount \union {None}]
  BY ClosedCount DEF CancelCount
<1>2. QED
  BY <1>1 DEF TypeOK, CancelCount, balances, master

LEMMA TypeNext == TypeOK /\ [Next]_vars => TypeOK'
<1> SUFFICES ASSUME TypeOK, [Next]_vars PROVE TypeOK'
  OBVIOUS
<1>1. CASE UNCHANGED vars
  BY <1>1 DEF TypeOK, vars
<1>2. ASSUME NEW p \in Positions, NEW q \in Quantities, Receive(p, q) \/ ReturnStock(p, q)
      PROVE  TypeOK'
  BY <1>2, TypeReceive
<1>3. ASSUME NEW p \in Positions, NEW q \in Quantities, NEW c \in Customers, Issue(p, q, c)
      PROVE  TypeOK'
  BY <1>3, TypeIssue
<1>4. ASSUME NEW p \in Positions, NEW q \in Quantities, NEW c \in Customers,
             NEW r \in ReservationIds, Reserve(r, p, q, c)
      PROVE  TypeOK'
  BY <1>4, TypeReserve
<1>5. ASSUME NEW p \in Positions, NEW q \in Quantities, NEW c \in Customers,
             NEW r \in ReservationIds, IssueReserved(r, p, q, c)
      PROVE  TypeOK'
  BY <1>5, TypeIssueReserved
<1>6. ASSUME NEW r \in ReservationIds, ReleaseReservation(r)
      PROVE  TypeOK'
  BY <1>6, TypeRelease
<1>7. ASSUME NEW sku \in Skus, NEW from \in Locations, NEW to \in Locations,
             NEW q \in Quantities, Transfer(sku, from, to, q)
      PROVE  TypeOK'
  BY <1>7, TypeTransfer
<1>8. ASSUME NEW n \in CountIds, NEW p \in Positions, NEW counted \in 0 .. MaxQuantity,
             CountAndReconcile(n, p, counted)
      PROVE  TypeOK'
  BY <1>8, TypeCountAndReconcile, BoundsAssumption
<1>9. ASSUME NEW n \in CountIds, NEW p \in Positions, NEW counted \in 0 .. MaxQuantity,
             NEW a \in Actors, StageCount(n, p, counted, a)
      PROVE  TypeOK'
  BY <1>9, TypeStageCount, BoundsAssumption
<1>10. ASSUME NEW n \in CountIds, NEW a \in Actors, ConfirmCount(n, a) \/ CancelCount(n, a)
       PROVE  TypeOK'
  BY <1>10, TypeConfirmCount, TypeCancelCount
<1>11. ASSUME NEW c \in Customers, NEW active \in BOOLEAN, SetCustomerActive(c, active)
       PROVE  TypeOK'
  BY <1>11 DEF TypeOK, SetCustomerActive, balances, counting
<1>12. ASSUME NEW l \in Locations, NEW active \in BOOLEAN, SetLocationActive(l, active)
       PROVE  TypeOK'
  BY <1>12 DEF TypeOK, SetLocationActive, balances, counting
<1>13. ASSUME NEW s \in Skus, NEW active \in BOOLEAN, SetItemActive(s, active)
       PROVE  TypeOK'
  BY <1>13 DEF TypeOK, SetItemActive, balances, counting
<1>14. QED
  BY <1>1, <1>2, <1>3, <1>4, <1>5, <1>6, <1>7, <1>8, <1>9, <1>10, <1>11, <1>12, <1>13
     DEF Next

\* Every operation of quantity stock keeps the tables well formed.
THEOREM TypeCorrect == Spec => []TypeOK
<1>1. QED
  BY TypeInit, TypeNext, PTL DEF Spec

-----------------------------------------------------------------------------
(* The cached column reserved and the reservation table.                   *)

HeldFinite == \A p \in Positions : IsFiniteSet(Units(Held(p), ReservedBy))

\* A new row adds its quantity at its position and nowhere else.
LEMMA HoldAdded ==
  ASSUME TypeOK, HeldFinite, NEW r \in ReservationIds, NEW p \in Positions,
         NEW q \in Quantities, NEW c \in Customers, reservations[r] = None,
         reservations' = [reservations EXCEPT ![r] =
           [status |-> "active", at |-> p, quantity |-> q, customer |-> c]]
  PROVE  /\ HeldFinite'
         /\ Total(Held(p), ReservedBy)' = Total(Held(p), ReservedBy) + q
         /\ \A x \in Positions : x # p =>
              Total(Held(x), ReservedBy)' = Total(Held(x), ReservedBy)
<1> DEFINE row == [status |-> "active", at |-> p, quantity |-> q, customer |-> c]
<1>1. row # None /\ row.status = "active" /\ row.at = p /\ row.quantity = q
  <2>1. row \in Reservation
    BY DEF Reservation
  <2>2. QED
    BY <2>1, NoneAssumption
<1>2. /\ reservations'[r] = row
      /\ \A o \in ReservationIds : o # r => reservations'[o] = reservations[o]
  BY DEF TypeOK
<1> HIDE DEF row
<1>3. Held(p)' = Held(p) \union {r} /\ r \notin Held(p)
  BY <1>1, <1>2 DEF Held, Active
<1>4. \A x \in Positions : x # p => Held(x)' = Held(x)
  BY <1>1, <1>2 DEF Held, Active
<1>5. \A o \in ReservationIds : o # r => ReservedBy'[o] = ReservedBy[o]
  BY <1>2 DEF ReservedBy
<1>6. ReservedBy'[r] = q /\ q \in Nat
  BY <1>1, <1>2, BoundsAssumption DEF ReservedBy, Quantities
<1>7. \A x \in Positions : \A o \in Held(x) : ReservedBy'[o] = ReservedBy[o]
  BY <1>5 DEF Held, Active
<1>8. \A x \in Positions : /\ Units(Held(x), ReservedBy') = Units(Held(x), ReservedBy)
                           /\ Total(Held(x), ReservedBy') = Total(Held(x), ReservedBy)
  BY <1>7, TotalSameWeights
<1>9. /\ IsFiniteSet(Units(Held(p) \union {r}, ReservedBy'))
      /\ Total(Held(p) \union {r}, ReservedBy') = Total(Held(p), ReservedBy') + ReservedBy'[r]
  <2>1. IsFiniteSet(Units(Held(p), ReservedBy'))
    BY <1>8 DEF HeldFinite
  <2>2. QED
    BY <2>1, <1>3, <1>6, TotalAdd
<1>10. \A x \in Positions : /\ Units(Held(x), ReservedBy)' = Units(Held(x)', ReservedBy')
                            /\ Total(Held(x), ReservedBy)' = Total(Held(x)', ReservedBy')
  BY DEF Units, Total
<1>11. HeldFinite'
  BY <1>3, <1>4, <1>8, <1>9, <1>10 DEF HeldFinite
<1>12. Total(Held(p), ReservedBy)' = Total(Held(p), ReservedBy) + q
  BY <1>3, <1>6, <1>8, <1>9, <1>10
<1>13. QED
  BY <1>4, <1>8, <1>10, <1>11, <1>12

\* A settled row takes its quantity along, which was part of the total.
LEMMA HoldSettled ==
  ASSUME TypeOK, HeldFinite, NEW r \in ReservationIds, Active(r),
         NEW s \in {"released", "fulfilled"},
         reservations' = [reservations EXCEPT ![r].status = s],
         NEW p \in Positions, NEW q \in Quantities,
         p = reservations[r].at, q = reservations[r].quantity
  PROVE  /\ HeldFinite'
         /\ Total(Held(p), ReservedBy)' = Total(Held(p), ReservedBy) - q
         /\ q <= Total(Held(p), ReservedBy)
         /\ \A x \in Positions : x # p =>
              Total(Held(x), ReservedBy)' = Total(Held(x), ReservedBy)
<1>1. /\ p \in Positions /\ q \in Nat /\ reservations[r] # None
      /\ reservations[r].status = "active"
  BY ActiveTerms DEF Active
<1>2. /\ reservations'[r] # None /\ reservations'[r].status = s
      /\ reservations'[r].quantity = q
      /\ \A o \in ReservationIds : o # r => reservations'[o] = reservations[o]
  BY SettledReservation
<1>3. r \in Held(p)
  BY DEF Held
<1>4. Held(p)' = Held(p) \ {r}
  BY <1>2 DEF Held, Active
<1>5. \A x \in Positions : x # p => Held(x)' = Held(x)
  BY <1>2 DEF Held, Active
<1>6. \A o \in ReservationIds : ReservedBy'[o] = ReservedBy[o]
  BY <1>1, <1>2 DEF ReservedBy
<1>7. ReservedBy[r] = q
  BY <1>1 DEF ReservedBy
<1>8. /\ IsFiniteSet(Units(Held(p) \ {r}, ReservedBy))
      /\ Total(Held(p) \ {r}, ReservedBy) = Total(Held(p), ReservedBy) - ReservedBy[r]
      /\ ReservedBy[r] <= Total(Held(p), ReservedBy)
  <2>1. IsFiniteSet(Units(Held(p), ReservedBy)) /\ ReservedBy[r] \in Nat
    BY <1>1, <1>7 DEF HeldFinite
  <2>2. QED
    BY <2>1, <1>3, TotalRemove
<1>9. \A x \in Positions : /\ Units(Held(x)', ReservedBy') = Units(Held(x)', ReservedBy)
                           /\ Total(Held(x)', ReservedBy') = Total(Held(x)', ReservedBy)
  <2>1. \A x \in Positions : \A o \in Held(x)' : ReservedBy'[o] = ReservedBy[o]
    BY <1>6 DEF Held
  <2>2. QED
    BY <2>1, TotalSameWeights
<1>10. \A x \in Positions : /\ Units(Held(x), ReservedBy)' = Units(Held(x)', ReservedBy')
                            /\ Total(Held(x), ReservedBy)' = Total(Held(x)', ReservedBy')
  BY DEF Units, Total
<1>11. HeldFinite'
  BY <1>4, <1>5, <1>8, <1>9, <1>10 DEF HeldFinite
<1>12. /\ Total(Held(p), ReservedBy)' = Total(Held(p), ReservedBy) - q
       /\ q <= Total(Held(p), ReservedBy)
  BY <1>1, <1>4, <1>7, <1>8, <1>9, <1>10
<1>13. \A x \in Positions : x # p => Total(Held(x), ReservedBy)' = Total(Held(x), ReservedBy)
  BY <1>5, <1>9, <1>10
<1>14. QED
  BY <1>11, <1>12, <1>13

\* Steps that leave the reservation table alone.
LEMMA HoldsUnchanged ==
  ASSUME HeldFinite, UNCHANGED reservations
  PROVE  /\ HeldFinite'
         /\ \A p \in Positions : Total(Held(p), ReservedBy)' = Total(Held(p), ReservedBy)
<1>1. \A p \in Positions : Held(p)' = Held(p) /\ ReservedBy' = ReservedBy
  BY DEF Held, ReservedBy, Active
<1>2. \A p \in Positions : Units(Held(p), ReservedBy)' = Units(Held(p), ReservedBy)
  BY <1>1 DEF Units
<1>3. QED
  BY <1>2 DEF HeldFinite, Total

\* Only three operations touch the two tables that must agree.
LEMMA WhoTouchesHolds ==
  ASSUME [Next]_vars
  PROVE  \/ UNCHANGED <<reserved, reservations>>
         \/ \E r \in ReservationIds, p \in Positions, q \in Quantities, c \in Customers :
              Reserve(r, p, q, c) \/ IssueReserved(r, p, q, c)
         \/ \E r \in ReservationIds : ReleaseReservation(r)
<1>1. CASE UNCHANGED vars
  BY <1>1 DEF vars
<1>2. CASE \E p \in Positions, q \in Quantities : Receive(p, q) \/ ReturnStock(p, q)
  BY <1>2 DEF Receive, ReturnStock
<1>3. CASE \E p \in Positions, q \in Quantities, c \in Customers : Issue(p, q, c)
  BY <1>3 DEF Issue
<1>4. CASE \E sku \in Skus, from, to \in Locations, q \in Quantities : Transfer(sku, from, to, q)
  BY <1>4 DEF Transfer
<1>5. CASE \E n \in CountIds, p \in Positions, counted \in 0 .. MaxQuantity :
             \/ CountAndReconcile(n, p, counted)
             \/ \E a \in Actors : StageCount(n, p, counted, a)
  BY <1>5 DEF CountAndReconcile, StageCount, balances
<1>6. CASE \E n \in CountIds, a \in Actors : ConfirmCount(n, a) \/ CancelCount(n, a)
  BY <1>6 DEF ConfirmCount, Apply, CancelCount, balances
<1>7. CASE \E active \in BOOLEAN :
             \/ \E s \in Skus : SetItemActive(s, active)
             \/ \E c \in Customers : SetCustomerActive(c, active)
             \/ \E l \in Locations : SetLocationActive(l, active)
  BY <1>7 DEF SetItemActive, SetCustomerActive, SetLocationActive, balances
<1>8. QED
  BY <1>1, <1>2, <1>3, <1>4, <1>5, <1>6, <1>7 DEF Next

Backed == HeldFinite /\ ReservedIsHeld

LEMMA BackedInit == Init => Backed
<1> SUFFICES ASSUME Init PROVE Backed
  OBVIOUS
<1>1. \A p \in Positions : Held(p) = {}
  BY DEF Init, Held, Active
<1>2. QED
  BY <1>1, TotalOfNone DEF Init, Backed, HeldFinite, ReservedIsHeld

LEMMA BackedNext == TypeOK /\ Backed /\ [Next]_vars => Backed'
<1> SUFFICES ASSUME TypeOK, Backed, [Next]_vars PROVE Backed'
  OBVIOUS
<1> USE DEF Backed
<1>1. CASE UNCHANGED <<reserved, reservations>>
  BY <1>1, HoldsUnchanged DEF ReservedIsHeld
<1>2. ASSUME NEW r \in ReservationIds, NEW p \in Positions, NEW q \in Quantities,
             NEW c \in Customers, Reserve(r, p, q, c)
      PROVE  Backed'
  <2>1. /\ reserved' = [reserved EXCEPT ![p] = @ + q]
        /\ reserved \in [Positions -> Int]
    BY <1>2 DEF Reserve, TypeOK
  <2>2. /\ HeldFinite'
        /\ Total(Held(p), ReservedBy)' = Total(Held(p), ReservedBy) + q
        /\ \A x \in Positions : x # p =>
             Total(Held(x), ReservedBy)' = Total(Held(x), ReservedBy)
    BY <1>2, HoldAdded DEF Reserve
  <2>3. QED
    BY <2>1, <2>2 DEF ReservedIsHeld
<1>3. ASSUME NEW r \in ReservationIds, NEW p \in Positions, NEW q \in Quantities,
             NEW s \in {"released", "fulfilled"},
             Active(r), p = reservations[r].at, q = reservations[r].quantity,
             reservations' = [reservations EXCEPT ![r].status = s],
             reserved' = [reserved EXCEPT ![p] = @ - q]
      PROVE  Backed'
  <2>1. /\ HeldFinite'
        /\ Total(Held(p), ReservedBy)' = Total(Held(p), ReservedBy) - q
        /\ \A x \in Positions : x # p =>
             Total(Held(x), ReservedBy)' = Total(Held(x), ReservedBy)
    BY <1>3, HoldSettled
  <2>2. QED
    BY <1>3, <2>1 DEF ReservedIsHeld, TypeOK
<1>4. ASSUME NEW r \in ReservationIds, ReleaseReservation(r)
      PROVE  Backed'
  <2>1. /\ Active(r)
        /\ reserved' = [reserved EXCEPT ![reservations[r].at] = @ - reservations[r].quantity]
        /\ reservations' = [reservations EXCEPT ![r].status = "released"]
    BY <1>4 DEF ReleaseReservation
  <2>2. reservations[r].at \in Positions /\ reservations[r].quantity \in Quantities
    BY <2>1, ActiveTerms
  <2>3. QED
    BY <1>3, <2>1, <2>2
<1>5. ASSUME NEW r \in ReservationIds, NEW p \in Positions, NEW q \in Quantities,
             NEW c \in Customers, IssueReserved(r, p, q, c)
      PROVE  Backed'
  <2>1. /\ Active(r) /\ p = reservations[r].at /\ q = reservations[r].quantity
        /\ reserved' = [reserved EXCEPT ![p] = @ - q]
        /\ reservations' = [reservations EXCEPT ![r].status = "fulfilled"]
    BY <1>5 DEF IssueReserved, Fulfil
  <2>2. QED
    BY <1>3, <2>1
<1>6. QED
  BY <1>1, <1>2, <1>4, <1>5, WhoTouchesHolds

\* The cached column reserved always equals the sum of the active
\* reservations of its position.
THEOREM ReservedMatchesReservations == Spec => []ReservedIsHeld
<1>1. Init => TypeOK /\ Backed
  BY TypeInit, BackedInit
<1>2. TypeOK /\ Backed /\ [Next]_vars => (TypeOK /\ Backed)'
  BY TypeNext, BackedNext
<1>3. Backed => ReservedIsHeld
  BY DEF Backed
<1>4. QED
  BY <1>1, <1>2, <1>3, PTL DEF Spec

-----------------------------------------------------------------------------
(* Reserved units are never given away.                                    *)

\* What is reserved is a natural number, and a settled claim was part of it.
LEMMA SettledIsReserved ==
  ASSUME TypeOK, Backed, NEW r \in ReservationIds, Active(r)
  PROVE  reservations[r].quantity <= reserved[reservations[r].at]
<1> DEFINE p == reservations[r].at
<1>1. p \in Positions /\ reservations[r].quantity \in Nat /\ reservations[r] # None
  BY ActiveTerms DEF Active
<1>2. r \in Held(p)
  BY DEF Held
<1>3. ReservedBy[r] = reservations[r].quantity
  BY <1>1 DEF ReservedBy
<1> HIDE DEF p
<1>4. IsFiniteSet(Units(Held(p), ReservedBy)) /\ reserved[p] = Total(Held(p), ReservedBy)
  BY <1>1 DEF Backed, HeldFinite, ReservedIsHeld
<1>5. ReservedBy[r] <= Total(Held(p), ReservedBy)
  BY <1>1, <1>2, <1>3, <1>4, TotalRemove
<1>6. QED
  BY <1>3, <1>4, <1>5 DEF p

\* What is reserved at a position is there.
Covered == \A p \in Positions : 0 <= reserved[p] /\ reserved[p] <= onHand[p]

LEMMA CoveredNext ==
  ASSUME TypeOK, Backed, Covered, [Next]_vars,
         ~ \E n \in CountIds, p \in Positions, counted \in 0 .. MaxQuantity :
             CountAndReconcile(n, p, counted)
  PROVE  Covered'
<1> USE DEF TypeOK
<1>1. CASE UNCHANGED balances
  BY <1>1 DEF balances, Covered
<1>2. ASSUME NEW p \in Positions, NEW q \in Quantities, Receive(p, q) \/ ReturnStock(p, q)
      PROVE  Covered'
  <2>1. q \in Nat
    BY BoundsAssumption DEF Quantities
  <2>2. onHand' = [onHand EXCEPT ![p] = @ + q] /\ reserved' = reserved
    BY <1>2 DEF Receive, ReturnStock
  <2>3. QED
    BY <2>1, <2>2 DEF Covered
<1>3. ASSUME NEW p \in Positions, NEW q \in Quantities, NEW c \in Customers, Issue(p, q, c)
      PROVE  Covered'
  BY <1>3, BoundsAssumption DEF Issue, Available, Covered, Quantities
<1>4. ASSUME NEW p \in Positions, NEW q \in Quantities, NEW c \in Customers,
             NEW r \in ReservationIds, Reserve(r, p, q, c)
      PROVE  Covered'
  BY <1>4, BoundsAssumption DEF Reserve, Available, Covered, Quantities
<1>5. ASSUME NEW p \in Positions, NEW q \in Quantities, NEW c \in Customers,
             NEW r \in ReservationIds, IssueReserved(r, p, q, c)
      PROVE  Covered'
  <2>1. Active(r) /\ reservations[r].at = p /\ reservations[r].quantity = q
    BY <1>5 DEF IssueReserved, Fulfil
  <2>2. q <= reserved[p] /\ q \in Nat
    BY <2>1, SettledIsReserved, BoundsAssumption DEF Quantities
  <2>3. /\ onHand' = [onHand EXCEPT ![p] = @ - q]
        /\ reserved' = [reserved EXCEPT ![p] = @ - q]
    BY <1>5 DEF IssueReserved, Fulfil
  <2>4. QED
    BY <2>2, <2>3 DEF Covered
<1>6. ASSUME NEW r \in ReservationIds, ReleaseReservation(r)
      PROVE  Covered'
  <2>1. Active(r)
    BY <1>6 DEF ReleaseReservation
  <2>2. /\ reservations[r].at \in Positions /\ reservations[r].quantity \in Nat
        /\ reservations[r].quantity <= reserved[reservations[r].at]
    BY <2>1, ActiveTerms, SettledIsReserved
  <2>3. QED
    BY <1>6, <2>2 DEF ReleaseReservation, Covered
<1>7. ASSUME NEW sku \in Skus, NEW from \in Locations, NEW to \in Locations,
             NEW q \in Quantities, Transfer(sku, from, to, q)
      PROVE  Covered'
  <2> DEFINE out == <<sku, from>>
             into == <<sku, to>>
  <2>1. /\ onHand' = [onHand EXCEPT ![out] = onHand[out] - q, ![into] = onHand[into] + q]
        /\ onHand[out] - reserved[out] >= q /\ reserved' = reserved
    BY <1>7 DEF Transfer, Available
  <2>2. out \in Positions /\ into \in Positions /\ out # into /\ q \in Nat
    BY <1>7, BoundsAssumption DEF Positions, Transfer, Quantities
  <2> HIDE DEF out, into
  <2>3. /\ onHand'[out] = onHand[out] - q /\ onHand'[into] = onHand[into] + q
        /\ \A x \in Positions : x # out /\ x # into => onHand'[x] = onHand[x]
    BY <2>1, <2>2
  <2>4. ASSUME NEW x \in Positions
        PROVE  0 <= reserved'[x] /\ reserved'[x] <= onHand'[x]
    <3>1. /\ reserved'[x] = reserved[x] /\ reserved[x] \in Int /\ onHand[x] \in Int
          /\ 0 <= reserved[x] /\ reserved[x] <= onHand[x]
      BY <2>1 DEF Covered
    <3>2. CASE x = out
      BY <2>1, <2>2, <2>3, <3>1, <3>2
    <3>3. CASE x = into
      BY <2>2, <2>3, <3>1, <3>3
    <3>4. QED
      BY <2>3, <3>1, <3>2, <3>3
  <2>5. QED
    BY <2>4 DEF Covered
<1>8. ASSUME NEW n \in CountIds, NEW a \in Actors, ConfirmCount(n, a)
      PROVE  Covered'
  <2> DEFINE p == staged[n].at
             counted == staged[n].counted
  <2>1. p \in Positions /\ counted \in Nat
    BY <1>8, PendingTerms DEF ConfirmCount, Apply
  <2>2. onHand' = [onHand EXCEPT ![p] = counted] /\ counted >= reserved[p] /\ reserved' = reserved
    BY <1>8 DEF ConfirmCount, Apply
  <2> HIDE DEF p, counted
  <2>3. QED
    BY <2>1, <2>2 DEF Covered
<1>9. ASSUME NEW n \in CountIds, NEW p \in Positions, NEW counted \in 0 .. MaxQuantity,
             NEW a \in Actors, StageCount(n, p, counted, a)
      PROVE  UNCHANGED balances
  BY <1>9 DEF StageCount
<1>10. ASSUME \/ \E n \in CountIds, a \in Actors : CancelCount(n, a)
              \/ \E s \in Skus, active \in BOOLEAN : SetItemActive(s, active)
              \/ \E c \in Customers, active \in BOOLEAN : SetCustomerActive(c, active)
              \/ \E l \in Locations, active \in BOOLEAN : SetLocationActive(l, active)
              \/ UNCHANGED vars
       PROVE  UNCHANGED balances
  BY <1>10 DEF CancelCount, SetItemActive, SetCustomerActive, SetLocationActive, vars, balances
<1>11. QED
  BY <1>1, <1>2, <1>3, <1>4, <1>5, <1>6, <1>7, <1>8, <1>9, <1>10 DEF Next

\* The one-step count leaves a count nobody staged, ...
LEMMA DirectCountShows ==
  ASSUME TypeOK, NEW n \in CountIds, NEW p \in Positions, NEW counted \in 0 .. MaxQuantity,
         CountAndReconcile(n, p, counted)
  PROVE  DirectCounts' # {}
<1>1. counted - onHand[p] \in Int
  BY BoundsAssumption DEF TypeOK
<1>2. counts'[n] \in Count
  BY <1>1 DEF CountAndReconcile, TypeOK, Count
<1>3. staged'[n] = None
  BY DEF CountAndReconcile, Unused
<1>4. QED
  BY <1>2, <1>3, NoneAssumption DEF DirectCounts

\* ... which stays: an applied count is never taken back, and its id is not
\* staged any more.
LEMMA DirectCountsStay ==
  ASSUME TypeOK, [Next]_vars, DirectCounts' = {}
  PROVE  DirectCounts = {}
<1> SUFFICES ASSUME NEW m \in CountIds, counts[m] # None, staged[m] = None
             PROVE  counts'[m] # None /\ staged'[m] = None
  BY DEF DirectCounts
<1> USE DEF TypeOK
<1>1. CASE UNCHANGED counting
  BY <1>1 DEF counting
<1>2. ASSUME NEW n \in CountIds, NEW p \in Positions, NEW counted \in 0 .. MaxQuantity,
             CountAndReconcile(n, p, counted)
      PROVE  counts'[m] # None /\ staged'[m] = None
  BY <1>2 DEF CountAndReconcile, Unused
<1>3. ASSUME NEW n \in CountIds, NEW p \in Positions, NEW counted \in 0 .. MaxQuantity,
             NEW a \in Actors, StageCount(n, p, counted, a)
      PROVE  counts'[m] # None /\ staged'[m] = None
  BY <1>3 DEF StageCount, Unused
<1>4. ASSUME NEW n \in CountIds, NEW a \in Actors, ConfirmCount(n, a)
      PROVE  counts'[m] # None /\ staged'[m] = None
  BY <1>4 DEF ConfirmCount, Pending, Apply
<1>5. ASSUME NEW n \in CountIds, NEW a \in Actors, CancelCount(n, a)
      PROVE  counts'[m] # None /\ staged'[m] = None
  BY <1>5 DEF CancelCount, Pending
<1>6. ASSUME NEW p \in Positions, NEW q \in Quantities,
             \/ Receive(p, q) \/ ReturnStock(p, q)
             \/ \E c \in Customers :
                  \/ Issue(p, q, c)
                  \/ \E r \in ReservationIds : Reserve(r, p, q, c) \/ IssueReserved(r, p, q, c)
      PROVE  UNCHANGED counting
  BY <1>6 DEF Receive, ReturnStock, Issue, Reserve, IssueReserved, Fulfil, counting
<1>7. ASSUME \/ \E r \in ReservationIds : ReleaseReservation(r)
             \/ \E sku \in Skus, from, to \in Locations, q \in Quantities : Transfer(sku, from, to, q)
             \/ \E s \in Skus, active \in BOOLEAN : SetItemActive(s, active)
             \/ \E c \in Customers, active \in BOOLEAN : SetCustomerActive(c, active)
             \/ \E l \in Locations, active \in BOOLEAN : SetLocationActive(l, active)
             \/ UNCHANGED vars
      PROVE  UNCHANGED counting
  BY <1>7 DEF ReleaseReservation, Transfer, SetItemActive, SetCustomerActive, SetLocationActive,
       vars, counting
<1>8. QED
  BY <1>1, <1>2, <1>3, <1>4, <1>5, <1>6, <1>7 DEF Next

\* Until somebody uses the one-step count, no operation takes a unit an active
\* reservation holds.
THEOREM NoOversell == Spec => []ReservedCovered
<1> DEFINE Safe == TypeOK /\ Backed /\ ReservedCovered
<1>1. Init => Safe
  BY TypeInit, BackedInit DEF Init, ReservedCovered
<1>2. ASSUME Safe, [Next]_vars
      PROVE  Safe'
  <2>1. ASSUME DirectCounts' = {}
        PROVE  Covered'
    <3>1. Covered
      BY <1>2, <2>1, DirectCountsStay DEF ReservedCovered, Covered
    <3>2. ~ \E n \in CountIds, p \in Positions, counted \in 0 .. MaxQuantity :
              CountAndReconcile(n, p, counted)
      BY <1>2, <2>1, DirectCountShows
    <3>3. QED
      BY <1>2, <3>1, <3>2, CoveredNext
  <2>2. ReservedCovered'
    BY <2>1 DEF ReservedCovered, Covered
  <2>3. QED
    BY <1>2, <2>2, TypeNext, BackedNext
<1>3. Safe => ReservedCovered
  OBVIOUS
<1> HIDE DEF Safe
<1>4. QED
  BY <1>1, <1>2, <1>3, PTL DEF Spec

-----------------------------------------------------------------------------
(* The transaction table and the balances.                                 *)

\* An adjustment row refers to a count that was applied; other rows to none.
RowsRefer ==
  \A i \in DOMAIN transactions :
    IF transactions[i].type = "adjustment"
      THEN transactions[i].reference \in CountIds /\ counts[transactions[i].reference] # None
      ELSE transactions[i].reference = None

LedgerFinite ==
  \A p \in Positions :
    IsFiniteSet(Units(Arrivals(p), Moved)) /\ IsFiniteSet(Units(Departures(p), Moved))

Explained == RowsRefer /\ LedgerFinite /\ LedgerExplainsStock

\* A row joins a set of rows or does not; the weights of the others stay.
LEMMA TotalGrows ==
  ASSUME NEW S, NEW w, NEW v, NEW new, new \notin S, \A i \in S : v[i] = w[i],
         v[new] \in Nat, IsFiniteSet(Units(S, w))
  PROVE  /\ IsFiniteSet(Units(S, v)) /\ Total(S, v) = Total(S, w)
         /\ IsFiniteSet(Units(S \union {new}, v))
         /\ Total(S \union {new}, v) = Total(S, w) + v[new]
         /\ Total(S, w) \in Nat
<1>1. Units(S, v) = Units(S, w) /\ Total(S, v) = Total(S, w)
  BY TotalSameWeights
<1>2. /\ IsFiniteSet(Units(S \union {new}, v))
      /\ Total(S \union {new}, v) = Total(S, v) + v[new]
  BY <1>1, TotalAdd
<1>3. Total(S, w) \in Nat
  BY FS_CardinalityType DEF Total
<1>4. QED
  BY <1>1, <1>2, <1>3

\* Whether a new row brings units to position x, or takes units from it; v is
\* the variance of the count an adjustment refers to.
Brings(x, type, sku, to, v) ==
  /\ sku = x[1] /\ to = x[2]
  /\ \/ type \in {"receive", "return", "transfer"}
     \/ type = "adjustment" /\ v > 0
Takes(x, type, sku, from, v) ==
  /\ sku = x[1] /\ from = x[2]
  /\ \/ type \in {"issue", "transfer"}
     \/ type = "adjustment" /\ v < 0

\* A step that writes one row, which may be the adjustment of a count it applies.
Posts(type, sku, q, from, to, ref, v) ==
  /\ Append1(type, sku, q, from, to, ref)
  /\ type \in {"receive", "issue", "return", "transfer", "adjustment"}
  /\ sku \in Skus /\ q \in Nat
  /\ from \in Locations \union {None} /\ to \in Locations \union {None}
  /\ IF type = "adjustment"
       THEN ref \in CountIds /\ counts'[ref] # None /\ counts'[ref].variance = v
       ELSE ref = None
  /\ \A n \in CountIds : counts[n] # None => counts'[n] = counts[n]

\* A new row changes the two totals of every position by what it brings there
\* and takes from there.
LEMMA LedgerGrows ==
  ASSUME TypeOK, RowsRefer, LedgerFinite,
         NEW type, NEW sku, NEW q, NEW from, NEW to, NEW ref, NEW v,
         Posts(type, sku, q, from, to, ref, v)
  PROVE  /\ RowsRefer'
         /\ LedgerFinite'
         /\ \A x \in Positions :
              /\ Total(Arrivals(x), Moved)'
                   = Total(Arrivals(x), Moved) + (IF Brings(x, type, sku, to, v) THEN q ELSE 0)
              /\ Total(Departures(x), Moved)'
                   = Total(Departures(x), Moved) + (IF Takes(x, type, sku, from, v) THEN q ELSE 0)
<1> DEFINE new == Len(transactions) + 1
           row == [type |-> type, sku |-> sku, quantity |-> q,
                   from |-> from, to |-> to, reference |-> ref]
<1>1. /\ DOMAIN transactions' = DOMAIN transactions \union {new}
      /\ new \notin DOMAIN transactions
      /\ \A i \in DOMAIN transactions : transactions'[i] = transactions[i]
      /\ transactions'[new] = row
  <2>1. row \in Transaction
    BY DEF Transaction, Posts
  <2>2. transactions' = Append(transactions, row) /\ transactions \in Seq(Transaction)
    BY DEF Append1, TypeOK, Posts
  <2> HIDE DEF row
  <2>3. QED
    BY <2>1, <2>2
<1>2. /\ row.type = type /\ row.sku = sku /\ row.quantity = q
      /\ row.from = from /\ row.to = to /\ row.reference = ref
  OBVIOUS
<1> USE DEF Posts
<1> HIDE DEF new, row
<1>3. RowsRefer'
  BY <1>1, <1>2 DEF RowsRefer
<1>4. \A i \in DOMAIN transactions :
        transactions[i].type = "adjustment" =>
          counts'[transactions[i].reference] = counts[transactions[i].reference]
  BY DEF RowsRefer
<1>5. /\ \A i \in DOMAIN transactions : Moved'[i] = Moved[i]
      /\ Moved'[new] = q
  BY <1>1, <1>2 DEF Moved
<1>6. ASSUME NEW x \in Positions
      PROVE  /\ IsFiniteSet(Units(Arrivals(x)', Moved'))
             /\ Total(Arrivals(x)', Moved')
                  = Total(Arrivals(x), Moved) + (IF Brings(x, type, sku, to, v) THEN q ELSE 0)
  <2> DEFINE joins == Brings(x, type, sku, to, v)
  <2>1. Arrivals(x)' = IF joins THEN Arrivals(x) \union {new} ELSE Arrivals(x)
    BY <1>1, <1>2, <1>4 DEF Arrivals, Brings
  <2>2. new \notin Arrivals(x) /\ \A i \in Arrivals(x) : Moved'[i] = Moved[i]
    BY <1>1, <1>5 DEF Arrivals
  <2>3. IsFiniteSet(Units(Arrivals(x), Moved)) /\ Moved'[new] \in Nat
    BY <1>5 DEF LedgerFinite
  <2>4. /\ IsFiniteSet(Units(Arrivals(x), Moved'))
        /\ Total(Arrivals(x), Moved') = Total(Arrivals(x), Moved)
        /\ IsFiniteSet(Units(Arrivals(x) \union {new}, Moved'))
        /\ Total(Arrivals(x) \union {new}, Moved') = Total(Arrivals(x), Moved) + q
        /\ Total(Arrivals(x), Moved) \in Nat
    <3> DEFINE S == Arrivals(x)
               w == Moved
               u == Moved'
    <3>1. /\ new \notin S /\ \A i \in S : u[i] = w[i]
          /\ u[new] \in Nat /\ IsFiniteSet(Units(S, w)) /\ u[new] = q
      BY <1>5, <2>2, <2>3
    <3> HIDE DEF S, w, u
    <3>2. /\ IsFiniteSet(Units(S, u)) /\ Total(S, u) = Total(S, w)
          /\ IsFiniteSet(Units(S \union {new}, u))
          /\ Total(S \union {new}, u) = Total(S, w) + u[new]
          /\ Total(S, w) \in Nat
      BY <3>1, TotalGrows, Zenon
    <3>3. QED
      BY <3>1, <3>2, Zenon DEF S, w, u
  <2> HIDE DEF joins
  <2>5. /\ IsFiniteSet(Units(Arrivals(x)', Moved'))
        /\ Total(Arrivals(x)', Moved') = Total(Arrivals(x), Moved) + (IF joins THEN q ELSE 0)
    BY <2>1, <2>4
  <2>6. QED
    BY <2>5 DEF joins
<1>7. ASSUME NEW x \in Positions
      PROVE  /\ IsFiniteSet(Units(Departures(x)', Moved'))
             /\ Total(Departures(x)', Moved')
                  = Total(Departures(x), Moved) + (IF Takes(x, type, sku, from, v) THEN q ELSE 0)
  <2> DEFINE joins == Takes(x, type, sku, from, v)
  <2>1. Departures(x)' = IF joins THEN Departures(x) \union {new} ELSE Departures(x)
    BY <1>1, <1>2, <1>4 DEF Departures, Takes
  <2>2. new \notin Departures(x) /\ \A i \in Departures(x) : Moved'[i] = Moved[i]
    BY <1>1, <1>5 DEF Departures
  <2>3. IsFiniteSet(Units(Departures(x), Moved)) /\ Moved'[new] \in Nat
    BY <1>5 DEF LedgerFinite
  <2>4. /\ IsFiniteSet(Units(Departures(x), Moved'))
        /\ Total(Departures(x), Moved') = Total(Departures(x), Moved)
        /\ IsFiniteSet(Units(Departures(x) \union {new}, Moved'))
        /\ Total(Departures(x) \union {new}, Moved') = Total(Departures(x), Moved) + q
        /\ Total(Departures(x), Moved) \in Nat
    <3> DEFINE S == Departures(x)
               w == Moved
               u == Moved'
    <3>1. /\ new \notin S /\ \A i \in S : u[i] = w[i]
          /\ u[new] \in Nat /\ IsFiniteSet(Units(S, w)) /\ u[new] = q
      BY <1>5, <2>2, <2>3
    <3> HIDE DEF S, w, u
    <3>2. /\ IsFiniteSet(Units(S, u)) /\ Total(S, u) = Total(S, w)
          /\ IsFiniteSet(Units(S \union {new}, u))
          /\ Total(S \union {new}, u) = Total(S, w) + u[new]
          /\ Total(S, w) \in Nat
      BY <3>1, TotalGrows, Zenon
    <3>3. QED
      BY <3>1, <3>2, Zenon DEF S, w, u
  <2> HIDE DEF joins
  <2>5. /\ IsFiniteSet(Units(Departures(x)', Moved'))
        /\ Total(Departures(x)', Moved') = Total(Departures(x), Moved) + (IF joins THEN q ELSE 0)
    BY <2>1, <2>4
  <2>6. QED
    BY <2>5 DEF joins
<1>8. \A S, w : Units(S, w)' = Units(S', w') /\ Total(S, w)' = Total(S', w')
  OBVIOUS
<1>9. QED
  BY <1>3, <1>6, <1>7 DEF LedgerFinite, Total, Units

\* Without a new row the totals stay, applied counts staying as they are.
LEMMA LedgerKept ==
  ASSUME RowsRefer, LedgerFinite, UNCHANGED transactions,
         \A n \in CountIds : counts[n] # None => counts'[n] # None /\ counts'[n] = counts[n]
  PROVE  /\ RowsRefer'
         /\ LedgerFinite'
         /\ \A x \in Positions : /\ Total(Arrivals(x), Moved)' = Total(Arrivals(x), Moved)
                                 /\ Total(Departures(x), Moved)' = Total(Departures(x), Moved)
<1>1. RowsRefer'
  BY DEF RowsRefer
<1>2. \A i \in DOMAIN transactions :
        transactions[i].type = "adjustment" =>
          counts'[transactions[i].reference] = counts[transactions[i].reference]
  BY DEF RowsRefer
<1>3. \A x \in Positions : Arrivals(x)' = Arrivals(x) /\ Departures(x)' = Departures(x)
  BY <1>2 DEF Arrivals, Departures
<1>4. Moved' = Moved
  BY DEF Moved
<1>5. \A x \in Positions : /\ Units(Arrivals(x), Moved)' = Units(Arrivals(x), Moved)
                           /\ Units(Departures(x), Moved)' = Units(Departures(x), Moved)
  BY <1>3, <1>4 DEF Units
<1>6. QED
  BY <1>1, <1>5 DEF LedgerFinite, Total

\* The totals are natural numbers.
LEMMA LedgerTotals ==
  ASSUME LedgerFinite, NEW x \in Positions
  PROVE  Total(Arrivals(x), Moved) \in Nat /\ Total(Departures(x), Moved) \in Nat
  BY FS_CardinalityType DEF LedgerFinite, Total

\* A step that writes one row and moves what the row says keeps the books.
LEMMA Posted ==
  ASSUME TypeOK, Explained,
         NEW type, NEW sku, NEW q, NEW from, NEW to, NEW ref, NEW v,
         Posts(type, sku, q, from, to, ref, v),
         \A x \in Positions :
           onHand'[x] = onHand[x] + (IF Brings(x, type, sku, to, v) THEN q ELSE 0)
                                  - (IF Takes(x, type, sku, from, v) THEN q ELSE 0)
  PROVE  Explained'
<1>1. /\ RowsRefer' /\ LedgerFinite'
      /\ \A x \in Positions :
           /\ Total(Arrivals(x), Moved)'
                = Total(Arrivals(x), Moved) + (IF Brings(x, type, sku, to, v) THEN q ELSE 0)
           /\ Total(Departures(x), Moved)'
                = Total(Departures(x), Moved) + (IF Takes(x, type, sku, from, v) THEN q ELSE 0)
  <2>1. RowsRefer /\ LedgerFinite
    BY DEF Explained
  <2>2. QED
    BY <2>1, LedgerGrows
<1>2. ASSUME NEW x \in Positions
      PROVE  onHand'[x] = Total(Arrivals(x), Moved)' - Total(Departures(x), Moved)'
  <2> DEFINE a == Total(Arrivals(x), Moved)
             d == Total(Departures(x), Moved)
             in == IF Brings(x, type, sku, to, v) THEN q ELSE 0
             out == IF Takes(x, type, sku, from, v) THEN q ELSE 0
  <2>1. a \in Nat /\ d \in Nat /\ in \in Nat /\ out \in Nat
    BY LedgerTotals DEF Explained, Posts
  <2>2. onHand[x] = a - d /\ onHand'[x] = onHand[x] + in - out
    BY DEF Explained, LedgerExplainsStock
  <2>3. Total(Arrivals(x), Moved)' = a + in /\ Total(Departures(x), Moved)' = d + out
    BY <1>1
  <2> HIDE DEF a, d, in, out
  <2>4. QED
    BY <2>1, <2>2, <2>3
<1>3. QED
  BY <1>1, <1>2 DEF Explained, LedgerExplainsStock

\* The position of a row.
LEMMA SamePosition ==
  ASSUME NEW x \in Positions, NEW p \in Positions
  PROVE  x = p <=> x[1] = p[1] /\ x[2] = p[2]
  BY DEF Positions

LEMMA ExplainedInit == Init => Explained
<1> SUFFICES ASSUME Init PROVE Explained
  OBVIOUS
<1>1. DOMAIN transactions = {}
  BY DEF Init
<1>2. \A p \in Positions : Arrivals(p) = {} /\ Departures(p) = {}
  BY <1>1 DEF Arrivals, Departures
<1>3. LedgerFinite /\ LedgerExplainsStock
  <2>1. \A p \in Positions : onHand[p] = 0
    BY DEF Init
  <2>2. \A w : IsFiniteSet(Units({}, w)) /\ Total({}, w) = 0
    BY TotalOfNone, Zenon
  <2>3. ASSUME NEW p \in Positions
        PROVE  /\ IsFiniteSet(Units(Arrivals(p), Moved)) /\ Total(Arrivals(p), Moved) = 0
               /\ IsFiniteSet(Units(Departures(p), Moved)) /\ Total(Departures(p), Moved) = 0
    BY <1>2, <2>2, Zenon
  <2>4. QED
    BY <2>1, <2>3 DEF LedgerFinite, LedgerExplainsStock
<1>4. QED
  BY <1>1, <1>3 DEF Explained, RowsRefer

\* Operations that write neither the ledger nor the balance.
LEMMA ExplainedKept ==
  ASSUME Explained, UNCHANGED <<onHand, transactions, counts>>
  PROVE  Explained'
  BY LedgerKept DEF Explained, LedgerExplainsStock

LEMMA ExplainedReceive ==
  ASSUME TypeOK, Explained, NEW p \in Positions, NEW q \in Quantities,
         Receive(p, q) \/ ReturnStock(p, q)
  PROVE  /\ Explained'
         /\ \E type, x, n, l, m : Posts(type, x, n, l, m, None, 0)
<1>1. q \in Nat /\ p[1] \in Skus /\ p[2] \in Locations
  BY BoundsAssumption DEF Quantities, Positions
<1>2. PICK type \in {"receive", "return"} : Append1(type, p[1], q, None, p[2], None)
  BY DEF Receive, ReturnStock
<1>3. onHand' = [onHand EXCEPT ![p] = @ + q] /\ counts' = counts
  BY DEF Receive, ReturnStock, counting
<1>4. ASSUME NEW x \in Positions
      PROVE  onHand'[x] = onHand[x] + (IF Brings(x, type, p[1], p[2], 0) THEN q ELSE 0)
                                    - (IF Takes(x, type, p[1], None, 0) THEN q ELSE 0)
  <2>1. Brings(x, type, p[1], p[2], 0) <=> x = p
    BY <1>2, SamePosition DEF Brings
  <2>2. ~ Takes(x, type, p[1], None, 0)
    BY <1>2 DEF Takes
  <2>3. QED
    BY <1>1, <1>3, <2>1, <2>2 DEF TypeOK
<1>5. Posts(type, p[1], q, None, p[2], None, 0)
  BY <1>1, <1>2, <1>3 DEF Posts
<1>6. QED
  BY <1>4, <1>5, Posted

\* An issue, of reserved units or of others.
LEMMA ExplainedIssue ==
  ASSUME TypeOK, Explained, NEW p \in Positions, NEW q \in Quantities,
         onHand' = [onHand EXCEPT ![p] = @ - q], counts' = counts,
         Append1("issue", p[1], q, p[2], None, None)
  PROVE  /\ Explained'
         /\ \E type, x, n, l, m : Posts(type, x, n, l, m, None, 0)
<1>1. q \in Nat /\ p[1] \in Skus /\ p[2] \in Locations
  BY BoundsAssumption DEF Quantities, Positions
<1>2. ASSUME NEW x \in Positions
      PROVE  onHand'[x] = onHand[x] + (IF Brings(x, "issue", p[1], None, 0) THEN q ELSE 0)
                                    - (IF Takes(x, "issue", p[1], p[2], 0) THEN q ELSE 0)
  <2>1. ~ Brings(x, "issue", p[1], None, 0)
    BY DEF Brings
  <2>2. Takes(x, "issue", p[1], p[2], 0) <=> x = p
    BY SamePosition DEF Takes
  <2>3. QED
    BY <1>1, <2>1, <2>2 DEF TypeOK
<1>3. Posts("issue", p[1], q, p[2], None, None, 0)
  BY <1>1 DEF Posts
<1>4. QED
  BY <1>2, <1>3, Posted

LEMMA ExplainedTransfer ==
  ASSUME TypeOK, Explained, NEW sku \in Skus, NEW from \in Locations, NEW to \in Locations,
         NEW q \in Quantities, Transfer(sku, from, to, q)
  PROVE  /\ Explained'
         /\ \E type, x, n, l, m : Posts(type, x, n, l, m, None, 0)
<1> DEFINE out == <<sku, from>>
           into == <<sku, to>>
<1>1. out \in Positions /\ into \in Positions /\ out # into /\ q \in Nat
  BY BoundsAssumption DEF Positions, Quantities, Transfer
<1>2. /\ onHand' = [onHand EXCEPT ![out] = onHand[out] - q, ![into] = onHand[into] + q]
      /\ counts' = counts /\ Append1("transfer", sku, q, from, to, None)
  BY DEF Transfer, counting
<1>3. /\ out[1] = sku /\ out[2] = from /\ into[1] = sku /\ into[2] = to
  OBVIOUS
<1> HIDE DEF out, into
<1>4. ASSUME NEW x \in Positions
      PROVE  onHand'[x] = onHand[x] + (IF Brings(x, "transfer", sku, to, 0) THEN q ELSE 0)
                                    - (IF Takes(x, "transfer", sku, from, 0) THEN q ELSE 0)
  <2>1. Brings(x, "transfer", sku, to, 0) <=> x = into
    BY <1>1, <1>3, SamePosition DEF Brings
  <2>2. Takes(x, "transfer", sku, from, 0) <=> x = out
    BY <1>1, <1>3, SamePosition DEF Takes
  <2>3. onHand'[x] = IF x = out THEN onHand[x] - q ELSE IF x = into THEN onHand[x] + q
                     ELSE onHand[x]
    BY <1>1, <1>2 DEF TypeOK
  <2>4. onHand[x] \in Int
    BY DEF TypeOK
  <2>5. QED
    BY <1>1, <2>1, <2>2, <2>3, <2>4
<1>5. Posts("transfer", sku, q, from, to, None, 0)
  BY <1>1, <1>2 DEF Posts
<1>6. QED
  BY <1>4, <1>5, Posted

\* An applied count: the row has the magnitude of the variance and the count
\* row its sign.
LEMMA ExplainedAdjustment ==
  ASSUME TypeOK, Explained, NEW n \in CountIds, NEW p \in Positions, NEW counted \in Nat,
         counts[n] = None, NEW variance \in Int, variance = counted - onHand[p],
         counts' = [counts EXCEPT ![n] = [at |-> p, variance |-> variance]],
         onHand' = [onHand EXCEPT ![p] = counted],
         Append1("adjustment", p[1], Magnitude(variance), p[2], p[2], n)
  PROVE  Explained' /\ Posts("adjustment", p[1], Magnitude(variance), p[2], p[2], n, variance)
<1> DEFINE q == Magnitude(variance)
<1>1. q \in Nat /\ p[1] \in Skus /\ p[2] \in Locations
  BY MagnitudeIsNat DEF Positions
<1>2. counts'[n] \in Count /\ counts'[n].variance = variance
  BY DEF Count, TypeOK
<1>3. counts'[n] # None
  BY <1>2, NoneAssumption
<1>4. \A m \in CountIds : counts[m] # None => counts'[m] = counts[m]
  BY DEF TypeOK
<1>5. ASSUME NEW x \in Positions
      PROVE  onHand'[x] = onHand[x] + (IF Brings(x, "adjustment", p[1], p[2], variance) THEN q ELSE 0)
                                    - (IF Takes(x, "adjustment", p[1], p[2], variance) THEN q ELSE 0)
  <2>1. Brings(x, "adjustment", p[1], p[2], variance) <=> x = p /\ variance > 0
    BY <1>2, SamePosition DEF Brings
  <2>2. Takes(x, "adjustment", p[1], p[2], variance) <=> x = p /\ variance < 0
    BY <1>2, SamePosition DEF Takes
  <2>3. onHand[x] \in Int /\ onHand'[x] = IF x = p THEN counted ELSE onHand[x]
    BY DEF TypeOK
  <2>4. QED
    BY <2>1, <2>2, <2>3 DEF Magnitude
<1>6. Posts("adjustment", p[1], q, p[2], p[2], n, variance)
  BY <1>1, <1>2, <1>3, <1>4 DEF Posts
<1> HIDE DEF q
<1>7. Explained'
  BY <1>5, <1>6, Posted
<1>8. QED
  BY <1>6, <1>7 DEF q

\* The rows of a count: a step that keeps the ledger keeps them, ...
LEMMA AdjustmentsKept ==
  ASSUME UNCHANGED transactions, NEW n
  PROVE  /\ Adjustments(n)' = Adjustments(n)
         /\ \A i \in Adjustments(n)' : transactions'[i] = transactions[i]
  BY DEF Adjustments

\* ... and one that writes a row adds it to the count the row refers to.
LEMMA AdjustmentsGrow ==
  ASSUME TypeOK, NEW type, NEW sku, NEW q, NEW from, NEW to, NEW ref, NEW v,
         Posts(type, sku, q, from, to, ref, v), NEW n \in CountIds
  PROVE  LET new == Len(transactions) + 1 IN
         /\ n # ref => Adjustments(n)' = Adjustments(n)
         /\ n = ref => Adjustments(n)' = Adjustments(n) \union {new}
         /\ \A i \in Adjustments(n) : transactions'[i] = transactions[i]
         /\ transactions'[new].quantity = q
<1> DEFINE new == Len(transactions) + 1
           row == [type |-> type, sku |-> sku, quantity |-> q,
                   from |-> from, to |-> to, reference |-> ref]
<1>1. row \in Transaction
  BY DEF Transaction, Posts
<1>2. transactions' = Append(transactions, row) /\ transactions \in Seq(Transaction)
  BY DEF Append1, TypeOK, Posts
<1>3. row.reference = ref /\ row.quantity = q
  OBVIOUS
<1> HIDE DEF row
<1>4. /\ DOMAIN transactions' = DOMAIN transactions \union {new}
      /\ new \notin DOMAIN transactions
      /\ \A i \in DOMAIN transactions : transactions'[i] = transactions[i]
      /\ transactions'[new] = row
  BY <1>1, <1>2
<1> HIDE DEF new
<1>5. /\ n # ref => Adjustments(n)' = Adjustments(n)
      /\ n = ref => Adjustments(n)' = Adjustments(n) \union {new}
      /\ \A i \in Adjustments(n) : transactions'[i] = transactions[i]
      /\ transactions'[new].quantity = q
  BY <1>3, <1>4 DEF Adjustments
<1>6. QED
  BY <1>5 DEF new

\* A count that was not applied has no rows.
LEMMA UnappliedHasNoRows ==
  ASSUME RowsRefer, NEW n \in CountIds, counts[n] = None
  PROVE  Adjustments(n) = {}
<1>1. n # None
  BY NoneAssumption
<1>2. QED
  BY <1>1 DEF RowsRefer, Adjustments

\* What StagedCountsApplyOnce says of one count.
AppliedOnce(n) ==
  IF staged[n].status = "confirmed"
    THEN LET variance == staged[n].counted - staged[n].onHand IN
           /\ counts[n] = [at |-> staged[n].at, variance |-> variance]
           /\ Cardinality(Adjustments(n)) = (IF variance = 0 THEN 0 ELSE 1)
           /\ \A i \in Adjustments(n) : transactions[i].quantity = Magnitude(variance)
    ELSE counts[n] = None /\ Adjustments(n) = {}

\* It stays true of a count whose own rows a step leaves alone.
LEMMA AppliedOnceKept ==
  ASSUME NEW n \in CountIds, AppliedOnce(n), counts'[n] = counts[n], staged'[n] = staged[n],
         Adjustments(n)' = Adjustments(n),
         \A i \in Adjustments(n) : transactions'[i] = transactions[i]
  PROVE  AppliedOnce(n)'
  BY DEF AppliedOnce

\* Steps of the other operations: rows without a reference, or none.
LEMMA OtherSteps ==
  ASSUME TypeOK, StagedCountsApplyOnce, UNCHANGED counting,
         \/ UNCHANGED transactions
         \/ \E type, x, n, l, m : Posts(type, x, n, l, m, None, 0)
  PROVE  StagedCountsApplyOnce'
<1> SUFFICES ASSUME NEW n \in CountIds, staged'[n] # None
             PROVE  AppliedOnce(n)'
  BY DEF StagedCountsApplyOnce, AppliedOnce
<1>1. AppliedOnce(n) /\ counts'[n] = counts[n] /\ staged'[n] = staged[n]
  BY DEF StagedCountsApplyOnce, AppliedOnce, counting
<1>2. n # None
  BY NoneAssumption
<1>3. CASE UNCHANGED transactions
  BY <1>1, <1>3, AdjustmentsKept, AppliedOnceKept
<1>4. ASSUME NEW type, NEW sku, NEW q, NEW from, NEW to, Posts(type, sku, q, from, to, None, 0)
      PROVE  AppliedOnce(n)'
  <2>1. /\ Adjustments(n)' = Adjustments(n)
        /\ \A i \in Adjustments(n) : transactions'[i] = transactions[i]
    BY <1>2, <1>4, AdjustmentsGrow
  <2>2. QED
    BY <1>1, <2>1, AppliedOnceKept
<1>5. QED
  BY <1>3, <1>4

\* The one-step count applies a count nobody staged.
LEMMA DirectCountKeepsBooks ==
  ASSUME TypeOK, Explained, StagedCountsApplyOnce, NEW n \in CountIds, NEW p \in Positions,
         NEW counted \in Nat, CountAndReconcile(n, p, counted)
  PROVE  Explained' /\ StagedCountsApplyOnce'
<1> DEFINE variance == counted - onHand[p]
           q == Magnitude(variance)
<1>1. /\ counts[n] = None /\ staged[n] = None /\ staged' = staged
      /\ variance \in Int
      /\ counts' = [counts EXCEPT ![n] = [at |-> p, variance |-> variance]]
      /\ onHand' = [onHand EXCEPT ![p] = counted]
      /\ Append1("adjustment", p[1], q, p[2], p[2], n)
  BY DEF CountAndReconcile, Unused, TypeOK
<1>2. Explained' /\ Posts("adjustment", p[1], q, p[2], p[2], n, variance)
  <2> HIDE DEF variance
  <2>1. variance = counted - onHand[p]
    BY DEF variance
  <2>2. QED
    BY <1>1, <2>1, ExplainedAdjustment
<1>3. ASSUME NEW m \in CountIds, staged'[m] # None
      PROVE  AppliedOnce(m)'
  <2>1. m # n /\ AppliedOnce(m) /\ counts'[m] = counts[m] /\ staged'[m] = staged[m]
    BY <1>1, <1>3 DEF StagedCountsApplyOnce, AppliedOnce, TypeOK
  <2> HIDE DEF variance, q
  <2>2. /\ Adjustments(m)' = Adjustments(m)
        /\ \A i \in Adjustments(m) : transactions'[i] = transactions[i]
    BY <1>2, <2>1, AdjustmentsGrow
  <2>3. QED
    BY <2>1, <2>2, AppliedOnceKept
<1>4. QED
  BY <1>2, <1>3 DEF StagedCountsApplyOnce, AppliedOnce

\* A confirmation applies the count it confirms, which had no rows.
LEMMA ConfirmKeepsBooks ==
  ASSUME TypeOK, Explained, StagedCountsApplyOnce, NEW n \in CountIds, NEW a \in Actors,
         ConfirmCount(n, a)
  PROVE  Explained' /\ StagedCountsApplyOnce'
<1> DEFINE p == staged[n].at
           counted == staged[n].counted
           variance == counted - onHand[p]
           q == Magnitude(variance)
           new == Len(transactions) + 1
<1>1. Pending(n) /\ onHand[p] = staged[n].onHand
  BY DEF ConfirmCount
<1>2. /\ p \in Positions /\ counted \in Nat
  BY <1>1, PendingTerms
<1>3. /\ variance \in Int
      /\ counts' = [counts EXCEPT ![n] = [at |-> p, variance |-> variance]]
      /\ onHand' = [onHand EXCEPT ![p] = counted]
      /\ variance # 0 => Append1("adjustment", p[1], q, p[2], p[2], n)
      /\ variance = 0 => UNCHANGED transactions
  BY <1>2 DEF ConfirmCount, Apply, TypeOK
<1>4. /\ staged'[n] # None /\ staged'[n].status = "confirmed"
      /\ staged'[n].at = p /\ staged'[n].onHand = onHand[p] /\ staged'[n].counted = counted
      /\ \A m \in CountIds : m # n => staged'[m] = staged[m]
  BY <1>1, ClosedCount DEF ConfirmCount, Apply
<1>5. counts[n] = None /\ Adjustments(n) = {}
  BY <1>1 DEF Pending, StagedCountsApplyOnce
<1>6. counts'[n] = [at |-> p, variance |-> variance]
      /\ \A m \in CountIds : m # n => counts'[m] = counts[m]
  BY <1>3 DEF TypeOK
<1>7. variance = counted - onHand[p]
  OBVIOUS
<1> HIDE DEF p, counted, variance
<1>8. CASE variance # 0
  <2>1. Explained' /\ Posts("adjustment", p[1], q, p[2], p[2], n, variance)
    BY <1>2, <1>3, <1>5, <1>7, <1>8, ExplainedAdjustment
  <2> HIDE DEF q
  <2>2. /\ Adjustments(n)' = {new} /\ transactions'[new].quantity = q
        /\ \A m \in CountIds : m # n =>
             /\ Adjustments(m)' = Adjustments(m)
             /\ \A i \in Adjustments(m) : transactions'[i] = transactions[i]
    BY <1>5, <2>1, AdjustmentsGrow
  <2> HIDE DEF new
  <2>3. ASSUME NEW m \in CountIds, staged'[m] # None
        PROVE  AppliedOnce(m)'
    <3>1. CASE m = n
      <4>1. Cardinality({new}) = 1
        BY FS_Singleton
      <4>2. staged'[n].counted - staged'[n].onHand = variance
        BY <1>4, <1>7
      <4>3. QED
        BY <1>4, <1>6, <1>8, <2>2, <3>1, <4>1, <4>2 DEF AppliedOnce, q
    <3>2. CASE m # n
      <4>1. AppliedOnce(m) /\ counts'[m] = counts[m] /\ staged'[m] = staged[m]
        BY <1>4, <1>6, <2>3, <3>2 DEF StagedCountsApplyOnce, AppliedOnce
      <4>2. QED
        BY <2>2, <3>2, <4>1, AppliedOnceKept
    <3>3. QED
      BY <3>1, <3>2
  <2>4. QED
    BY <2>1, <2>3 DEF StagedCountsApplyOnce, AppliedOnce
<1>9. CASE variance = 0
  <2>1. transactions' = transactions /\ \A x \in Positions : onHand'[x] = onHand[x]
    BY <1>2, <1>3, <1>7, <1>9 DEF TypeOK
  <2>2. \A m \in CountIds : counts[m] # None => counts'[m] # None /\ counts'[m] = counts[m]
    BY <1>5, <1>6
  <2>3. Explained'
    BY <2>1, <2>2, LedgerKept DEF Explained, LedgerExplainsStock
  <2>4. \A m \in CountIds : Adjustments(m)' = Adjustments(m)
    BY <2>1 DEF Adjustments
  <2>5. ASSUME NEW m \in CountIds, staged'[m] # None
        PROVE  AppliedOnce(m)'
    <3>1. CASE m = n
      <4>1. Cardinality({}) = 0
        BY FS_EmptySet
      <4>2. staged'[n].counted - staged'[n].onHand = variance
        BY <1>4, <1>7
      <4>3. QED
        BY <1>4, <1>5, <1>6, <1>9, <2>4, <3>1, <4>1, <4>2 DEF AppliedOnce
    <3>2. CASE m # n
      <4>1. AppliedOnce(m) /\ counts'[m] = counts[m] /\ staged'[m] = staged[m]
        BY <1>4, <1>6, <2>5, <3>2 DEF StagedCountsApplyOnce, AppliedOnce
      <4>2. QED
        BY <2>1, <2>4, <4>1, AppliedOnceKept
    <3>3. QED
      BY <3>1, <3>2
  <2>6. QED
    BY <2>3, <2>5 DEF StagedCountsApplyOnce, AppliedOnce
<1>10. QED
  BY <1>8, <1>9

\* Staging a count and cancelling one apply nothing.
LEMMA StagingKeepsBooks ==
  ASSUME TypeOK, Explained, StagedCountsApplyOnce, NEW n \in CountIds, NEW a \in Actors,
         \/ CancelCount(n, a)
         \/ \E p \in Positions, counted \in Nat : StageCount(n, p, counted, a)
  PROVE  Explained' /\ StagedCountsApplyOnce'
<1>1. UNCHANGED <<onHand, transactions, counts>>
  BY DEF CancelCount, StageCount, balances
<1>2. Explained'
  BY <1>1, ExplainedKept
<1>3. \A m \in CountIds : Adjustments(m)' = Adjustments(m)
  BY <1>1 DEF Adjustments
<1>4. \A m \in CountIds : m # n => staged'[m] = staged[m]
  BY DEF CancelCount, StageCount, TypeOK
<1>5. counts[n] = None /\ Adjustments(n) = {} /\ staged'[n].status # "confirmed"
  <2>1. CASE CancelCount(n, a)
    <3>1. Pending(n) /\ staged' = [staged EXCEPT ![n].status = "cancelled"]
      BY <2>1 DEF CancelCount
    <3>2. staged'[n].status = "cancelled"
      BY <3>1, ClosedCount
    <3>3. QED
      BY <3>1, <3>2 DEF Pending, StagedCountsApplyOnce
  <2>2. CASE \E p \in Positions, counted \in Nat : StageCount(n, p, counted, a)
    <3>1. counts[n] = None /\ staged'[n].status = "pending_confirmation"
      BY <2>2 DEF StageCount, Unused, TypeOK
    <3>2. QED
      BY <3>1, UnappliedHasNoRows DEF Explained
  <2>3. QED
    BY <2>1, <2>2
<1>6. ASSUME NEW m \in CountIds, staged'[m] # None
      PROVE  AppliedOnce(m)'
  <2>1. CASE m = n
    BY <1>1, <1>3, <1>5, <2>1 DEF AppliedOnce
  <2>2. CASE m # n
    <3>1. AppliedOnce(m) /\ counts'[m] = counts[m] /\ staged'[m] = staged[m]
      BY <1>1, <1>4, <1>6, <2>2 DEF StagedCountsApplyOnce, AppliedOnce
    <3>2. QED
      BY <1>1, <1>3, <3>1, AppliedOnceKept
  <2>3. QED
    BY <2>1, <2>2
<1>7. QED
  BY <1>2, <1>6 DEF StagedCountsApplyOnce, AppliedOnce

Books == TypeOK /\ Explained /\ StagedCountsApplyOnce

LEMMA BooksInit == Init => Books
<1> SUFFICES ASSUME Init PROVE Books
  OBVIOUS
<1>1. \A n \in CountIds : staged[n] = None
  BY DEF Init
<1>2. QED
  BY <1>1, TypeInit, ExplainedInit DEF Books, StagedCountsApplyOnce

LEMMA BooksNext == Books /\ [Next]_vars => Books'
<1> SUFFICES ASSUME Books, [Next]_vars PROVE Books'
  OBVIOUS
<1>1. TypeOK /\ Explained /\ StagedCountsApplyOnce
  BY DEF Books
<1> SUFFICES Explained' /\ StagedCountsApplyOnce'
  BY <1>1, TypeNext DEF Books
<1>2. CASE UNCHANGED <<onHand, transactions, counting>>
  BY <1>1, <1>2, ExplainedKept, OtherSteps DEF counting
<1>3. ASSUME NEW p \in Positions, NEW q \in Quantities, Receive(p, q) \/ ReturnStock(p, q)
      PROVE  Explained' /\ StagedCountsApplyOnce'
  <2>1. UNCHANGED counting
    BY <1>3 DEF Receive, ReturnStock
  <2>2. QED
    BY <1>1, <1>3, <2>1, ExplainedReceive, OtherSteps
<1>4. ASSUME NEW p \in Positions, NEW q \in Quantities, NEW c \in Customers,
             Issue(p, q, c) \/ \E r \in ReservationIds : IssueReserved(r, p, q, c)
      PROVE  Explained' /\ StagedCountsApplyOnce'
  <2>1. /\ onHand' = [onHand EXCEPT ![p] = @ - q] /\ UNCHANGED counting
        /\ Append1("issue", p[1], q, p[2], None, None)
    BY <1>4 DEF Issue, IssueReserved, Fulfil
  <2>2. QED
    BY <1>1, <2>1, ExplainedIssue, OtherSteps DEF counting
<1>5. ASSUME NEW sku \in Skus, NEW from \in Locations, NEW to \in Locations,
             NEW q \in Quantities, Transfer(sku, from, to, q)
      PROVE  Explained' /\ StagedCountsApplyOnce'
  <2>1. UNCHANGED counting
    BY <1>5 DEF Transfer
  <2>2. QED
    BY <1>1, <1>5, <2>1, ExplainedTransfer, OtherSteps
<1>6. ASSUME NEW n \in CountIds, NEW p \in Positions, NEW counted \in 0 .. MaxQuantity,
             \/ CountAndReconcile(n, p, counted)
             \/ \E a \in Actors : StageCount(n, p, counted, a)
      PROVE  Explained' /\ StagedCountsApplyOnce'
  <2>1. counted \in Nat
    BY BoundsAssumption
  <2>2. QED
    BY <1>1, <1>6, <2>1, DirectCountKeepsBooks, StagingKeepsBooks
<1>7. ASSUME NEW n \in CountIds, NEW a \in Actors, ConfirmCount(n, a) \/ CancelCount(n, a)
      PROVE  Explained' /\ StagedCountsApplyOnce'
  BY <1>1, <1>7, ConfirmKeepsBooks, StagingKeepsBooks
<1>8. ASSUME \/ \E r \in ReservationIds, p \in Positions, q \in Quantities, c \in Customers :
                  Reserve(r, p, q, c)
             \/ \E r \in ReservationIds : ReleaseReservation(r)
             \/ \E s \in Skus, active \in BOOLEAN : SetItemActive(s, active)
             \/ \E c \in Customers, active \in BOOLEAN : SetCustomerActive(c, active)
             \/ \E l \in Locations, active \in BOOLEAN : SetLocationActive(l, active)
             \/ UNCHANGED vars
      PROVE  UNCHANGED <<onHand, transactions, counting>>
  BY <1>8 DEF Reserve, ReleaseReservation, SetItemActive, SetCustomerActive, SetLocationActive,
       vars, balances, counting
<1>9. QED
  BY <1>2, <1>3, <1>4, <1>5, <1>6, <1>7, <1>8 DEF Next

\* Replaying the transaction table, with the signs of the count table, gives
\* the balance of every position: no operation moves units without writing the
\* row that explains it, and no later one changes what a row means.
THEOREM LedgerExplains == Spec => []LedgerExplainsStock
<1>1. Books => LedgerExplainsStock
  BY DEF Books, Explained
<1>2. QED
  BY <1>1, BooksInit, BooksNext, PTL DEF Spec

\* A staged count is applied when it is confirmed, once and with the variance
\* that was shown, and never otherwise.
THEOREM CountsApplyOnce == Spec => []StagedCountsApplyOnce
<1>1. Books => StagedCountsApplyOnce
  BY DEF Books
<1>2. QED
  BY <1>1, BooksInit, BooksNext, PTL DEF Spec

-----------------------------------------------------------------------------
(* Quantity stock keeps the promise of StockClaims.                        *)

\* What an active reservation is to StockClaims.
ClaimOf(r) == [at |-> reservations[r].at, quantity |-> reservations[r].quantity,
               customer |-> reservations[r].customer]

LEMMA ClaimTerms ==
  ASSUME TypeOK, NEW r \in ReservationIds
  PROVE  /\ Active(r) => OpenClaims[r] = ClaimOf(r) /\ OpenClaims[r] # None
         /\ ~ Active(r) => OpenClaims[r] = None
<1>1. Active(r) => ClaimOf(r) \in [at : Positions, quantity : Quantities, customer : Customers]
  BY ActiveTerms DEF ClaimOf
<1>2. QED
  BY <1>1, NoneAssumption DEF OpenClaims, ClaimOf

\* What is claimed is what the reserved column says.
LEMMA ClaimedIsReserved ==
  ASSUME TypeOK, Backed, NEW p \in Positions
  PROVE  Claims!Claimed(p) = reserved[p]
<1> DEFINE w == [r \in ReservationIds |->
                   IF OpenClaims[r] = None THEN 0 ELSE OpenClaims[r].quantity]
<1>1. ASSUME NEW r \in ReservationIds, Active(r)
      PROVE  /\ OpenClaims[r] # None /\ reservations[r] # None
             /\ OpenClaims[r].at = reservations[r].at
             /\ OpenClaims[r].quantity = reservations[r].quantity
  <2>1. OpenClaims[r] = ClaimOf(r) /\ OpenClaims[r] # None
    BY <1>1, ClaimTerms
  <2>2. ClaimOf(r).at = reservations[r].at /\ ClaimOf(r).quantity = reservations[r].quantity
    BY DEF ClaimOf
  <2>3. reservations[r] # None
    BY <1>1 DEF Active
  <2>4. QED
    BY <2>1, <2>2, <2>3
<1>2. \A r \in ReservationIds : ~ Active(r) => OpenClaims[r] = None
  BY ClaimTerms
<1>3. Claims!Open(p) = Held(p)
  <2>1. \A r \in ReservationIds : OpenClaims[r] # None /\ OpenClaims[r].at = p
                                    <=> Active(r) /\ reservations[r].at = p
    BY <1>1, <1>2
  <2>2. QED
    BY <2>1 DEF Claims!Open, Held
<1>4. \A r \in Held(p) : w[r] = ReservedBy[r]
  <2>1. ASSUME NEW r \in Held(p)
        PROVE  w[r] = ReservedBy[r]
    <3>1. r \in ReservationIds /\ Active(r)
      BY DEF Held
    <3>2. QED
      BY <1>1, <3>1 DEF ReservedBy
  <2>2. QED
    BY <2>1
<1>5. Claims!Claimed(p) = Total(Held(p), w)
  <2>1. Claims!Claimed(p) = Claims!Total(Held(p), w)
    BY <1>3 DEF Claims!Claimed
  <2> HIDE DEF w
  <2>2. QED
    BY <2>1 DEF Claims!Total, Claims!Units, Claims!Cardinality, Total, Units, Cardinality
<1> HIDE DEF w
<1>6. Total(Held(p), w) = Total(Held(p), ReservedBy)
  BY <1>4, TotalSameWeights
<1>7. QED
  BY <1>5, <1>6 DEF Backed, ReservedIsHeld

\* A step that leaves the reservations alone leaves the claims alone.
LEMMA ClaimsKept == UNCHANGED reservations => UNCHANGED <<OpenClaims, Settled>>
  BY DEF OpenClaims, Settled, Active

LEMMA FreeIsAvailable ==
  ASSUME TypeOK, Backed, NEW p \in Positions
  PROVE  Claims!Free(p) = Available(p)
  BY ClaimedIsReserved DEF Claims!Free, Available

LEMMA PutStep ==
  ASSUME NEW p \in Positions, NEW q \in Quantities, Receive(p, q) \/ ReturnStock(p, q)
  PROVE  Claims!Next
<1>1. Claims!Put(p, q)
  BY ClaimsKept DEF Receive, ReturnStock, Claims!Put
<1>2. QED
  BY <1>1 DEF Claims!Next

LEMMA TakeStep ==
  ASSUME TypeOK, Backed, NEW p \in Positions, NEW q \in Quantities, NEW c \in Customers,
         Issue(p, q, c)
  PROVE  Claims!Next
<1>1. Claims!Take(p, q)
  BY ClaimsKept, FreeIsAvailable DEF Issue, Claims!Take
<1>2. QED
  BY <1>1 DEF Claims!Next

LEMMA MoveStep ==
  ASSUME TypeOK, Backed, NEW sku \in Skus, NEW from \in Locations, NEW to \in Locations,
         NEW q \in Quantities, Transfer(sku, from, to, q)
  PROVE  Claims!Next
<1> DEFINE out == <<sku, from>>
           into == <<sku, to>>
<1>1. /\ onHand' = [onHand EXCEPT ![out] = @ - q, ![into] = @ + q]
      /\ UNCHANGED reservations /\ Available(out) >= q
  BY DEF Transfer
<1>2. out \in Positions /\ into \in Positions /\ out # into
  BY DEF Positions, Transfer
<1> HIDE DEF out, into
<1>3. Claims!Move(out, into, q)
  BY <1>1, <1>2, ClaimsKept, FreeIsAvailable DEF Claims!Move
<1>4. QED
  BY <1>2, <1>3 DEF Claims!Next

LEMMA HoldStep ==
  ASSUME TypeOK, Backed, NEW r \in ReservationIds, NEW p \in Positions, NEW q \in Quantities,
         NEW c \in Customers, Reserve(r, p, q, c)
  PROVE  Claims!Next
<1> DEFINE row == [status |-> "active", at |-> p, quantity |-> q, customer |-> c]
           claim == [at |-> p, quantity |-> q, customer |-> c]
<1>1. /\ reservations[r] = None /\ reservations' = [reservations EXCEPT ![r] = row]
      /\ Available(p) >= q /\ onHand' = onHand
  BY DEF Reserve
<1>2. row # None /\ row.status = "active" /\ row.at = p /\ row.quantity = q /\ row.customer = c
  <2>1. row \in Reservation
    BY DEF Reservation
  <2>2. QED
    BY <2>1, NoneAssumption
<1> HIDE DEF row
<1>3. /\ reservations'[r] = row
      /\ \A o \in ReservationIds : o # r => reservations'[o] = reservations[o]
  BY <1>1 DEF TypeOK
<1>4. ~ Active(r) /\ Active(r)' /\ \A o \in ReservationIds : o # r => (Active(o)' <=> Active(o))
  BY <1>1, <1>2, <1>3 DEF Active
<1>5. OpenClaims[r] = None /\ r \notin Settled
  BY <1>1, <1>4 DEF OpenClaims, Settled
<1>6. OpenClaims' = [OpenClaims EXCEPT ![r] = claim]
  BY <1>2, <1>3, <1>4 DEF OpenClaims
<1>7. Settled' = Settled
  BY <1>1, <1>3, <1>4 DEF Settled
<1>8. Claims!Hold(r, p, q, c)
  BY <1>1, <1>5, <1>6, <1>7, FreeIsAvailable DEF Claims!Hold
<1>9. QED
  BY <1>8 DEF Claims!Next

\* A reservation that is settled ends its claim.
LEMMA SettleStep ==
  ASSUME TypeOK, NEW r \in ReservationIds, Active(r), NEW s \in {"released", "fulfilled"},
         reservations' = [reservations EXCEPT ![r].status = s]
  PROVE  Claims!Settle(r) /\ OpenClaims[r] = ClaimOf(r)
<1>1. OpenClaims[r] = ClaimOf(r) /\ OpenClaims[r] # None /\ reservations[r] # None
  BY ClaimTerms DEF Active
<1>2. /\ \A o \in ReservationIds : o # r => reservations'[o] = reservations[o]
      /\ reservations'[r] # None /\ reservations'[r].status = s
  BY SettledReservation
<1>3. ~ Active(r)' /\ \A o \in ReservationIds : o # r => (Active(o)' <=> Active(o))
  BY <1>2 DEF Active
<1>4. OpenClaims' = [OpenClaims EXCEPT ![r] = None]
  BY <1>2, <1>3 DEF OpenClaims
<1>5. Settled' = Settled \union {r}
  BY <1>1, <1>2, <1>3 DEF Settled
<1>6. QED
  BY <1>1, <1>4, <1>5 DEF Claims!Settle

LEMMA DeliverStep ==
  ASSUME TypeOK, NEW r \in ReservationIds, NEW p \in Positions, NEW q \in Quantities,
         NEW c \in Customers, IssueReserved(r, p, q, c)
  PROVE  Claims!Next
<1>1. /\ Active(r) /\ reservations[r].at = p /\ reservations[r].quantity = q
      /\ onHand' = [onHand EXCEPT ![p] = @ - q]
      /\ reservations' = [reservations EXCEPT ![r].status = "fulfilled"]
  BY DEF IssueReserved, Fulfil
<1>2. Claims!Settle(r) /\ OpenClaims[r] = ClaimOf(r)
  BY <1>1, SettleStep
<1>3. OpenClaims[r].at = p /\ OpenClaims[r].quantity = q
  BY <1>1, <1>2 DEF ClaimOf
<1>4. Claims!Deliver(r)
  BY <1>1, <1>2, <1>3 DEF Claims!Deliver
<1>5. QED
  BY <1>4 DEF Claims!Next

LEMMA DropStep ==
  ASSUME TypeOK, NEW r \in ReservationIds, ReleaseReservation(r)
  PROVE  Claims!Next
<1>1. Claims!Settle(r) /\ onHand' = onHand
  BY SettleStep DEF ReleaseReservation
<1>2. Claims!Drop(r)
  BY <1>1 DEF Claims!Drop
<1>3. QED
  BY <1>2 DEF Claims!Next

LEMMA CorrectStep ==
  ASSUME TypeOK, Backed, NEW n \in CountIds, NEW a \in Actors, ConfirmCount(n, a)
  PROVE  Claims!Next
<1> DEFINE p == staged[n].at
           counted == staged[n].counted
<1>1. p \in Positions /\ counted \in Nat
  BY PendingTerms DEF ConfirmCount
<1>2. /\ onHand' = [onHand EXCEPT ![p] = counted] /\ counted >= reserved[p]
      /\ UNCHANGED reservations
  BY DEF ConfirmCount, Apply
<1> HIDE DEF p, counted
<1>3. onHand'[p] = counted
  BY <1>1, <1>2 DEF TypeOK
<1>4. Claims!Claimed(p) = reserved[p]
  BY <1>1, ClaimedIsReserved
<1>5. Claims!Correct(p)
  BY <1>1, <1>2, <1>3, <1>4, ClaimsKept DEF Claims!Correct
<1>6. QED
  BY <1>1, <1>5 DEF Claims!Next

LEMMA ClaimsInit == Init => Claims!Init
<1> SUFFICES ASSUME Init PROVE Claims!Init
  OBVIOUS
<1>1. \A r \in ReservationIds : reservations[r] = None
  BY DEF Init
<1>2. OpenClaims = [r \in ReservationIds |-> None] /\ Settled = {}
  BY <1>1 DEF OpenClaims, Settled, Active
<1>3. QED
  BY <1>2 DEF Init, Claims!Init

LEMMA ClaimsStep ==
  ASSUME TypeOK, Backed, [Next]_vars
  PROVE  [DirectCounts' = {} => Claims!Next]_<<onHand, OpenClaims, Settled>>
<1> SUFFICES ASSUME DirectCounts' = {}, ~ UNCHANGED <<onHand, OpenClaims, Settled>>
             PROVE  Claims!Next
  OBVIOUS
<1>1. ~ \E n \in CountIds, p \in Positions, counted \in 0 .. MaxQuantity :
          CountAndReconcile(n, p, counted)
  BY DirectCountShows
<1>2. ~ UNCHANGED <<onHand, reservations>>
  BY ClaimsKept
<1>3. ASSUME NEW p \in Positions, NEW q \in Quantities, Receive(p, q) \/ ReturnStock(p, q)
      PROVE  Claims!Next
  BY <1>3, PutStep
<1>4. ASSUME NEW p \in Positions, NEW q \in Quantities, NEW c \in Customers, Issue(p, q, c)
      PROVE  Claims!Next
  BY <1>4, TakeStep
<1>5. ASSUME NEW p \in Positions, NEW q \in Quantities, NEW c \in Customers,
             NEW r \in ReservationIds, Reserve(r, p, q, c) \/ IssueReserved(r, p, q, c)
      PROVE  Claims!Next
  BY <1>5, HoldStep, DeliverStep
<1>6. ASSUME NEW r \in ReservationIds, ReleaseReservation(r)
      PROVE  Claims!Next
  BY <1>6, DropStep
<1>7. ASSUME NEW sku \in Skus, NEW from \in Locations, NEW to \in Locations,
             NEW q \in Quantities, Transfer(sku, from, to, q)
      PROVE  Claims!Next
  BY <1>7, MoveStep
<1>8. ASSUME NEW n \in CountIds, NEW a \in Actors, ConfirmCount(n, a)
      PROVE  Claims!Next
  BY <1>8, CorrectStep
<1>9. ASSUME \/ \E n \in CountIds, a \in Actors : CancelCount(n, a)
             \/ \E n \in CountIds, p \in Positions, counted \in 0 .. MaxQuantity, a \in Actors :
                  StageCount(n, p, counted, a)
             \/ \E s \in Skus, active \in BOOLEAN : SetItemActive(s, active)
             \/ \E c \in Customers, active \in BOOLEAN : SetCustomerActive(c, active)
             \/ \E l \in Locations, active \in BOOLEAN : SetLocationActive(l, active)
             \/ UNCHANGED vars
      PROVE  UNCHANGED <<onHand, reservations>>
  BY <1>9 DEF CancelCount, StageCount, SetItemActive, SetCustomerActive, SetLocationActive,
       vars, balances
<1>10. QED
  BY <1>1, <1>2, <1>3, <1>4, <1>5, <1>6, <1>7, <1>8, <1>9 DEF Next

\* Until the one-step count is used, quantity stock implements StockClaims:
\* what the cached column and the reservation table do together is what open
\* claims promise.
THEOREM StockImplementsClaims == Spec => ImplementsClaims
<1>1. Init => TypeOK /\ Backed /\ Claims!Init
  BY TypeInit, BackedInit, ClaimsInit
<1>2. TypeOK /\ Backed /\ [Next]_vars => (TypeOK /\ Backed)'
  BY TypeNext, BackedNext
<1>3. TypeOK /\ Backed /\ [Next]_vars
        => [DirectCounts' = {} => Claims!Next]_<<onHand, OpenClaims, Settled>>
  BY ClaimsStep
<1>4. QED
  BY <1>1, <1>2, <1>3, PTL DEF Spec, ImplementsClaims
=============================================================================
