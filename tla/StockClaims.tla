---------------------------- MODULE StockClaims ----------------------------
(***************************************************************************)
(* What quantity stock promises: units lie at positions, a claim sets some *)
(* of them aside for one customer, and no operation hands out, moves or    *)
(* corrects away a unit that a claim still holds.  There is no cached      *)
(* counter here: what is free is computed from the open claims.            *)
(***************************************************************************)
EXTENDS Totals

CONSTANTS Positions, ClaimIds, Customers, Quantities, None

VARIABLES
  stock,    \* units at each position
  claims,   \* the open claims, None for an id with no open claim
  settled   \* ids whose claim was delivered or dropped

Claim == [at : Positions, quantity : Quantities, customer : Customers]

Open(p) == {r \in ClaimIds : claims[r] # None /\ claims[r].at = p}
Claimed(p) == Total(Open(p), [r \in ClaimIds |-> IF claims[r] = None THEN 0 ELSE claims[r].quantity])
Free(p) == stock[p] - Claimed(p)

Init ==
  /\ stock = [p \in Positions |-> 0]
  /\ claims = [r \in ClaimIds |-> None]
  /\ settled = {}

Put(p, q) ==
  /\ stock' = [stock EXCEPT ![p] = @ + q]
  /\ UNCHANGED <<claims, settled>>

Take(p, q) ==
  /\ Free(p) >= q
  /\ stock' = [stock EXCEPT ![p] = @ - q]
  /\ UNCHANGED <<claims, settled>>

Move(from, to, q) ==
  /\ from # to
  /\ Free(from) >= q
  /\ stock' = [stock EXCEPT ![from] = @ - q, ![to] = @ + q]
  /\ UNCHANGED <<claims, settled>>

Hold(r, p, q, c) ==
  /\ claims[r] = None /\ r \notin settled
  /\ Free(p) >= q
  /\ claims' = [claims EXCEPT ![r] = [at |-> p, quantity |-> q, customer |-> c]]
  /\ UNCHANGED <<stock, settled>>

Settle(r) ==
  /\ claims[r] # None
  /\ claims' = [claims EXCEPT ![r] = None]
  /\ settled' = settled \union {r}

\* The claimed units leave, to the customer the claim names.
Deliver(r) ==
  /\ Settle(r)
  /\ stock' = [stock EXCEPT ![claims[r].at] = @ - claims[r].quantity]

Drop(r) == Settle(r) /\ UNCHANGED stock

\* A physical count replaces the figure, never below what is claimed.
Correct(p) ==
  /\ stock'[p] \in Nat /\ stock'[p] >= Claimed(p)
  /\ stock' = [stock EXCEPT ![p] = stock'[p]]
  /\ UNCHANGED <<claims, settled>>

Next ==
  \/ \E p \in Positions, q \in Quantities : Put(p, q) \/ Take(p, q)
  \/ \E from, to \in Positions, q \in Quantities : Move(from, to, q)
  \/ \E r \in ClaimIds, p \in Positions, q \in Quantities, c \in Customers : Hold(r, p, q, c)
  \/ \E r \in ClaimIds : Deliver(r) \/ Drop(r)
  \/ \E p \in Positions : Correct(p)

Spec == Init /\ [][Next]_<<stock, claims, settled>>
=============================================================================
