------------------------------- MODULE Totals -------------------------------
(***************************************************************************)
(* The total of a natural-number column over a set of table rows, written  *)
(* as the number of unit tokens the rows stand for: row i with w[i] = 3    *)
(* contributes <<i,1>>, <<i,2>>, <<i,3>>.  SQL columns of the inventory    *)
(* tables (reserved, on_hand, quantity_received) are compared with totals  *)
(* of this form.                                                           *)
(***************************************************************************)
EXTENDS Integers, FiniteSets

\* The unit tokens of the rows in S, row i carrying w[i] units.
Units(S, w) == UNION {{i} \X (1 .. w[i]) : i \in S}

\* The sum of w[i] over the rows i in S.
Total(S, w) == Cardinality(Units(S, w))
=============================================================================
