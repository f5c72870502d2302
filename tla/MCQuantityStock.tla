-------------------------- MODULE MCQuantityStock --------------------------
EXTENDS QuantityStock, TLC

CONSTANTS r1, r2, n1, n2, u1, u2

\* uuid4 identifiers carry no order and no step tells two users apart, so
\* each of these sets may be permuted.
Symmetry == Permutations(ReservationIds) \union Permutations(CountIds)
              \union Permutations(Actors)
=============================================================================
