-------------------------- MODULE OrderFulfilment --------------------------
(***************************************************************************)
(* What purchasing and receiving promise together: an order commits its    *)
(* supplier to a quantity per line, once, and goods enter the inventory in *)
(* deliveries, each of them for the lines of one order and never beyond    *)
(* what was committed.                                                     *)
(***************************************************************************)
EXTENDS Integers

CONSTANTS LineIds, Orders, None

VARIABLES
  ordered,  \* units committed per line, 0 before the line exists
  arrived,  \* units that entered the inventory per line
  belongs   \* the order of each line

Init ==
  /\ ordered = [l \in LineIds |-> 0]
  /\ arrived = [l \in LineIds |-> 0]
  /\ belongs = [l \in LineIds |-> None]

\* New lines appear, all of one new order; existing lines keep their terms.
Place(o) ==
  /\ \A l \in LineIds : belongs[l] # o
  /\ \A l \in LineIds :
       \/ belongs'[l] = belongs[l] /\ ordered'[l] = ordered[l]
       \/ belongs[l] = None /\ belongs'[l] = o /\ ordered'[l] \in Nat
  /\ belongs' = [l \in LineIds |-> belongs'[l]]
  /\ ordered' = [l \in LineIds |-> ordered'[l]]
  /\ UNCHANGED arrived

Deliver(o) ==
  /\ \A l \in LineIds :
       \/ arrived'[l] = arrived[l]
       \/ belongs[l] = o /\ arrived'[l] \in arrived[l] .. ordered[l]
  /\ arrived' = [l \in LineIds |-> arrived'[l]]
  /\ UNCHANGED <<ordered, belongs>>

Next == \E o \in Orders : Place(o) \/ Deliver(o)

Spec == Init /\ [][Next]_<<ordered, arrived, belongs>>
=============================================================================
