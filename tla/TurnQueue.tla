----------------------------- MODULE TurnQueue -----------------------------
(***************************************************************************)
(* What the Builder promises to those who ask it for something: turns are  *)
(* taken up one by one in the order they were asked, a turn withdrawn      *)
(* before that is never worked on, and only a turn being worked on         *)
(* publishes anything.                                                     *)
(***************************************************************************)
EXTENDS Naturals

CONSTANT Turns  \* numbers, in the order the turns are asked

VARIABLES waiting, withdrawn, working, ended, published

vars == <<waiting, withdrawn, working, ended, published>>

Init ==
  waiting = {} /\ withdrawn = {} /\ working = {} /\ ended = {} /\ published = {}

Ask(i) ==
  /\ \A j \in waiting \union withdrawn \union working \union ended : j < i
  /\ waiting' = waiting \union {i}
  /\ UNCHANGED <<withdrawn, working, ended, published>>

Withdraw(i) ==
  /\ i \in waiting
  /\ waiting' = waiting \ {i}
  /\ withdrawn' = withdrawn \union {i}
  /\ UNCHANGED <<working, ended, published>>

Take(i) ==
  /\ i \in waiting
  /\ \A j \in waiting : i <= j
  /\ waiting' = waiting \ {i}
  /\ working' = working \union {i}
  /\ UNCHANGED <<withdrawn, ended, published>>

Publish(i) ==
  /\ i \in working
  /\ published' = published \union {i}
  /\ UNCHANGED <<waiting, withdrawn, working, ended>>

End(i) ==
  /\ i \in working
  /\ working' = working \ {i}
  /\ ended' = ended \union {i}
  /\ UNCHANGED <<waiting, withdrawn, published>>

Next == \E i \in Turns : Ask(i) \/ Withdraw(i) \/ Take(i) \/ Publish(i) \/ End(i)

Spec == Init /\ [][Next]_vars
=============================================================================
