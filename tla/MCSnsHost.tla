----------------------------- MODULE MCSnsHost ------------------------------
(* Instances of SnsHost for TLC: which collectives the flows belong to. *)
EXTENDS SnsHost

CONSTANTS f1, f2, f3

\* All flows in one collective.
OneCollective == [f \in Flows |-> 1]

\* f3 in a collective of its own, after that of the others.
TwoCollectives == [f \in Flows |-> IF f = f3 THEN 2 ELSE 1]

\* f1 sends with reservations, the others without.
WithDirect == [f \in Flows |-> IF f = f1 THEN 1 ELSE 99]
=============================================================================
