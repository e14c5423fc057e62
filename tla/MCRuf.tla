------------------------------- MODULE MCRuf -------------------------------
(* Instances of Ruf for TLC: two sources and two receivers in two racks.  Flow a is
   remote and shares its source with b and its receiver with c, which are local and
   short. *)
EXTENDS Ruf

CONSTANTS s1, s2, r1, r2, a, b, c

MCTor == s1 :> 0 @@ r2 :> 0 @@ s2 :> 1 @@ r1 :> 1
MCSrc == [f \in Flow |-> IF f = c THEN s2 ELSE s1]
MCDst == [f \in Flow |-> IF f = b THEN r2 ELSE r1]
MCSize == [f \in Flow |-> IF f = a THEN 2 ELSE 1]
=============================================================================
