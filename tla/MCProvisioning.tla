--------------------------- MODULE MCProvisioning ---------------------------
(***************************************************************************)
(* Two devices for the runs of Provisioning: a switch with a load of its   *)
(* own, and a lamp, interrogated or not.                                   *)
(***************************************************************************)
EXTENDS Provisioning, TLC

CONSTANTS switch, lamp

Nodes == {switch, lamp}
Rocker == [d \in Nodes |-> IF d = switch THEN 1 ELSE 0]
BothKnown == [d \in Nodes |-> 1]
LampUnknown == [d \in Nodes |-> IF d = switch THEN 1 ELSE 0]

\* Groups differ in nothing but their id, and no liveness is checked.
GroupSymmetry == Permutations(Groups)
=============================================================================
