------------------------------ MODULE MCBinder ------------------------------
(* A process with one thread and a process with two. *)
EXTENDS Binder, TLC

CONSTANTS p1, p2, a, b1, b2

MCProcOf == [x \in Thread |-> IF x = a THEN p1 ELSE p2]

Symmetry == {f @@ g : f \in Permutations(Id), g \in Permutations({b1, b2})}
=============================================================================
