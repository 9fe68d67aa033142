--------------------------- MODULE MCSessionLease ---------------------------
(* SessionLease on small instances: the threads a1, a2 of process A and the  *)
(* thread b of process B.                                                    *)
EXTENDS SessionLease, TLC

CONSTANTS a1, a2, b, A, B

MCProcessOf == [t \in Thread |-> IF t = b THEN B ELSE A]
Symmetry == Permutations(Inode) \cup Permutations({a1, a2})
=============================================================================
