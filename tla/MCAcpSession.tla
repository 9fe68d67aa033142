---------------------------- MODULE MCAcpSession ----------------------------
(* The instance of AcpSession that TLC checks. *)
EXTENDS AcpSession, TLC

Symmetry == Permutations(Request) \cup Permutations(Branch)

=============================================================================
