---------------------------- MODULE MCApprovals ----------------------------
(* Approvals on small instances: a writer w, two calls e1 and e2 under an     *)
(* explicit ask rule, a sandbox escape x, a plan p and a question q. The edit  *)
(* tools share one session grant.                                             *)
EXTENDS Approvals

CONSTANTS w, e1, e2, x, p, q

MCKind == [c \in Call |-> CASE c = w -> "writer"
                            [] c \in {e1, e2} -> "asked"
                            [] c = x -> "trust"
                            [] c = p -> "plan"
                            [] c = q -> "question"]
MCScopeOf == [c \in Call |-> IF c = x THEN "escape" ELSE "edit"]

=============================================================================
