--------------------------- MODULE MCSessionStore ---------------------------
(* SessionStore on a small instance: two runtimes, messages a and b, and the  *)
(* transcripts <<a>>, its extension <<a, b>>, and <<b>>, which extends none.   *)
EXTENDS SessionStore, TLC

CONSTANTS a, b

Texts == {<<a>>, <<a, b>>, <<b>>}
Symmetry == Permutations(Runtime)
=============================================================================
