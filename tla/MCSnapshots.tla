---------------------------- MODULE MCSnapshots ----------------------------
(* Snapshots on a small instance.                                             *)
EXTENDS Snapshots, TLC

Sound == ~amiss
Symmetry ==
  Permutations(Controller) \cup Permutations(Root) \cup Permutations(Prompt) \cup Permutations(Answer)
=============================================================================
