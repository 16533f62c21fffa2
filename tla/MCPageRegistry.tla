--------------------------- MODULE MCPageRegistry ---------------------------
(***************************************************************************)
(* Symmetry for the runs of PageRegistry that check one safety property,   *)
(* and, for the run with liveness, the same by constraint: a Page that is  *)
(* opened is the first of those that are not there.                        *)
(***************************************************************************)
EXTENDS PageRegistry, TLC

RegistrySymmetry == Permutations(Conversations) \cup Permutations(Pages)

PagesInOrder == open' \ open # {} => (CHOOSE p \in FreshPages : TRUE) \in open'
=============================================================================
