---------------------------- MODULE MCDriverTurn ----------------------------
(***************************************************************************)
(* Symmetry for the runs of DriverTurn.                                    *)
(***************************************************************************)
EXTENDS DriverTurn

DriverSymmetry == Permutations(Pages) \cup Permutations(Chats)
=============================================================================
