---------------------------- MODULE MCFileStore ----------------------------
(***************************************************************************)
(* Symmetry for the runs of FileStore.                                     *)
(***************************************************************************)
EXTENDS FileStore, TLC

FileSymmetry ==
  Permutations(Tasks) \cup Permutations(FileIds) \cup Permutations(Hashes)
    \cup Permutations(Conversations)
=============================================================================
