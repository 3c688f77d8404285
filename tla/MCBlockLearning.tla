-------------------------- MODULE MCBlockLearning ---------------------------
(***************************************************************************)
(* Small instances of BlockLearning.                                       *)
(***************************************************************************)
EXTENDS BlockLearning, TLC

Twins == Permutations(Calls) \union Permutations(Blocks) \union Permutations(Texts)
=============================================================================
