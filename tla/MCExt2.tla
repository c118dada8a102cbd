------------------------------- MODULE MCExt2 -------------------------------
(* The constants of the Ext2 runs: names are interchangeable.              *)
EXTENDS Ext2, TLC

NameSymmetry == Permutations(Name)
=============================================================================
