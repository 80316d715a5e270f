---------------------------- MODULE MCFileCaches ----------------------------
(* TLC instance of FileCaches: the readers' threads are interchangeable.    *)
EXTENDS FileCaches, TLC

ReaderSymmetry == Permutations(Readers)
=============================================================================
