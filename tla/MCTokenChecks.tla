---------------------------- MODULE MCTokenChecks ----------------------------
(* One project, two checks of one token at once.                              *)
EXTENDS TokenChecks, TLC

CheckerSymmetry == Permutations(Checkers)
==============================================================================
