---------------------------- MODULE MCMemberships ----------------------------
(* Two joins at once, of one user or of two, into one project, while an        *)
(* administrator edits the project and the memberships.                        *)
EXTENDS Memberships, TLC

JoinerSymmetry == Permutations(Joiners)
==============================================================================
