---------------------------- MODULE MCProjectAdmin ----------------------------
(* Two projects that compete for a join code, two editors at once.            *)
EXTENDS ProjectAdmin, TLC

EditorSymmetry == Permutations(Editors)
==============================================================================
