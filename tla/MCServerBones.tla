----------------------------- MODULE MCServerBones -----------------------------
(* Instances of ServerBones for TLC.                                        *)
EXTENDS ServerBones, TLC

Symmetry == Permutations(Slaves)

===============================================================================
