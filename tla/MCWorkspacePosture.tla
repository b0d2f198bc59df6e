------------------------- MODULE MCWorkspacePosture -------------------------
(* An instance of WorkspacePosture for TLC: an employer's workspace and        *)
(* another, and one link that may be asked for in either direction.            *)
EXTENDS WorkspacePosture, TLC

CONSTANTS w1, w2

MCTypes  == {Employer, "personal_life"}
MCGrants == {<<w1, w2>>, <<w2, w1>>}
Symm     == Permutations(Calls)
=============================================================================
