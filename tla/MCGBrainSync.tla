---------------------------- MODULE MCGBrainSync ----------------------------
(* Instances of GBrainSync for TLC. *)
EXTENDS GBrainSync

CONSTANTS a, b
MCText == [r \in Revisions |-> [p \in Pages |-> r]]
=============================================================================
