-------------------------- MODULE MCGBrainServing --------------------------
(* An instance of GBrainServing for TLC: a page that revision a does not have  *)
(* and revision b does.                                                        *)
EXTENDS GBrainServing

CONSTANTS a, b, p, text

MCText == [r \in Revisions |-> [g \in Pages |-> IF r = a THEN NoText ELSE text]]
=============================================================================
