-------------------------- MODULE MCExternalWrites --------------------------
(* Instances of ExternalWrites for TLC: two proposals for one object.          *)
EXTENDS ExternalWrites

CONSTANTS drain, s1, e1, e2, obj, p1, p2

MCObjectOf  == [e \in Envelopes |-> obj]
MCPayloadOf == [e \in Envelopes |-> IF e = e2 THEN p2 ELSE p1]

\* The hypothesis under which the refinement of WriteIntent is proved.
ASSUME IntentHypothesis == AllNeedApproval
=============================================================================
