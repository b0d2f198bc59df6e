--------------------------- MODULE MCConnectorSync ---------------------------
(* Instances of ConnectorSync for TLC. *)
EXTENDS ConnectorSync

CONSTANTS a, b, r1, r2
MCPages == <<<<>>, <<r1, r2>>>>
MCHashOf == [r \in Records |-> IF r = r1 THEN a ELSE b]
=============================================================================
