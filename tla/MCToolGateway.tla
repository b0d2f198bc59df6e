--------------------------- MODULE MCToolGateway ---------------------------
(* Instances of ToolGateway for TLC: e1 and e2 carry different payloads for    *)
(* the one object obj, which somebody else may have created already.           *)
EXTENDS ToolGateway, TLC

CONSTANTS e1, e2, obj, p1, p2

MCObjectOf  == [e \in Envelopes |-> obj]
MCPayloadOf == [e \in Envelopes |-> IF e = e2 THEN p2 ELSE p1]

\* Envelopes may be swapped too: both need approval, both are for obj, and their
\* payloads are only compared, so what matters is that they differ.
Symm == Permutations(Dispatchers) \cup Permutations(Envelopes)
=============================================================================
