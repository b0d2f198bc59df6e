------------------------- MODULE MCKnowledgeWriter -------------------------
(* Instances of KnowledgeWriter for TLC: a Copilot plan that creates one note  *)
(* and patches another, an ingestion plan on both notes, and a meeting plan    *)
(* whose base is pinned.                                                       *)
EXTENDS KnowledgeWriter

CONSTANTS n1, n2, copilot, ingest, meeting, e1, e2

MCCreates == [p \in Plans |-> IF p = copilot THEN {n1} ELSE IF p = ingest THEN {n2} ELSE {}]
MCPatches == [p \in Plans |-> IF p = meeting THEN {n1, n2}
                              ELSE IF p = ingest THEN {n1} ELSE {n2}]
=============================================================================
