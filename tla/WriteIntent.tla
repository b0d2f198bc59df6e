---------------------------- MODULE WriteIntent ----------------------------
(***************************************************************************)
(* What the assistant promises about an external write, with nothing of    *)
(* how it is done: the owner decides each proposed write once, and only a  *)
(* write the owner approved is ever made.                                  *)
(***************************************************************************)
CONSTANT Envelopes

VARIABLES
  decided,   \* the owner's decision on each write
  written    \* the writes that reached the vendor

Init ==
  /\ decided = [e \in Envelopes |-> "open"]
  /\ written = {}

Decide(e, verdict) ==
  /\ decided[e] = "open"
  /\ decided' = [decided EXCEPT ![e] = verdict]
  /\ UNCHANGED written

Write(e) ==
  /\ decided[e] = "approved"
  /\ written' = written \cup {e}
  /\ UNCHANGED decided

Next ==
  \E e \in Envelopes : Write(e) \/ \E verdict \in {"approved", "refused"} : Decide(e, verdict)

Spec == Init /\ [][Next]_<<decided, written>>
=============================================================================
