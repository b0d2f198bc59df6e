--------------------------- MODULE ExternalWrites ---------------------------
(***************************************************************************)
(* An external write from its proposal to its receipt: the Copilot's       *)
(* proposal saved in the write outbox under an approval card, the owner's  *)
(* decision, the sender behind the decision and behind "Send now", and the *)
(* wake drain, each driving the Tool Gateway over the same saved entry.    *)
(*                                                                         *)
(* Every update of a saved entry writes back the snapshot its author read  *)
(* before it dispatched.  The moves of the card itself are ApprovalCard's: *)
(* here a decision is one step.                                            *)
(***************************************************************************)
EXTENDS ToolGateway

CONSTANTS
  Drain,      \* the dispatcher of the wake drain; the others are senders
  Armed       \* envelopes whose system has a real sender

ASSUME WritesAssumption ==
  /\ Drain \in Dispatchers
  /\ Armed \subseteq Envelopes

\* Whatever is proposed waits for the owner: every producer of an action forces
\* requires_approval on it (copilotPropose.ts, proposed-action-producer.ts) and no
\* policy waives what its action asks for (approval-policy.ts).
AllNeedApproval == NeedsApproval = Envelopes

VARIABLES
  card,       \* each envelope's approval card
  entry,      \* its saved outbox entry
  backoff,    \* entries whose nextAttemptAt lies ahead
  snap,       \* the entry each dispatcher drives, as it read it
  batch,      \* the entries the drain listed and has not come to yet
  closing,    \* rejected cards whose entry is to be looked up
  shut        \* entries that were looked up, as read, and are to be closed

papers     == <<card, entry, backoff>>
closes     == <<closing, shut>>
drives     == <<snap, batch, closes>>
writesVars == <<vars, papers, drives>>

Senders == Dispatchers \ {Drain}

\* A saved entry; a snapshot of one also says whose it is.
NoEntry         == [status |-> "none", at |-> 0]
Saved(at)       == [status |-> "proposed", at |-> at]
Snapshot(e)     == [of |-> e, status |-> entry[e].status, at |-> entry[e].at]
NoSnapshot      == [of |-> NoEnv, status |-> "none", at |-> 0]
TerminalEntries == {"receipt_recorded", "rejected"}
Open(e)         == entry[e].status \in {"proposed", "retry_queued"}

WritesInit ==
  /\ Init
  /\ card = [e \in Envelopes |-> "none"]
  /\ entry = [e \in Envelopes |-> NoEntry]
  /\ backoff = {} /\ batch = {} /\ closing = {} /\ shut = {}
  /\ snap = [d \in Dispatchers |-> NoSnapshot]

\* OutboxRepository.update: the row is replaced, whatever it has become.
WriteBack(s, status) == entry' = [entry EXCEPT ![s.of] = [status |-> status, at |-> s.at]]

-----------------------------------------------------------------------------
(* The proposal: the action is saved first, then the card is raised. *)

ProposeSave(e) ==
  /\ entry[e] = NoEntry
  /\ entry' = [entry EXCEPT ![e] = Saved(now)]
  /\ UNCHANGED <<vars, card, backoff, drives>>

\* Also the proposal made again after a crash: the saved entry is reused.
ProposeCard(e) ==
  /\ entry[e] # NoEntry /\ card[e] = "none"
  /\ card' = [card EXCEPT ![e] = "pending"]
  /\ UNCHANGED <<vars, entry, backoff, drives>>

-----------------------------------------------------------------------------
(* The owner. *)

OwnerApproves(e) ==
  /\ card[e] = "pending"
  /\ card' = [card EXCEPT ![e] = "approved"]
  /\ approved' = approved \cup {e}
  /\ UNCHANGED <<local, store, outside, pending, counters, entry, backoff, drives>>

\* (mutant) A decision is recorded over one that was taken already.
OwnerRejectsLate(e) ==
  /\ card[e] \in {"pending", "approved"}
  /\ card' = [card EXCEPT ![e] = "rejected"]
  /\ closing' = closing \cup {e}
  /\ UNCHANGED <<vars, entry, backoff, snap, batch, shut>>

\* Rejected or edited: the decision is recorded, then the entry is closed.
OwnerRejects(e) ==
  /\ card[e] = "pending"
  /\ card' = [card EXCEPT ![e] = "rejected"]
  /\ closing' = closing \cup {e}
  /\ UNCHANGED <<vars, entry, backoff, snap, batch, shut>>

\* closeSavedEntry touches no terminal entry, as it read it.
FindEntry(e) ==
  /\ e \in closing
  /\ closing' = closing \ {e}
  /\ shut' = IF Open(e) THEN shut \cup {Snapshot(e)} ELSE shut
  /\ UNCHANGED <<vars, papers, snap, batch>>

CloseEntry ==
  \E s \in shut :
    /\ shut' = shut \ {s}
    /\ WriteBack(s, "rejected")
    /\ UNCHANGED <<vars, card, backoff, snap, batch, closing>>

\* The decision's dispatch, or "Send now": single-flight for each card.  It
\* checks the saved entry, and an entry that is done or unarmed is left alone.
Send(d, e) ==
  /\ d \in Senders
  /\ card[e] = "approved" /\ Open(e) /\ e \in Armed
  /\ \A s \in Senders : snap[s].of # e
  /\ Start(d, e, entry[e].at)
  /\ snap' = [snap EXCEPT ![d] = Snapshot(e)]
  /\ UNCHANGED <<papers, batch, closes>>

-----------------------------------------------------------------------------
(* The wake drain. *)

\* listDue: every open entry whose retry time has come.
ListDue ==
  /\ batch = {} /\ pc[Drain] = "idle"
  /\ batch' = {Snapshot(e) : e \in {x \in Envelopes : Open(x) /\ x \notin backoff}}
  /\ batch' # {}
  /\ UNCHANGED <<vars, papers, snap, closes>>

\* Oldest first; an entry without a real sender is only put off.
DriveNext ==
  /\ pc[Drain] = "idle"
  /\ \E s \in batch :
       /\ \A t \in batch : s.at <= t.at
       /\ batch' = batch \ {s}
       /\ \/ /\ s.of \in Armed
             /\ Start(Drain, s.of, s.at)
             /\ snap' = [snap EXCEPT ![Drain] = s]
             /\ UNCHANGED papers
          \/ /\ s.of \notin Armed
             /\ WriteBack(s, s.status)
             /\ backoff' = backoff \cup {s.of}
             /\ UNCHANGED <<vars, card, snap>>
  /\ UNCHANGED closes

\* (mutant) A superseded write is queued again.
FoldedSupersededQueues(status) ==
  CASE status \in {"created", "updated", "reused"} -> "receipt_recorded"
    [] status = "approval_pending"                 -> "proposed"
    [] status \in {"held", "superseded"}           -> "retry_queued"
    [] OTHER                                       -> "rejected"

\* (mutant) The gateway's own word is stored for a write that waits.
FoldedVerbatim(status) ==
  CASE status \in {"created", "updated", "reused"} -> "receipt_recorded"
    [] status = "approval_pending"                 -> "approval_pending"
    [] status = "held"                             -> "retry_queued"
    [] OTHER                                       -> "rejected"

\* applyOutcome, shared by the drain and the senders.
FoldedStatus(status) ==
  CASE status \in {"created", "updated", "reused"} -> "receipt_recorded"
    [] status = "approval_pending"                 -> "proposed"
    [] status = "held"                             -> "retry_queued"
    [] OTHER                                       -> "rejected"

Fold(d) ==
  /\ Collect(d)
  /\ WriteBack(snap[d], FoldedStatus(outcome[d]))
  /\ backoff' = IF outcome[d] \in {"held", "approval_pending"}
                THEN backoff \cup {snap[d].of} ELSE backoff
  /\ snap' = [snap EXCEPT ![d] = NoSnapshot]
  /\ UNCHANGED <<card, batch, closes>>

\* nextAttemptAt comes.
BackoffElapses(e) ==
  /\ e \in backoff
  /\ backoff' = backoff \ {e}
  /\ UNCHANGED <<vars, card, entry, drives>>

-----------------------------------------------------------------------------
Gateway(d) == Dispatch(d) /\ UNCHANGED <<papers, drives>>
World      == ((\E e \in Envelopes : LateArrival(e)) \/ Tick) /\ UNCHANGED <<papers, drives>>

\* A crash loses whatever was in flight; papers and rows stay.
WorkerCrash ==
  /\ Crash
  /\ snap' = [d \in Dispatchers |-> NoSnapshot]
  /\ batch' = {} /\ closing' = {} /\ shut' = {}
  /\ UNCHANGED papers

WritesNext ==
  \/ \E e \in Envelopes :
       \/ ProposeSave(e) \/ ProposeCard(e) \/ OwnerApproves(e) \/ OwnerRejects(e)
       \/ FindEntry(e) \/ BackoffElapses(e)
       \/ \E d \in Dispatchers : Send(d, e)
  \/ \E d \in Dispatchers : Gateway(d) \/ Fold(d)
  \/ CloseEntry \/ ListDue \/ DriveNext \/ World \/ WorkerCrash

WritesSpec == WritesInit /\ [][WritesNext]_writesVars

-----------------------------------------------------------------------------
(* Fairness: awaits return, a drain goes on through its batch, backoffs elapse, *)
(* and a keychain or a vendor that is asked again and again answers in the end. *)
(* Nothing is assumed of the wakes: the drain runs once for each connection to  *)
(* Temporal, and on an install without the proof spine not at all.              *)

Answer(d, call) == call /\ pc'[d] \notin {"done", "release"} /\ UNCHANGED <<papers, drives>>

FairWrites ==
  /\ WritesSpec
  /\ WF_writesVars(DriveNext)
  /\ \A e \in Envelopes : WF_writesVars(BackoffElapses(e))
  /\ \A d \in Dispatchers :
       /\ WF_writesVars(Gateway(d)) /\ WF_writesVars(Fold(d))
       /\ SF_writesVars(Answer(d, ResolveCredential(d)))
       /\ SF_writesVars(Answer(d, Probe(d)))
       /\ SF_writesVars(Answer(d, Create(d)))
       /\ SF_writesVars(Answer(d, Update(d)))

-----------------------------------------------------------------------------
WritesTypeOK ==
  /\ TypeOK
  /\ card \in [Envelopes -> {"none", "pending", "approved", "rejected"}]
  /\ entry \in [Envelopes -> [status: {"none", "proposed", "retry_queued"} \cup TerminalEntries,
                              at: Time]]
  /\ backoff \subseteq Envelopes /\ closing \subseteq Envelopes
  /\ snap \in [Dispatchers -> [of: Envelopes \cup {NoEnv},
                               status: {"none", "proposed", "retry_queued"}, at: Time]]
  /\ batch \cup shut \subseteq [of: Envelopes, status: {"proposed", "retry_queued"}, at: Time]

\* The owner's decision on each write, as its card shows it.
Decided == [e \in Envelopes |-> CASE card[e] = "approved" -> "approved"
                                  [] card[e] = "rejected" -> "refused"
                                  [] OTHER -> "open"]

\* Whatever is held, drained, resent, lost or crashed, the owner's decision is
\* taken once and only approved writes reach the vendor.
Intent == INSTANCE WriteIntent WITH decided <- Decided, written <- landed
KeepsTheIntent == Intent!Spec

\* The placeholder of a create that a crash cut off: nothing takes it away, and
\* every later dispatch for the object is held.
Orphaned(o) == row[o] = Reserved /\ \A d \in Dispatchers : ~(Creating(d) /\ Obj(d) = o)

\* "Re-driving ... never drops": as long as a wake comes whenever entries lie due,
\* an approved write whose system is armed ends in a receipt or a refusal, it is not
\* retried for ever; but for one whose object is left with an orphaned placeholder.
ApprovedIsSettled ==
  WF_writesVars(ListDue) =>
    \A e \in Armed : card[e] = "approved" ~>
      entry[e].status \in TerminalEntries \/ Orphaned(ObjectOf[e])
=============================================================================
