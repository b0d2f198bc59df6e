---------------------------- MODULE ApprovalCard ----------------------------
(***************************************************************************)
(* One approval card and everyone who may move it: the owner's decisions   *)
(* over the worker API (decideApprovalCommand, from either channel) and    *)
(* the approval-flow workflow (runApprovalFlow: record, surface, apply,    *)
(* dispatch, and the snooze tick), all over one compare-and-set.           *)
(*                                                                         *)
(* Both paths read the card, decide, and write awaits later.  A command    *)
(* that is running when the worker dies is lost; a workflow resumes, and   *)
(* Temporal runs again an activity whose result it did not get.            *)
(***************************************************************************)
EXTENDS Naturals

CONSTANTS
  Commands,       \* concurrent calls of decideApprovalCommand
  Flows,          \* runs of the approval-flow workflow for this card
  CommandDecisions, FlowDecisions,   \* the decisions each path is given
  Ticks,          \* TRUE iff snooze ticks are started
  SnoozeWindow, ExpiryWindow,        \* 24h and 7d, in ticks of the clock
  MaxTime,        \* bound on the clock
  MaxRetries,     \* bound on the activity results that are lost
  MaxCrashes      \* bound on the number of worker crashes

ASSUME CardAssumption ==
  /\ {SnoozeWindow, ExpiryWindow, MaxTime, MaxRetries, MaxCrashes} \subseteq Nat
  /\ Ticks \in BOOLEAN
  /\ Commands \cap Flows = {}
  /\ CommandDecisions \cup FlowDecisions \subseteq {"approved", "edited", "rejected", "deferred"}

VARIABLES
  card,         \* the approvals row, or NoCard
  row,          \* the write_receipts row of the envelope's object
  pc, decision, \* each actor's await, and the status it was asked for
  read,         \* the record it read and acts on
  next,         \* the record a command will write
  result,       \* what it reported
  boot,         \* when buildProofSpineActivities ran: its now() is read once
  approvals,    \* (history) transitions to approved that were applied
  dispatched,   \* (history) TRUE once somebody dispatched the approved action
  now, retries, crashes

actors  == <<pc, decision, read, next, result>>
history == <<approvals, dispatched>>
bounds  == <<now, retries, crashes>>
vars    == <<card, row, actors, boot, history, bounds>>

Actors   == Commands \cup Flows
NoCard   == [status |-> "absent"]
Terminal == {"approved", "edited", "rejected", "expired"}
Statuses == {"pending", "deferred"} \cup Terminal
Never    == MaxTime + ExpiryWindow + SnoozeWindow + 1   \* an absent instant

\* approvalMachine: the legal edges, a terminal status being its own target.
Edge(from, to) ==
  \/ from = "pending" /\ to \in Terminal \cup {"deferred"}
  \/ from = "deferred" /\ to \in {"pending", "expired"}
  \/ from \in Terminal /\ to = from

\* (mutant) The replay of an applied transition is applied again.
VerdictReapplies(current, from, to) ==
  IF current = to \/ (current \notin Terminal /\ current = from) THEN "apply" ELSE "conflict"

\* (mutant) Terminal records are compared like any other.
VerdictThaws(current, from, to) ==
  IF current = to THEN "noop" ELSE IF current = from THEN "apply" ELSE "conflict"

\* decideApprovalCas: what the compare-and-set does with the current status.
Verdict(current, from, to) ==
  IF current = to THEN "noop"
  ELSE IF current \notin Terminal /\ current = from THEN "apply"
  ELSE "conflict"

Init ==
  /\ card = NoCard /\ row = "none"
  /\ pc = [a \in Actors |-> "idle"]
  /\ decision = [a \in Actors |-> "none"]
  /\ read = [a \in Actors |-> NoCard]
  /\ result = [a \in Actors |-> "none"]
  /\ next = [a \in Actors |-> NoCard]
  /\ boot = 0 /\ approvals = 0 /\ dispatched = FALSE
  /\ now = 0 /\ retries = 0 /\ crashes = 0

Goto(a, to) == pc' = [pc EXCEPT ![a] = to]
Finish(a, r) == Goto(a, "done") /\ result' = [result EXCEPT ![a] = r]

\* ApprovalRepository.applyTransition, one conditional UPDATE: the new record
\* replaces the old one whole.
Replace(record) ==
  /\ card' = record
  /\ approvals' = IF record.status = "approved" THEN approvals + 1 ELSE approvals
Keep == UNCHANGED <<card, approvals>>

-----------------------------------------------------------------------------
(* The command path. *)

Pending(born) == [status |-> "pending", snooze |-> Never, expiry |-> born + ExpiryWindow]

\* createApprovalsProposeSink raises the card outside the workflow.
Propose ==
  /\ card = NoCard
  /\ card' = Pending(now)
  /\ UNCHANGED <<row, actors, boot, history, bounds>>

Decide(a, to) ==
  /\ a \in Commands /\ pc[a] = "idle"
  /\ Goto(a, "read")
  /\ decision' = [decision EXCEPT ![a] = to]
  /\ UNCHANGED <<card, row, read, next, result, boot, history, bounds>>

\* (mutant) The deferral's re-surface instant is left out.
NextRecordUnstamped(to) == [status |-> to, expiry |-> now + ExpiryWindow]

\* nextRecord: only a deferral carries the windows.
NextRecord(to) ==
  IF to = "deferred"
  THEN [status |-> to, snooze |-> now + SnoozeWindow, expiry |-> now + ExpiryWindow]
  ELSE [status |-> to, snooze |-> Never, expiry |-> Never]

\* get: expectedFrom is whatever status the card has now.
ReadCard(a) ==
  /\ pc[a] = "read"
  /\ \/ card = NoCard /\ Finish(a, "not_found") /\ UNCHANGED <<read, next>>
     \/ /\ card # NoCard
        /\ Goto(a, "cas")
        /\ read' = [read EXCEPT ![a] = card]
        /\ next' = [next EXCEPT ![a] = NextRecord(decision[a])]
        /\ UNCHANGED result
  /\ UNCHANGED <<card, row, decision, boot, history, bounds>>

CommandCas(a) ==
  LET verdict == Verdict(card.status, read[a].status, decision[a]) IN
  /\ pc[a] = "cas"
  /\ \/ verdict = "apply" /\ Replace(next[a]) /\ Goto(a, "dispatch") /\ UNCHANGED result
     \/ verdict # "apply" /\ Keep /\ Finish(a, verdict)
  /\ UNCHANGED <<row, decision, read, next, boot, dispatched, bounds>>

\* dispatchExternalWrite as the card sees it: a placeholder holds the write, and
\* any other failure leaves the row as it was.
Dispatched(a) ==
  /\ dispatched' = TRUE
  /\ \/ row # "reserved" /\ row' = "committed" /\ Finish(a, "sent")
     \/ row = "reserved" /\ Finish(a, "in_progress") /\ UNCHANGED row
     \/ Finish(a, "failed") /\ UNCHANGED row

\* dispatchApproval is called for every applied decision; it sends an approval.
CommandDispatch(a) ==
  /\ a \in Commands /\ pc[a] = "dispatch"
  /\ \/ decision[a] = "approved" /\ Dispatched(a)
     \/ decision[a] # "approved" /\ Finish(a, "decided") /\ UNCHANGED <<row, dispatched>>
  /\ UNCHANGED <<card, decision, read, next, boot, approvals, bounds>>

-----------------------------------------------------------------------------
(* The approval-flow workflow. *)

StartFlow(a, to) ==
  /\ a \in Flows /\ pc[a] = "idle"
  /\ Goto(a, "record")
  /\ decision' = [decision EXCEPT ![a] = to]
  /\ UNCHANGED <<card, row, read, next, result, boot, history, bounds>>

\* recordPending reserves the object, then creates the card or reuses it.
RecordPending(a) ==
  /\ pc[a] = "record"
  /\ row' = IF row = "none" THEN "reserved" ELSE row
  /\ card' = IF card = NoCard THEN Pending(boot) ELSE card
  /\ read' = [read EXCEPT ![a] = card']
  /\ Goto(a, "surface")
  /\ UNCHANGED <<decision, next, result, boot, history, bounds>>

\* A card that does not render on both channels ends the run.
SurfaceCard(a) ==
  /\ pc[a] = "surface"
  /\ \/ Goto(a, IF decision[a] = "tick" THEN "done" ELSE "apply") /\ UNCHANGED result
     \/ Finish(a, "parity_failed")
  /\ UNCHANGED <<card, row, decision, read, next, boot, history, bounds>>

\* The record the apply activity writes: the one it was given, restamped.
FlowRecord(a) ==
  [read[a] EXCEPT !.status = decision[a],
                  !.snooze = IF decision[a] = "deferred" THEN boot + SnoozeWindow ELSE @]

\* The activity's result is lost: Temporal will run it again as it was.  (The
\* re-read after a lost compare-and-set only chooses the error that is reported.)
LoseResult(a) ==
  /\ retries < MaxRetries
  /\ retries' = retries + 1
  /\ UNCHANGED <<pc, result>>

ApplyDecision(a) ==
  LET from    == read[a].status
      to      == decision[a]
      verdict == Verdict(card.status, from, to)
      settle  == IF verdict = "apply"
                 THEN IF to = "approved" THEN Goto(a, "dispatch") /\ UNCHANGED result
                                         ELSE Finish(a, "decided")
                 ELSE Finish(a, verdict)
  IN
  /\ pc[a] = "apply"
  /\ \/ /\ ~Edge(from, to)
        /\ Finish(a, "illegal_transition")
        /\ Keep /\ UNCHANGED retries
     \/ /\ Edge(from, to)
        /\ IF verdict = "apply" THEN Replace(FlowRecord(a)) ELSE Keep
        /\ (settle /\ UNCHANGED retries) \/ LoseResult(a)
  /\ UNCHANGED <<row, decision, read, next, boot, dispatched, now, crashes>>

FlowDispatch(a) ==
  /\ a \in Flows /\ pc[a] = "dispatch"
  /\ \/ Dispatched(a) /\ UNCHANGED retries
     \/ LoseResult(a) /\ dispatched' = TRUE
        /\ row' = IF row = "reserved" THEN row ELSE "committed"
  /\ UNCHANGED <<card, decision, read, next, boot, approvals, now, crashes>>

\* A snooze tick is started with the deferred record it is about.
StartTick(a) ==
  /\ Ticks /\ a \in Flows /\ pc[a] = "idle"
  /\ card # NoCard /\ card.status = "deferred"
  /\ Goto(a, "tick")
  /\ decision' = [decision EXCEPT ![a] = "tick"]
  /\ read' = [read EXCEPT ![a] = card]
  /\ UNCHANGED <<card, row, next, result, boot, history, bounds>>

\* evaluateDeferred (expiry first) on the tick's record, then applySystem.
SnoozeTick(a) ==
  LET to      == IF now >= read[a].expiry THEN "expired" ELSE "pending"
      verdict == Verdict(card.status, "deferred", to)
      settle  == IF verdict = "conflict" \/ to = "expired" THEN Finish(a, verdict)
                 ELSE Goto(a, "surface") /\ UNCHANGED result
  IN
  /\ pc[a] = "tick"
  /\ \/ /\ now < read[a].expiry /\ now < read[a].snooze
        /\ Finish(a, "sleep")
        /\ Keep /\ UNCHANGED retries
     \/ /\ now >= read[a].expiry \/ now >= read[a].snooze
        /\ IF verdict = "apply"
           THEN Replace([read[a] EXCEPT !.status = to, !.snooze = Never])
           ELSE Keep
        /\ (settle /\ UNCHANGED retries) \/ LoseResult(a)
  /\ UNCHANGED <<row, decision, read, next, boot, dispatched, now, crashes>>

-----------------------------------------------------------------------------
\* The caller takes the answer; a later decision or tick is a new run.
Collect(a) ==
  /\ pc[a] = "done"
  /\ Goto(a, "idle")
  /\ decision' = [decision EXCEPT ![a] = "none"]
  /\ read' = [read EXCEPT ![a] = NoCard]
  /\ next' = [next EXCEPT ![a] = NoCard]
  /\ result' = [result EXCEPT ![a] = "none"]
  /\ UNCHANGED <<card, row, boot, history, bounds>>

Tick ==
  /\ now < MaxTime
  /\ now' = now + 1
  /\ UNCHANGED <<card, row, actors, boot, history, retries, crashes>>

\* The worker restarts: commands in flight are lost, workflows are not.
Lost(f, empty) == [a \in Actors |-> IF a \in Commands THEN empty ELSE f[a]]

Crash ==
  /\ crashes < MaxCrashes
  /\ crashes' = crashes + 1
  /\ boot' = now
  /\ pc' = Lost(pc, "idle") /\ decision' = Lost(decision, "none")
  /\ read' = Lost(read, NoCard) /\ next' = Lost(next, NoCard) /\ result' = Lost(result, "none")
  /\ UNCHANGED <<card, row, history, now, retries>>

Next ==
  \/ \E a \in Actors :
       \/ \E to \in CommandDecisions : Decide(a, to)
       \/ \E to \in FlowDecisions : StartFlow(a, to)
       \/ ReadCard(a) \/ CommandCas(a) \/ CommandDispatch(a)
       \/ RecordPending(a) \/ SurfaceCard(a) \/ ApplyDecision(a) \/ FlowDispatch(a)
       \/ StartTick(a) \/ SnoozeTick(a) \/ Collect(a)
  \/ Propose \/ Tick \/ Crash

Spec == Init /\ [][Next]_vars

-----------------------------------------------------------------------------
Instants == 0..Never
Cards    == [status: Statuses, snooze: Instants, expiry: Instants]

TypeOK ==
  /\ card \in Cards \cup {NoCard}
  /\ row \in {"none", "reserved", "committed"}
  /\ pc \in [Actors -> {"idle", "read", "cas", "dispatch", "record", "surface",
                        "apply", "tick", "done"}]
  /\ decision \in [Actors -> Statuses \cup {"none", "tick"}]
  /\ read \in [Actors -> Cards \cup {NoCard}] /\ next \in [Actors -> Cards \cup {NoCard}]
  /\ result \in [Actors -> {"none", "not_found", "noop", "conflict", "decided", "apply",
                            "illegal_transition", "parity_failed", "sent",
                            "in_progress", "failed", "sleep"}]
  /\ {boot, now} \subseteq 0..MaxTime
  /\ approvals \in Nat /\ dispatched \in BOOLEAN /\ retries \in 0..MaxRetries /\ crashes \in 0..MaxCrashes

\* "Cannot transition OUT of a tombstoned/terminal approval": once decided, the
\* record never changes again, whatever stale read, retry or late tick follows.
TerminalIsFrozen == [][card.status \in Terminal => card' = card]_vars

\* "Drives a downstream side effect ONLY on a genuine transition": of two
\* channels, a workflow, their retries and crashes, one approval wins, one actor
\* is at the dispatch of it, and the card it dispatches is still approved.
Dispatching(a) == pc[a] = "dispatch" /\ decision[a] = "approved"
DispatchedOnce ==
  /\ approvals <= 1
  /\ \A a, b \in Actors : Dispatching(a) /\ Dispatching(b) => a = b
  /\ dispatched \/ (\E a \in Actors : Dispatching(a)) => card.status = "approved"
=============================================================================
