------------------------- MODULE ApprovalCardProofs -------------------------
(* What an approval card guarantees for every number of commands and          *)
(* workflow runs, every clock, and every bound on retries and crashes.        *)
EXTENDS ApprovalCard, TLAPS

-----------------------------------------------------------------------------
(* The compare-and-set *)

\* decideApprovalCas applies a change to a card that is not decided, and that
\* still has the status the change was computed from.
LEMMA VerdictApplies ==
  ASSUME NEW current, NEW from, NEW to, Verdict(current, from, to) = "apply"
  PROVE  current \notin Terminal /\ current = from /\ current # to
BY DEF Verdict

\* Only the compare-and-set changes a card that is there.
LEMMA CardMoves ==
  ASSUME [Next]_vars
  PROVE  card' = card \/ card = NoCard \/ card.status \notin Terminal
<1>n. [Next]_vars
  OBVIOUS
<1>1. ASSUME NEW a \in Actors, CommandCas(a) PROVE card' = card \/ card.status \notin Terminal
  BY ONLY <1>1, VerdictApplies DEF CommandCas, Keep
<1>2. ASSUME NEW a \in Actors, ApplyDecision(a) PROVE card' = card \/ card.status \notin Terminal
  BY ONLY <1>2, VerdictApplies DEF ApplyDecision, Keep
<1>3. ASSUME NEW a \in Actors, SnoozeTick(a) PROVE card' = card \/ card.status \notin Terminal
  BY ONLY <1>3, VerdictApplies DEF SnoozeTick, Keep
<1>4. ASSUME NEW a \in Actors, RecordPending(a) PROVE card' = card \/ card = NoCard
  BY ONLY <1>4 DEF RecordPending
<1>5. ASSUME NEW a \in Actors,
             \/ \E to \in CommandDecisions : Decide(a, to)
             \/ \E to \in FlowDecisions : StartFlow(a, to)
             \/ ReadCard(a) \/ CommandDispatch(a) \/ SurfaceCard(a) \/ FlowDispatch(a)
             \/ StartTick(a) \/ Collect(a)
      PROVE  card' = card
  BY ONLY <1>5 DEF Decide, StartFlow, ReadCard, CommandDispatch, SurfaceCard, FlowDispatch,
     StartTick, Collect
<1>6. ASSUME Propose PROVE card = NoCard
  BY ONLY <1>6 DEF Propose
<1>7. ASSUME Tick \/ Crash \/ UNCHANGED vars PROVE card' = card
  BY ONLY <1>7 DEF Tick, Crash, vars
<1> QED
  BY ONLY <1>n, <1>1, <1>2, <1>3, <1>4, <1>5, <1>6, <1>7 DEF Next

\* "Cannot transition OUT of a tombstoned/terminal approval": a decided record
\* never changes again, whatever stale read, retry or late tick follows.
THEOREM DecidedIsFrozen == Spec => TerminalIsFrozen
<1>1. [Next]_vars => [card.status \in Terminal => card' = card]_vars
  <2>1. NoCard.status \notin Terminal
    BY DEF NoCard, Terminal
  <2> QED BY CardMoves, <2>1
<1> QED BY <1>1, PTL DEF Spec, TerminalIsFrozen

-----------------------------------------------------------------------------
(* Types *)

\* What an actor holds where it stands.
Placed(a) ==
  /\ pc[a] \notin {"idle", "done"} => decision[a] # "none"
  /\ pc[a] \in {"read", "cas", "record", "apply"} => decision[a] # "tick"
  /\ pc[a] \in {"read", "cas"} => a \in Commands
  /\ pc[a] = "cas" => next[a] \in Cards /\ next[a].status = decision[a]
  /\ pc[a] \in {"surface", "apply", "tick"} => read[a] \in Cards
  /\ pc[a] = "dispatch" /\ a \in Flows => decision[a] = "approved"

IType == TypeOK /\ \A a \in Actors : Placed(a)

\* The instants the code computes from a clock that is in bounds.
LEMMA Windows ==
  ASSUME NEW t \in 0..MaxTime
  PROVE  /\ t + SnoozeWindow \in Instants /\ t + ExpiryWindow \in Instants
         /\ Never \in Instants
BY CardAssumption DEF Instants, Never

\* A record that was given a status, and perhaps an instant, is a record.
LEMMA Restamped ==
  ASSUME NEW r \in Cards, NEW s \in Statuses, NEW i \in Instants
  PROVE  /\ [r EXCEPT !.status = s, !.snooze = i] \in Cards
         /\ [r EXCEPT !.status = s, !.snooze = i].status = s
<1>1. [r EXCEPT !.status = s, !.snooze = i] \in Cards
  BY DEF Cards
<1>2. [r EXCEPT !.status = s, !.snooze = i].status = s
  BY DEF Cards
<1> QED BY <1>1, <1>2

LEMMA InitType == Init => IType
<1> SUFFICES ASSUME Init PROVE IType
  OBVIOUS
<1>0. MaxTime \in Nat /\ MaxRetries \in Nat /\ MaxCrashes \in Nat
  BY CardAssumption
<1>1. TypeOK
  <2>1. {boot, now} \subseteq 0..MaxTime /\ retries \in 0..MaxRetries /\ crashes \in 0..MaxCrashes
    BY <1>0 DEF Init
  <2> QED BY <2>1 DEF Init, TypeOK
<1>2. \A a \in Actors : Placed(a)
  BY DEF Init, Placed
<1> QED BY <1>1, <1>2 DEF IType

\* Only actor a moves.
Alone(a) ==
  \A x \in Actors \ {a} : /\ pc'[x] = pc[x] /\ decision'[x] = decision[x]
                          /\ read'[x] = read[x] /\ next'[x] = next[x]

LEMMA StepAlone ==
  ASSUME TypeOK, NEW a \in Actors,
         \/ \E to \in CommandDecisions : Decide(a, to)
         \/ \E to \in FlowDecisions : StartFlow(a, to)
         \/ ReadCard(a) \/ CommandCas(a) \/ CommandDispatch(a)
         \/ RecordPending(a) \/ SurfaceCard(a) \/ ApplyDecision(a) \/ FlowDispatch(a)
         \/ StartTick(a) \/ SnoozeTick(a) \/ Collect(a)
  PROVE  Alone(a)
<1>1. /\ pc' = pc \/ \E to : pc' = [pc EXCEPT ![a] = to]
      /\ decision' = decision \/ \E to : decision' = [decision EXCEPT ![a] = to]
      /\ read' = read \/ \E r : read' = [read EXCEPT ![a] = r]
      /\ next' = next \/ \E r : next' = [next EXCEPT ![a] = r]
  <2>1. CASE (\E to \in CommandDecisions : Decide(a, to)) \/ (\E to \in FlowDecisions : StartFlow(a, to))
    BY ONLY <2>1 DEF Decide, StartFlow, Goto
  <2>2. CASE ReadCard(a) \/ CommandCas(a) \/ CommandDispatch(a)
    BY ONLY <2>2 DEF ReadCard, CommandCas, CommandDispatch, Dispatched, Finish, Goto
  <2>3. CASE RecordPending(a) \/ SurfaceCard(a) \/ FlowDispatch(a)
    BY ONLY <2>3 DEF RecordPending, SurfaceCard, FlowDispatch, Dispatched, LoseResult, Finish, Goto
  <2>4. CASE ApplyDecision(a)
    BY ONLY <2>4 DEF ApplyDecision, LoseResult, Finish, Goto
  <2>5. CASE SnoozeTick(a)
    BY ONLY <2>5 DEF SnoozeTick, LoseResult, Finish, Goto
  <2>6. CASE StartTick(a) \/ Collect(a)
    BY ONLY <2>6 DEF StartTick, Collect, Goto
  <2> QED BY <2>1, <2>2, <2>3, <2>4, <2>5, <2>6
<1>2. DOMAIN pc = Actors /\ DOMAIN decision = Actors /\ DOMAIN read = Actors /\ DOMAIN next = Actors
  BY DEF TypeOK
<1> QED BY ONLY <1>1, <1>2 DEF Alone

\* Everything keeps its type, and each actor holds what its next await reads.
LEMMA StepType == IType /\ [Next]_vars => IType'
<1> SUFFICES ASSUME IType, [Next]_vars PROVE IType'
  OBVIOUS
<1>s. [Next]_vars /\ TypeOK /\ \A a \in Actors : Placed(a)
  BY DEF IType
<1>c. /\ CommandDecisions \subseteq Statuses /\ FlowDecisions \subseteq Statuses
      /\ "none" \notin Statuses /\ "tick" \notin Statuses
  BY CardAssumption DEF Statuses, Terminal
<1>w. \A t \in 0..MaxTime : /\ t + SnoozeWindow \in Instants /\ t + ExpiryWindow \in Instants
                            /\ Never \in Instants
  BY ONLY Windows
<1>d. Commands \cap Flows = {} /\ Actors = Commands \cup Flows
  BY CardAssumption DEF Actors
<1>b. boot \in 0..MaxTime /\ now \in 0..MaxTime
  BY ONLY <1>s DEF TypeOK
<1>n. NoCard \notin Cards
  BY DEF NoCard, Cards
\* A step of one actor: what is left to show is about that actor.
<1>m. ASSUME NEW a \in Actors, Alone(a), TypeOK', Placed(a)' PROVE IType'
  <2>1. ASSUME NEW x \in Actors PROVE Placed(x)'
    <3>1. CASE x = a
      BY ONLY <1>m, <3>1
    <3>2. CASE x # a
      BY ONLY <1>m, <1>s, <3>2 DEF Alone, Placed
    <3> QED BY ONLY <3>1, <3>2
  <2> QED BY ONLY <1>m, <2>1 DEF IType
<1>1. ASSUME NEW a \in Actors, NEW to \in CommandDecisions, Decide(a, to) PROVE IType'
  <2>1. TypeOK'
    BY ONLY <1>1, <1>s, <1>c DEF Decide, Goto, TypeOK, history, bounds
  <2>2. Placed(a)'
    BY ONLY <1>1, <1>s, <1>c DEF Decide, Goto, TypeOK, Placed
  <2> QED BY ONLY <1>m, <1>1, <1>s, <2>1, <2>2, StepAlone
<1>2. ASSUME NEW a \in Actors, NEW to \in FlowDecisions, StartFlow(a, to) PROVE IType'
  <2>1. TypeOK'
    BY ONLY <1>2, <1>s, <1>c DEF StartFlow, Goto, TypeOK, history, bounds
  <2>2. Placed(a)'
    BY ONLY <1>2, <1>s, <1>c DEF StartFlow, Goto, TypeOK, Placed
  <2> QED BY ONLY <1>m, <1>2, <1>s, <2>1, <2>2, StepAlone
<1>3. ASSUME NEW a \in Actors, ReadCard(a) PROVE IType'
  <2>1. decision[a] \in Statuses /\ a \in Commands
    BY ONLY <1>3, <1>s DEF ReadCard, Placed, TypeOK
  <2>2. NextRecord(decision[a]) \in Cards /\ NextRecord(decision[a]).status = decision[a]
    BY ONLY <1>w, <1>b, <2>1 DEF NextRecord, Cards
  <2>3. TypeOK'
    BY ONLY <1>3, <1>s, <2>2 DEF ReadCard, Goto, Finish, TypeOK, history, bounds
  <2>4. Placed(a)'
    BY ONLY <1>3, <1>s, <2>1, <2>2 DEF ReadCard, Goto, Finish, TypeOK, Placed
  <2> QED BY ONLY <1>m, <1>3, <1>s, <2>3, <2>4, StepAlone
<1>4. ASSUME NEW a \in Actors, CommandCas(a) PROVE IType'
  <2>1. next[a] \in Cards /\ a \in Commands /\ a \notin Flows
    BY ONLY <1>4, <1>s, <1>d DEF CommandCas, Placed
  <2>2. Verdict(card.status, read[a].status, decision[a]) \in {"noop", "apply", "conflict"}
    BY ONLY TRUE DEF Verdict
  <2>3. TypeOK'
    <3>1. card' \in Cards \cup {NoCard} /\ approvals' \in Nat
      BY ONLY <1>4, <1>s, <2>1 DEF CommandCas, Replace, Keep, TypeOK
    <3>2. pc' \in [Actors -> {"idle", "read", "cas", "dispatch", "record", "surface",
                              "apply", "tick", "done"}]
      BY ONLY <1>4, <1>s DEF CommandCas, Goto, Finish, TypeOK
    <3>3. result' \in [Actors -> {"none", "not_found", "noop", "conflict", "decided", "apply",
                                  "illegal_transition", "parity_failed", "sent",
                                  "in_progress", "failed", "sleep"}]
      BY ONLY <1>4, <1>s, <2>2 DEF CommandCas, Finish, TypeOK
    <3> QED BY ONLY <1>4, <1>s, <3>1, <3>2, <3>3 DEF CommandCas, TypeOK, bounds
  <2>4. Placed(a)'
    BY ONLY <1>4, <1>s, <2>1 DEF CommandCas, Goto, Finish, TypeOK, Placed
  <2> QED BY ONLY <1>m, <1>4, <1>s, <2>3, <2>4, StepAlone
<1>5. ASSUME NEW a \in Actors, CommandDispatch(a) PROVE IType'
  <2>1. TypeOK'
    BY ONLY <1>5, <1>s DEF CommandDispatch, Dispatched, Goto, Finish, TypeOK, bounds
  <2>2. Placed(a)'
    BY ONLY <1>5, <1>s DEF CommandDispatch, Dispatched, Goto, Finish, TypeOK, Placed
  <2> QED BY ONLY <1>m, <1>5, <1>s, <2>1, <2>2, StepAlone
<1>6. ASSUME NEW a \in Actors, RecordPending(a) PROVE IType'
  <2>1. Pending(boot) \in Cards
    BY ONLY <1>w, <1>b DEF Pending, Cards, Statuses
  <2>2. card' \in Cards
    BY ONLY <1>6, <1>s, <2>1 DEF RecordPending, TypeOK
  <2>3. TypeOK'
    BY ONLY <1>6, <1>s, <2>2 DEF RecordPending, Goto, TypeOK, history, bounds
  <2>4. Placed(a)'
    BY ONLY <1>6, <1>s, <2>2 DEF RecordPending, Goto, TypeOK, Placed
  <2> QED BY ONLY <1>m, <1>6, <1>s, <2>3, <2>4, StepAlone
<1>7. ASSUME NEW a \in Actors, SurfaceCard(a) PROVE IType'
  <2>1. TypeOK'
    BY ONLY <1>7, <1>s DEF SurfaceCard, Goto, Finish, TypeOK, history, bounds
  <2>2. Placed(a)'
    BY ONLY <1>7, <1>s DEF SurfaceCard, Goto, Finish, TypeOK, Placed
  <2> QED BY ONLY <1>m, <1>7, <1>s, <2>1, <2>2, StepAlone
<1>8. ASSUME NEW a \in Actors, ApplyDecision(a) PROVE IType'
  <2>1. read[a] \in Cards /\ decision[a] \in Statuses
    BY ONLY <1>8, <1>s DEF ApplyDecision, Placed, TypeOK
  <2>2. FlowRecord(a) \in Cards
    <3>1. read[a].snooze \in Instants
      BY ONLY <2>1 DEF Cards
    <3>2. boot + SnoozeWindow \in Instants
      BY ONLY <1>w, <1>b
    <3> QED BY ONLY <2>1, <3>1, <3>2, Restamped DEF FlowRecord
  <2>3. Verdict(card.status, read[a].status, decision[a]) \in {"noop", "apply", "conflict"}
    BY ONLY TRUE DEF Verdict
  <2>5. TypeOK'
    <3>1. card' \in Cards \cup {NoCard} /\ approvals' \in Nat
      BY ONLY <1>8, <1>s, <2>2 DEF ApplyDecision, Replace, Keep, TypeOK
    <3>2. pc' \in [Actors -> {"idle", "read", "cas", "dispatch", "record", "surface",
                              "apply", "tick", "done"}]
      BY ONLY <1>8, <1>s DEF ApplyDecision, LoseResult, Goto, Finish, TypeOK
    <3>3. result' \in [Actors -> {"none", "not_found", "noop", "conflict", "decided", "apply",
                                  "illegal_transition", "parity_failed", "sent",
                                  "in_progress", "failed", "sleep"}]
      BY ONLY <1>8, <1>s, <2>3 DEF ApplyDecision, LoseResult, Finish, TypeOK
    <3>4. retries' \in 0..MaxRetries
      <4>1. retries' = retries \/ (retries < MaxRetries /\ retries' = retries + 1)
        BY ONLY <1>8 DEF ApplyDecision, LoseResult
      <4> QED BY ONLY <4>1, <1>s, CardAssumption DEF TypeOK
    <3> QED BY ONLY <1>8, <1>s, <3>1, <3>2, <3>3, <3>4 DEF ApplyDecision, TypeOK
  <2>6. Placed(a)'
    BY ONLY <1>8, <1>s, <2>1 DEF ApplyDecision, LoseResult, Goto, Finish, TypeOK, Placed
  <2> QED BY ONLY <1>m, <1>8, <1>s, <2>5, <2>6, StepAlone
<1>9. ASSUME NEW a \in Actors, FlowDispatch(a) PROVE IType'
  <2>1. retries' \in 0..MaxRetries
    <3>1. retries' = retries \/ (retries < MaxRetries /\ retries' = retries + 1)
      BY ONLY <1>9 DEF FlowDispatch, LoseResult
    <3> QED BY ONLY <3>1, <1>s, CardAssumption DEF TypeOK
  <2>2. TypeOK'
    BY ONLY <1>9, <1>s, <2>1 DEF FlowDispatch, Dispatched, LoseResult, Goto, Finish, TypeOK
  <2>3. Placed(a)'
    BY ONLY <1>9, <1>s DEF FlowDispatch, Dispatched, LoseResult, Goto, Finish, TypeOK, Placed
  <2> QED BY ONLY <1>m, <1>9, <1>s, <2>2, <2>3, StepAlone
<1>10. ASSUME NEW a \in Actors, StartTick(a) PROVE IType'
  <2>1. card \in Cards
    BY ONLY <1>10, <1>s DEF StartTick, TypeOK
  <2>2. TypeOK'
    BY ONLY <1>10, <1>s, <2>1 DEF StartTick, Goto, TypeOK, history, bounds
  <2>3. Placed(a)'
    BY ONLY <1>10, <1>s, <2>1 DEF StartTick, Goto, TypeOK, Placed
  <2> QED BY ONLY <1>m, <1>10, <1>s, <2>2, <2>3, StepAlone
<1>11. ASSUME NEW a \in Actors, SnoozeTick(a) PROVE IType'
  <2> DEFINE to == IF now >= read[a].expiry THEN "expired" ELSE "pending"
  <2>1. read[a] \in Cards /\ to \in Statuses
    BY ONLY <1>11, <1>s DEF SnoozeTick, Placed, Statuses, Terminal
  <2>2. [read[a] EXCEPT !.status = to, !.snooze = Never] \in Cards
    <3> HIDE DEF to
    <3> QED BY ONLY <2>1, <1>w, <1>b, Restamped
  <2>3. Verdict(card.status, "deferred", to) \in {"noop", "apply", "conflict"}
    BY ONLY TRUE DEF Verdict
  <2>4. \/ card' = card /\ approvals' = approvals
        \/ /\ card' = [read[a] EXCEPT !.status = to, !.snooze = Never]
           /\ approvals' \in {approvals, approvals + 1}
    BY ONLY <1>11 DEF SnoozeTick, Replace, Keep
  <2>5. \/ UNCHANGED <<pc, result>>
        \/ \E r \in {"sleep", "noop", "apply", "conflict"} :
             pc' = [pc EXCEPT ![a] = "done"] /\ result' = [result EXCEPT ![a] = r]
        \/ pc' = [pc EXCEPT ![a] = "surface"] /\ UNCHANGED result
    BY ONLY <1>11, <2>3 DEF SnoozeTick, LoseResult, Goto, Finish
  <2>6. /\ UNCHANGED <<row, decision, read, next, boot, dispatched, now, crashes>>
        /\ retries' = retries \/ (retries < MaxRetries /\ retries' = retries + 1)
        /\ pc[a] = "tick"
    BY ONLY <1>11 DEF SnoozeTick, LoseResult
  <2>7. TypeOK'
    <3> HIDE DEF to
    <3>1. card' \in Cards \cup {NoCard} /\ approvals' \in Nat
      BY ONLY <2>2, <2>4, <1>s DEF TypeOK
    <3>2. retries' \in 0..MaxRetries
      BY ONLY <2>6, <1>s, CardAssumption DEF TypeOK
    <3>3. /\ pc' \in [Actors -> {"idle", "read", "cas", "dispatch", "record", "surface",
                                 "apply", "tick", "done"}]
          /\ result' \in [Actors -> {"none", "not_found", "noop", "conflict", "decided",
                                     "apply", "illegal_transition", "parity_failed", "sent",
                                     "in_progress", "failed", "sleep"}]
      BY ONLY <2>5, <1>s DEF TypeOK
    <3> QED BY ONLY <2>6, <3>1, <3>2, <3>3, <1>s DEF TypeOK
  <2>8. Placed(a)'
    BY ONLY <2>1, <2>5, <2>6, <1>s DEF TypeOK, Placed
  <2> QED BY ONLY <1>m, <1>11, <1>s, <2>7, <2>8, StepAlone
<1>12. ASSUME NEW a \in Actors, Collect(a) PROVE IType'
  <2>1. TypeOK'
    BY ONLY <1>12, <1>s DEF Collect, Goto, TypeOK, history, bounds
  <2>2. Placed(a)'
    BY ONLY <1>12, <1>s DEF Collect, Goto, TypeOK, Placed
  <2> QED BY ONLY <1>m, <1>12, <1>s, <2>1, <2>2, StepAlone
<1>13. CASE Propose
  <2>1. Pending(now) \in Cards
    BY ONLY <1>w, <1>b DEF Pending, Cards, Statuses
  <2>2. TypeOK'
    BY ONLY <1>13, <1>s, <2>1 DEF Propose, TypeOK, actors, history, bounds
  <2> QED BY ONLY <1>13, <1>s, <2>2 DEF Propose, actors, Placed, IType
<1>14. CASE Tick
  <2>1. now' \in 0..MaxTime
    BY ONLY <1>14, <1>s, CardAssumption DEF Tick, TypeOK
  <2>2. TypeOK'
    BY ONLY <1>14, <1>s, <2>1 DEF Tick, TypeOK, actors, history
  <2> QED BY ONLY <1>14, <1>s, <2>2 DEF Tick, actors, Placed, IType
\* A command that was running is idle again; a workflow is where it was.
<1>15. CASE Crash
  <2>1. crashes' \in 0..MaxCrashes
    BY ONLY <1>15, <1>s, CardAssumption DEF Crash, TypeOK
  <2>2. TypeOK'
    BY ONLY <1>15, <1>s, <2>1 DEF Crash, Lost, TypeOK, history
  <2>3. ASSUME NEW a \in Actors PROVE Placed(a)'
    <3>1. CASE a \in Commands
      BY ONLY <1>15, <3>1 DEF Crash, Lost, Placed
    <3>2. CASE a \notin Commands
      <4>1. pc'[a] = pc[a] /\ decision'[a] = decision[a] /\ read'[a] = read[a] /\ next'[a] = next[a]
        BY ONLY <1>15, <2>3, <3>2 DEF Crash, Lost
      <4> QED BY ONLY <4>1, <1>s, <2>3 DEF Placed
    <3> QED BY ONLY <3>1, <3>2
  <2> QED BY ONLY <2>2, <2>3 DEF IType
<1>16. CASE UNCHANGED vars
  BY ONLY <1>16, <1>s DEF vars, actors, history, bounds, TypeOK, Placed, IType
<1> QED
  BY ONLY <1>s, <1>1, <1>2, <1>3, <1>4, <1>5, <1>6, <1>7, <1>8, <1>9, <1>10, <1>11, <1>12,
     <1>13, <1>14, <1>15, <1>16 DEF Next

\* Every variable of the card's model keeps its type.
THEOREM TypeCorrect == Spec => []TypeOK
<1>1. IType => TypeOK
  BY DEF IType
<1> QED
  BY InitType, StepType, <1>1, PTL DEF Spec

-----------------------------------------------------------------------------
(* One approval, one dispatch. *)

\* DispatchedOnce is not inductive by itself: that approvals counts the status
\* the card has now is what keeps a second approval from being applied.
Counted == approvals = IF card.status = "approved" THEN 1 ELSE 0
IInv    == IType /\ Counted /\ DispatchedOnce

LEMMA InitOnce == Init => IInv
<1> SUFFICES ASSUME Init PROVE Counted /\ DispatchedOnce
  BY InitType DEF IInv
<1> QED BY DEF Init, Counted, DispatchedOnce, Dispatching, NoCard

LEMMA StepOnce == IInv /\ [Next]_vars => Counted' /\ DispatchedOnce'
<1> DEFINE Goal == Counted' /\ DispatchedOnce'
<1> SUFFICES ASSUME IInv, [Next]_vars PROVE Goal
  OBVIOUS
<1>s. [Next]_vars /\ TypeOK /\ Counted /\ DispatchedOnce /\ \A a \in Actors : Placed(a)
  BY DEF IInv, IType
<1>n. NoCard.status \notin Terminal
  BY DEF NoCard, Terminal
\* While the card keeps its status nobody comes to a dispatch.
<1>k. ASSUME (card'.status = "approved") <=> (card.status = "approved"),
             approvals' = approvals,
             dispatched' => dispatched \/ card.status = "approved",
             \A x \in Actors : Dispatching(x)' => Dispatching(x)
      PROVE  Goal
  BY ONLY <1>k, <1>s DEF Counted, DispatchedOnce
\* A change of an undecided card: nobody was dispatching, nothing was dispatched.
<1>r. ASSUME NEW a \in Actors, Alone(a), card.status \notin Terminal, NEW r, Replace(r),
             dispatched' = dispatched, Dispatching(a)' => r.status = "approved"
      PROVE  Goal
  <2>1. card.status # "approved" /\ approvals = 0 /\ ~ dispatched
        /\ \A x \in Actors : ~ Dispatching(x)
    BY ONLY <1>r, <1>s DEF Terminal, Counted, DispatchedOnce
  <2>2. \A x \in Actors : Dispatching(x)' => x = a
    BY ONLY <1>r, <2>1 DEF Alone, Dispatching
  <2>3. card' = r /\ approvals' = IF r.status = "approved" THEN 1 ELSE 0
    BY ONLY <1>r, <2>1 DEF Replace
  <2> QED BY ONLY <1>r, <2>1, <2>2, <2>3 DEF Counted, DispatchedOnce
\* A step of one actor that leaves the card and the count as they are.
<1>q. ASSUME NEW a \in Actors, Alone(a), UNCHANGED <<card, approvals, dispatched>>,
             pc'[a] # "dispatch"
      PROVE  Goal
  <2>1. \A x \in Actors : Dispatching(x)' => Dispatching(x)
    BY ONLY <1>q DEF Alone, Dispatching
  <2> QED BY ONLY <1>q, <1>k, <2>1
<1>1. ASSUME NEW a \in Actors,
             \/ \E to \in CommandDecisions : Decide(a, to)
             \/ \E to \in FlowDecisions : StartFlow(a, to)
             \/ ReadCard(a) \/ SurfaceCard(a) \/ StartTick(a) \/ Collect(a)
      PROVE  Goal
  <2>1. Alone(a)
    BY ONLY <1>1, <1>s, StepAlone
  <2>2. UNCHANGED <<card, approvals, dispatched>>
    BY ONLY <1>1 DEF Decide, StartFlow, ReadCard, SurfaceCard, StartTick, Collect, history
  <2>3. pc'[a] # "dispatch"
    BY ONLY <1>1, <1>s DEF Decide, StartFlow, ReadCard, SurfaceCard, StartTick, Collect,
       Goto, Finish, TypeOK
  <2> QED BY ONLY <1>q, <2>1, <2>2, <2>3
<1>2. ASSUME NEW a \in Actors, CommandCas(a) PROVE Goal
  <2>1. Alone(a) /\ dispatched' = dispatched /\ next[a].status = decision[a]
    BY ONLY <1>2, <1>s, StepAlone DEF CommandCas, Placed
  <2>2. CASE Verdict(card.status, read[a].status, decision[a]) = "apply" /\ Replace(next[a])
    <3>1. card.status \notin Terminal
      BY ONLY <2>2, VerdictApplies
    <3>2. Dispatching(a)' => next[a].status = "approved"
      BY ONLY <1>2, <2>1 DEF CommandCas, Dispatching
    <3> QED BY ONLY <1>r, <2>1, <2>2, <3>1, <3>2
  <2>3. CASE Keep /\ pc'[a] = "done"
    BY ONLY <1>q, <2>1, <2>3 DEF Keep
  <2> QED BY ONLY <1>2, <1>s, <2>2, <2>3 DEF CommandCas, Finish, Goto, TypeOK
\* Who dispatches holds an approval that was applied.
<1>3. ASSUME NEW a \in Actors, CommandDispatch(a) \/ FlowDispatch(a) PROVE Goal
  <2>1. Alone(a) /\ UNCHANGED <<card, approvals, decision>> /\ pc[a] = "dispatch"
    BY ONLY <1>3, <1>s, StepAlone DEF CommandDispatch, FlowDispatch
  <2>2. dispatched' = dispatched \/ Dispatching(a)
    BY ONLY <1>3, <1>s DEF CommandDispatch, FlowDispatch, Dispatched, Dispatching, Placed
  <2>3. dispatched' => dispatched \/ card.status = "approved"
    BY ONLY <2>2, <1>s DEF DispatchedOnce
  <2>4. \A x \in Actors : Dispatching(x)' => Dispatching(x)
    BY ONLY <2>1 DEF Alone, Dispatching
  <2> QED BY ONLY <1>k, <2>1, <2>3, <2>4
<1>4. ASSUME NEW a \in Actors, RecordPending(a) PROVE Goal
  <2>1. Alone(a) /\ UNCHANGED <<approvals, dispatched>> /\ pc'[a] = "surface"
    BY ONLY <1>4, <1>s, StepAlone DEF RecordPending, Goto, TypeOK, history
  <2>2. card' = card \/ (card = NoCard /\ card'.status = "pending")
    BY ONLY <1>4 DEF RecordPending, Pending
  <2>3. (card'.status = "approved") <=> (card.status = "approved")
    BY ONLY <2>2, <1>n DEF Terminal
  <2>4. \A x \in Actors : Dispatching(x)' => Dispatching(x)
    BY ONLY <2>1 DEF Alone, Dispatching
  <2> QED BY ONLY <1>k, <2>1, <2>3, <2>4
<1>5. ASSUME NEW a \in Actors, ApplyDecision(a) PROVE Goal
  <2> DEFINE verdict == Verdict(card.status, read[a].status, decision[a])
  <2>1. Alone(a) /\ dispatched' = dispatched /\ decision' = decision /\ pc[a] = "apply"
    BY ONLY <1>5, <1>s, StepAlone DEF ApplyDecision
  <2>2. \/ verdict = "apply" /\ Replace(FlowRecord(a))
        \/ Keep /\ pc'[a] # "dispatch"
    BY ONLY <1>5, <1>s DEF ApplyDecision, LoseResult, Goto, Finish, TypeOK
  <2>3. CASE verdict = "apply" /\ Replace(FlowRecord(a))
    <3>1. card.status \notin Terminal
      BY ONLY <2>3, VerdictApplies
    <3>2. FlowRecord(a).status = decision[a]
      <4>1. read[a] \in Cards
        BY ONLY <2>1, <1>s DEF Placed
      <4> QED BY ONLY <4>1 DEF FlowRecord, Cards
    <3>3. Dispatching(a)' => FlowRecord(a).status = "approved"
      BY ONLY <2>1, <3>2 DEF Dispatching
    <3> QED BY ONLY <1>r, <2>1, <2>3, <3>1, <3>3
  <2>4. CASE Keep /\ pc'[a] # "dispatch"
    BY ONLY <1>q, <2>1, <2>4 DEF Keep
  <2> QED BY ONLY <2>2, <2>3, <2>4
<1>6. ASSUME NEW a \in Actors, SnoozeTick(a) PROVE Goal
  <2> DEFINE to == IF now >= read[a].expiry THEN "expired" ELSE "pending"
  <2>1. Alone(a) /\ dispatched' = dispatched /\ pc[a] = "tick"
    BY ONLY <1>6, <1>s, StepAlone DEF SnoozeTick
  <2>2. pc'[a] # "dispatch"
    BY ONLY <1>6, <1>s DEF SnoozeTick, LoseResult, Goto, Finish, TypeOK
  <2>3. \/ Keep
        \/ /\ Verdict(card.status, "deferred", to) = "apply"
           /\ Replace([read[a] EXCEPT !.status = to, !.snooze = Never])
    BY ONLY <1>6 DEF SnoozeTick
  <2>4. CASE Keep
    BY ONLY <1>q, <2>1, <2>2, <2>4 DEF Keep
  <2>5. CASE /\ Verdict(card.status, "deferred", to) = "apply"
             /\ Replace([read[a] EXCEPT !.status = to, !.snooze = Never])
    <3>1. card.status \notin Terminal
      BY ONLY <2>5, VerdictApplies
    <3>2. ~ Dispatching(a)'
      BY ONLY <2>2 DEF Dispatching
    <3> QED BY ONLY <1>r, <2>1, <2>5, <3>1, <3>2
  <2> QED BY ONLY <2>3, <2>4, <2>5
<1>7. CASE Propose
  <2>1. card = NoCard /\ card'.status = "pending" /\ UNCHANGED <<approvals, dispatched, pc, decision>>
    BY ONLY <1>7 DEF Propose, Pending, history, actors
  <2>2. card.status # "approved"
    BY ONLY <2>1, <1>n DEF Terminal
  <2> QED BY ONLY <1>k, <2>1, <2>2 DEF Dispatching
<1>8. CASE Tick \/ UNCHANGED vars
  <2>1. UNCHANGED <<card, approvals, dispatched, pc, decision>>
    BY ONLY <1>8 DEF Tick, vars, history, actors
  <2> QED BY ONLY <1>k, <2>1 DEF Dispatching
<1>9. CASE Crash
  <2>1. UNCHANGED <<card, approvals, dispatched>>
    BY ONLY <1>9 DEF Crash, history
  <2>2. \A x \in Actors : Dispatching(x)' => Dispatching(x)
    BY ONLY <1>9 DEF Crash, Lost, Dispatching
  <2> QED BY ONLY <1>k, <2>1, <2>2
<1> QED
  BY ONLY <1>s, <1>1, <1>2, <1>3, <1>4, <1>5, <1>6, <1>7, <1>8, <1>9 DEF Next

\* "Drives a downstream side effect ONLY on a genuine transition": of both
\* channels, the workflow, their retries and crashes, one approval is applied,
\* one actor is at the dispatch of it, and the card is still approved then.
THEOREM OneDispatch == Spec => []DispatchedOnce
<1>1. IInv /\ [Next]_vars => IInv'
  BY StepType, StepOnce DEF IInv
<1>2. IInv => DispatchedOnce
  BY DEF IInv
<1> QED
  BY InitOnce, <1>1, <1>2, PTL DEF Spec
=============================================================================
