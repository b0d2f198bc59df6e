----------------------------- MODULE GBrainSync -----------------------------
(***************************************************************************)
(* The derived GBrain index of one workspace.  After a commit the worker   *)
(* queues the new revision in a durable outbox and, in the same activity,  *)
(* derives the facts of the working tree and applies them to the index;    *)
(* what fails stays in the outbox as lagging and is driven again when the  *)
(* next boot drains it.                                                    *)
(*                                                                         *)
(* A revision is the hash of the tree's contents, so it is the tree.       *)
(***************************************************************************)
EXTENDS FiniteSets, Integers

CONSTANTS
  Revisions, NoRevision, \* contents of the working tree
  Underivable, \* contents in which two notes claim one fact
  Pages,       \* notes with facts
  Text, NoText, \* what each revision holds on each page
  Triggers,    \* commit activities that may be under way at once
  Drain,       \* the drain of the outbox at boot
  MaxTime,     \* bound on the clock
  MaxCommits,  \* bound on commits, replayed ones included
  MaxEdits,    \* bound on the owner's edits of the tree
  MaxFaults    \* bound on faults of the store, the tree and the index

ASSUME SyncAssumption ==
  /\ NoRevision \notin Revisions
  /\ Underivable \subseteq Revisions
  /\ Drain \notin Triggers
  /\ MaxTime \in Nat /\ MaxCommits \in Nat /\ MaxEdits \in Nat /\ MaxFaults \in Nat

VARIABLES
  tree,      \* the contents of the working tree
  committed, \* the revisions a commit has produced
  outbox,    \* the sync row of each revision
  index,     \* the index: the facts of each page and the revision they are of
  applied,   \* every application so far: a revision and its row's instant
  now, commits, edits, faults,
  pc,        \* the await each activity, and the drain, is at
  rev, at,   \* the entry it holds: its revision and the instant it was queued
  due        \* the entries the drain has listed and not yet driven

world == <<tree, committed, commits, edits>>
store == <<outbox, index, applied>>
job   == <<rev, at>>
syncVars == <<world, store, now, faults, pc, job, due>>

Workers == Triggers \cup {Drain}
Times   == 0..MaxTime
Held    == {"gbrain_sync_queued", "sync_lagging"}
NoRow   == [status |-> "none", at |-> 0]
Rows    == [status : Held \cup {"indexed"}, at : Times] \cup {NoRow}
Steps   == {"idle", "lookup", "enqueue", "highwater", "supersede", "load", "apply",
            "persist", "lag", "trigger_lag", "list", "next"}
NoFact  == [text |-> NoText, revision |-> NoRevision]

SyncTypeOK ==
  /\ tree \in Revisions /\ committed \subseteq Revisions
  /\ outbox \in [Revisions -> Rows]
  /\ DOMAIN index = Pages
  /\ applied \subseteq Revisions \X Times
  /\ now \in Times /\ commits \in 0..MaxCommits
  /\ edits \in 0..MaxEdits /\ faults \in 0..MaxFaults
  /\ pc \in [Workers -> Steps]
  /\ rev \in [Workers -> Revisions \cup {NoRevision}]
  /\ at \in [Workers -> Times]
  /\ due \subseteq Revisions \X Times
  /\ \A w \in Workers : pc[w] \notin {"idle", "list", "next"} => rev[w] \in Revisions

Asleep == [w \in Workers |-> IF w = Drain THEN "list" ELSE "idle"]

SyncInit ==
  /\ tree \in Revisions /\ committed = {}
  /\ outbox = [r \in Revisions |-> NoRow]
  /\ index = [p \in Pages |-> NoFact]
  /\ applied = {}
  /\ now = 0 /\ commits = 0 /\ edits = 0 /\ faults = 0
  /\ pc = Asleep
  /\ rev = [w \in Workers |-> NoRevision] /\ at = [w \in Workers |-> 0]
  /\ due = {}

Goto(w, s) == pc' = [pc EXCEPT ![w] = s] /\ UNCHANGED job
\* A job is over: its activity returns, the drain takes the next entry.
Finish(w) ==
  /\ pc' = [pc EXCEPT ![w] = IF w = Drain THEN "next" ELSE "idle"]
  /\ rev' = [rev EXCEPT ![w] = NoRevision] /\ at' = [at EXCEPT ![w] = 0]
Fault == faults < MaxFaults /\ faults' = faults + 1
Write(w, status) == outbox' = [outbox EXCEPT ![rev[w]] = [status |-> status, at |-> at[w]]]

-----------------------------------------------------------------------------
(* The commit and its trigger *)

\* A commit has succeeded, or a plan committed before is replayed and returns
\* the revision on record: either way the activity triggers the sync of it.
CommitReturns(t, r) ==
  /\ pc[t] = "idle" /\ pc[Drain] = "idle" /\ commits < MaxCommits
  /\ commits' = commits + 1
  /\ rev' = [rev EXCEPT ![t] = r] /\ pc' = [pc EXCEPT ![t] = "lookup"]
  /\ UNCHANGED <<store, now, edits, faults, at, due>>

Commit(t, r) ==
  /\ r # tree
  /\ tree' = r /\ committed' = committed \cup {r}
  /\ CommitReturns(t, r)

Replay(t, r) ==
  /\ r \in committed
  /\ UNCHANGED <<tree, committed>>
  /\ CommitReturns(t, r)

\* A revision with a row is left to the one who wrote the row.
Lookup(t) ==
  /\ pc[t] = "lookup"
  /\ \/ outbox[rev[t]] = NoRow /\ Goto(t, "enqueue") /\ UNCHANGED faults
     \/ outbox[rev[t]] # NoRow /\ Finish(t) /\ UNCHANGED faults
     \/ Fault /\ Finish(t)
  /\ UNCHANGED <<world, store, now, due>>

Enqueue(t) ==
  /\ pc[t] = "enqueue"
  /\ \/ /\ outbox' = [outbox EXCEPT ![rev[t]] = [status |-> "gbrain_sync_queued", at |-> now]]
        /\ at' = [at EXCEPT ![t] = now] /\ pc' = [pc EXCEPT ![t] = "highwater"]
        /\ UNCHANGED <<rev, faults>>
     \/ Fault /\ Finish(t) /\ UNCHANGED outbox
  /\ UNCHANGED <<world, index, applied, now, due>>

-----------------------------------------------------------------------------
(* The index job *)

Newest == {r \in Revisions : /\ outbox[r].status = "indexed"
                             /\ \A s \in Revisions : outbox[s].status = "indexed"
                                                     => outbox[s].at <= outbox[r].at}

\* (mutant) A row of the same instant overtakes too.
OvertakenOrEqual(w, r) == r # rev[w] /\ outbox[r].at >= at[w]

\* The newest indexed row, any of those of one instant (ties go by hash), is
\* of another revision and strictly newer than the entry.
Overtaken(w, r) == r # rev[w] /\ outbox[r].at > at[w]

HighWater(w) ==
  /\ pc[w] = "highwater"
  /\ \/ (\E r \in Newest : Overtaken(w, r)) /\ Goto(w, "supersede") /\ UNCHANGED faults
     \/ /\ Newest = {} \/ \E r \in Newest : ~ Overtaken(w, r)
        /\ Goto(w, "load") /\ UNCHANGED faults
     \/ Fault /\ Goto(w, "lag")
  /\ UNCHANGED <<world, store, now, due>>

Advance(w, step) ==
  /\ pc[w] = step
  /\ \/ Write(w, "indexed") /\ Finish(w) /\ UNCHANGED faults
     \/ Fault /\ Goto(w, "lag") /\ UNCHANGED outbox
  /\ UNCHANGED <<world, index, applied, now, due>>

\* An overtaken entry is closed without touching the index.
Supersede(w) == Advance(w, "supersede")

\* (mutant) Whatever the tree holds is applied.
LoadUnchecked(w) ==
  /\ pc[w] = "load"
  /\ rev' = [rev EXCEPT ![w] = tree] /\ pc' = [pc EXCEPT ![w] = "apply"]
  /\ UNCHANGED <<world, store, now, faults, at, due>>

\* The snapshot is the live tree, which must hash to the entry's revision.
Load(w) ==
  /\ pc[w] = "load"
  /\ \/ /\ Goto(w, IF tree = rev[w] /\ tree \notin Underivable THEN "apply" ELSE "lag")
        /\ UNCHANGED faults
     \/ Fault /\ Goto(w, "lag")
  /\ UNCHANGED <<world, store, now, due>>

\* Facts are keyed by their identity: those of other pages stay.
Upserted(r) ==
  [p \in Pages |-> IF Text[r][p] = NoText THEN index[p]
                   ELSE [text |-> Text[r][p], revision |-> r]]

Apply(w) ==
  /\ pc[w] = "apply"
  /\ \/ /\ index' = Upserted(rev[w])
        /\ applied' = applied \cup {<<rev[w], at[w]>>}
        /\ \/ Goto(w, "persist") /\ UNCHANGED faults
           \/ Fault /\ Goto(w, "lag")           \* applied, and the answer lost
     \/ Fault /\ Goto(w, "lag") /\ UNCHANGED <<index, applied>>
  /\ UNCHANGED <<world, outbox, now, due>>

Persist(w) == Advance(w, "persist")

\* The lagging row is written best-effort; the trigger then writes it again.
Lag(w) ==
  /\ pc[w] = "lag"
  /\ \/ Write(w, "sync_lagging") /\ UNCHANGED faults
     \/ Fault /\ UNCHANGED outbox
  /\ IF w = Drain THEN Finish(w) ELSE Goto(w, "trigger_lag")
  /\ UNCHANGED <<world, index, applied, now, due>>

TriggerLag(t) ==
  /\ pc[t] = "trigger_lag"
  /\ \/ Write(t, "sync_lagging") /\ UNCHANGED faults
     \/ Fault /\ UNCHANGED outbox
  /\ Finish(t)
  /\ UNCHANGED <<world, index, applied, now, due>>

-----------------------------------------------------------------------------
(* The drain at boot; the owner, the clock and the crash *)

\* (mutant) Only entries never tried are listed.
DrainListQueued ==
  /\ pc[Drain] = "list"
  /\ due' = {<<r, outbox[r].at>> : r \in {s \in Revisions : outbox[s].status = "gbrain_sync_queued"}}
  /\ Goto(Drain, "next")
  /\ UNCHANGED <<world, store, now, faults>>

DrainList ==
  /\ pc[Drain] = "list"
  /\ \/ /\ due' = {<<r, outbox[r].at>> : r \in {s \in Revisions : outbox[s].status \in Held}}
        /\ Goto(Drain, "next") /\ UNCHANGED faults
     \/ Fault /\ Goto(Drain, "idle") /\ UNCHANGED due
  /\ UNCHANGED <<world, store, now>>

DrainNext ==
  /\ pc[Drain] = "next" /\ due # {}
  /\ \E e \in due :
       /\ \A d \in due : e[2] <= d[2]
       /\ rev' = [rev EXCEPT ![Drain] = e[1]]
       /\ at' = [at EXCEPT ![Drain] = e[2]]
       /\ due' = due \ {e}
  /\ pc' = [pc EXCEPT ![Drain] = "highwater"]
  /\ UNCHANGED <<world, store, now, faults>>

DrainDone ==
  /\ pc[Drain] = "next" /\ due = {}
  /\ Goto(Drain, "idle")
  /\ UNCHANGED <<world, store, now, faults, due>>

OwnerEdits(r) ==
  /\ edits < MaxEdits /\ r # tree
  /\ edits' = edits + 1 /\ tree' = r
  /\ UNCHANGED <<committed, commits, store, now, faults, pc, job, due>>

Tick ==
  /\ now < MaxTime /\ now' = now + 1
  /\ UNCHANGED <<world, store, faults, pc, job, due>>

Restart ==
  /\ pc' = Asleep /\ due' = {}
  /\ rev' = [w \in Workers |-> NoRevision] /\ at' = [w \in Workers |-> 0]
  /\ UNCHANGED <<world, store, now, faults>>

Job(w) ==
  \/ HighWater(w) \/ Supersede(w) \/ Load(w) \/ Apply(w) \/ Persist(w) \/ Lag(w)

Activity(t) == Lookup(t) \/ Enqueue(t) \/ Job(t) \/ TriggerLag(t)
Boot        == DrainList \/ DrainNext \/ Job(Drain) \/ DrainDone

Work ==
  \/ \E t \in Triggers, r \in Revisions : Commit(t, r) \/ Replay(t, r)
  \/ \E t \in Triggers : Activity(t)
  \/ Boot
  \/ \E r \in Revisions : OwnerEdits(r)
  \/ Tick

SyncNext == Work \/ Restart

\* The worker's awaits resolve; commits, edits and restarts need not happen.
SyncFairness == (\A t \in Triggers : WF_syncVars(Activity(t))) /\ WF_syncVars(Boot)

SyncSpec == SyncInit /\ [][SyncNext]_syncVars /\ SyncFairness

-----------------------------------------------------------------------------
(* Properties *)

\* applyGbrainIndexJob only applies contents that hash to the revision of a
\* queued commit: whatever the owner types meanwhile, no uncommitted text
\* reaches the index.
IndexHoldsCommitted ==
  /\ \A a \in applied : a[1] \in committed
  /\ \A p \in Pages : index[p] # NoFact =>
       /\ index[p].revision \in committed
       /\ index[p].text = Text[index[p].revision][p]

\* A row says 'indexed' only when its revision was applied, or when one queued
\* later was: a superseded row is never closed on the word of a row that was
\* itself never applied (index-sync.ts, the high-water guard).
IndexedIsTruthful ==
  \A r \in Revisions : outbox[r].status = "indexed" =>
    \/ <<r, outbox[r].at>> \in applied
    \/ \E a \in applied : a[2] > outbox[r].at

\* A held entry of the live tree does not stay held: as long as boots complete
\* their drain again and again, it is applied or closed, unless the tree moves
\* on (drainGbrainSyncOutbox re-drives what an earlier boot left).
HeldIsSettled ==
  ([]<><<DrainDone>>_syncVars) =>
    \A r \in Revisions \ Underivable :
      (tree = r /\ outbox[r].status \in Held) ~>
        (outbox[r].status \notin Held \/ tree # r)
=============================================================================
