-------------------------- MODULE KnowledgeWriter --------------------------
(***************************************************************************)
(* The KnowledgeWriter: a plan is applied to the owner's Markdown vault    *)
(* against a base revision, and recorded.  Behind it the activity that     *)
(* resolves the base, and the dispatch of an approved Copilot plan, which  *)
(* probes the plan's targets first and settles the plan's row last.        *)
(*                                                                         *)
(* A note is the set of marks in it: the owner's edits and the regions of  *)
(* plans; a note without a mark is no note.  A revision is a content hash  *)
(* of the vault, so it is the vault.                                       *)
(***************************************************************************)
EXTENDS Naturals

CONSTANTS
  Notes,        \* paths in the vault
  Edits,        \* things the owner writes, each once
  Plans, NoPlan, \* knowledge mutation plans, each with its idempotency key
  Creates,      \* the notes each plan creates
  Patches,      \* the notes it patches
  Semantic,     \* plans proposed by the Copilot, committed on approval
  Pinned,       \* plans of the run whose base is fixed: the empty vault
  Writers,      \* calls that may be under way at once
  Unreadable,   \* notes on disk that a read may not get at
  Faults,       \* what may fail: "stage", "rename", "restore", "store", "fence"
  MaxAttempts,  \* bound on the calls for one plan
  MaxCrashes    \* bound on worker crashes

Targets(p) == Creates[p] \cup Patches[p]

ASSUME WriterAssumption ==
  /\ NoPlan \notin Plans
  /\ Creates \in [Plans -> SUBSET Notes] /\ Patches \in [Plans -> SUBSET Notes]
  /\ Semantic \subseteq Plans /\ Pinned \subseteq Plans \ Semantic
  /\ Edits \cap Plans = {}
  /\ Unreadable \subseteq Notes
  /\ Faults \subseteq {"stage", "rename", "restore", "store", "fence"}
  /\ MaxAttempts \in Nat /\ MaxCrashes \in Nat

VARIABLES
  vault,     \* the notes on disk
  temps,     \* staged files, each the revision that staged it and its note
  typed,     \* what the owner has written in each note while no call held it
  audited,   \* plans with an audit record of their commit
  revisions, \* plans with a revision record
  row,       \* the pending-mutation row of each Copilot plan
  attempts,  \* calls made for each plan
  crashes,
  pc,        \* the await each call is at, or how it ended
  plan,      \* its plan
  base,      \* the revision it expects
  snap,      \* the vault as it read it
  prior,     \* the targets as it read them before the first rename
  left,      \* the notes it has not come to yet
  done       \* the notes it renamed

disk   == <<vault, temps>>
books  == <<audited, revisions, row>>
call   == <<plan, base, snap, prior, left, done>>
bounds == <<attempts, crashes>>
vars   == <<disk, typed, books, bounds, pc, call>>

Marks      == Edits \cup Plans
Vaults     == [Notes -> SUBSET Marks]
EmptyVault == [n \in Notes |-> {}]
Steps      == {"idle", "gate", "head", "replay", "snapshot", "check", "stage",
               "priors", "rename", "rollback", "audit", "record", "settle"}
Outcomes   == {"ok", "refused", "write_conflict", "ownership_violation",
               "write_fence_breached", "commit_failed", "audit_record_failed",
               "revision_record_failed", "unsettled"}

TypeOK ==
  /\ vault \in Vaults
  /\ temps \subseteq Vaults \X Notes
  /\ typed \in [Notes -> SUBSET Edits]
  /\ audited \subseteq Plans /\ revisions \subseteq Plans
  /\ row \in [Semantic -> {"pending", "committed", "rejected"}]
  /\ attempts \in [Plans -> 0..MaxAttempts] /\ crashes \in 0..MaxCrashes
  /\ pc \in [Writers -> Steps \cup Outcomes]
  /\ plan \in [Writers -> Plans \cup {NoPlan}]
  /\ base \in [Writers -> Vaults] /\ snap \in [Writers -> Vaults]
  /\ prior \in [Writers -> Vaults]
  /\ left \in [Writers -> SUBSET Notes] /\ done \in [Writers -> SUBSET Notes]

NoCall ==
  /\ pc = [w \in Writers |-> "idle"]
  /\ plan = [w \in Writers |-> NoPlan]
  /\ base = [w \in Writers |-> EmptyVault]
  /\ snap = [w \in Writers |-> EmptyVault]
  /\ prior = [w \in Writers |-> EmptyVault]
  /\ left = [w \in Writers |-> {}]
  /\ done = [w \in Writers |-> {}]

Init ==
  /\ vault = EmptyVault /\ temps = {}
  /\ typed = [n \in Notes |-> {}]
  /\ audited = {} /\ revisions = {}
  /\ row = [p \in Semantic |-> "pending"]
  /\ attempts = [p \in Plans |-> 0] /\ crashes = 0
  /\ NoCall

Goto(w, s)  == pc' = [pc EXCEPT ![w] = s]
Todo(w, ns) == left' = [left EXCEPT ![w] = ns]

\* VaultFs.read: a note that is not there and one that cannot be read (or whose
\* directory cannot be listed) look the same.
Missing  == {}
Reads(n) == {vault[n]} \cup IF n \in Unreadable THEN {Missing} ELSE {}

-----------------------------------------------------------------------------
(* The plan on the vault *)

\* projectPlan: a create renders the whole note, a patch adds or replaces the
\* plan's own region.
Projected(v, p) ==
  [n \in Notes |-> IF n \in Creates[p] THEN {p}
                   ELSE IF n \in Patches[p] THEN v[n] \cup {p} ELSE v[n]]

Target(w)  == Projected(snap[w], plan[w])
\* (mutant) the diff goes over the notes that were there: creates are missed.
ChangedExisting(w) == {n \in Notes : snap[w][n] # {} /\ Target(w)[n] # snap[w][n]}

Changed(w) == {n \in Notes : Target(w)[n] # snap[w][n]}

\* (mutant) the pass-through hook.
OwnedUnchecked(w) == TRUE

\* checkOwnership: over a note that was there, what the owner wrote and the
\* regions the plan does not target survive.
Owned(w) == \A n \in Changed(w) : snap[w][n] \subseteq Target(w)[n]

-----------------------------------------------------------------------------
(* The call *)

\* A commit activity runs, or an approved plan is dispatched (by the decision
\* itself, or by the sweep at boot).  A plan whose row is settled needs none.
Begin(w, p) ==
  /\ pc[w] = "idle" /\ attempts[p] < MaxAttempts
  /\ p \in Semantic => row[p] = "pending"
  /\ attempts' = [attempts EXCEPT ![p] = @ + 1]
  /\ plan' = [plan EXCEPT ![w] = p]
  /\ \/ p \in Semantic /\ Goto(w, "gate") /\ Todo(w, Targets(p))
     \/ p \in Pinned /\ Goto(w, "replay") /\ UNCHANGED left
     \/ p \notin Semantic \cup Pinned /\ Goto(w, "head") /\ Todo(w, Notes)
  /\ UNCHANGED <<disk, typed, books, crashes, base, snap, prior, done>>

\* Gate 1: a note to create must not exist; a note to patch must (and carry the
\* plan's project, which it does here).
Probe(w, n) ==
  /\ pc[w] = "gate" /\ n \in left[w]
  /\ \E read \in Reads(n) :
       IF n \in Creates[plan[w]] <=> read = Missing
         THEN /\ Todo(w, left[w] \ {n}) /\ UNCHANGED pc
         ELSE /\ Goto(w, "refused") /\ UNCHANGED left
  /\ UNCHANGED <<disk, typed, books, bounds, plan, base, snap, prior, done>>

Probed(w) ==
  /\ pc[w] = "gate" /\ left[w] = {}
  /\ Goto(w, "head") /\ Todo(w, Notes)
  /\ UNCHANGED <<disk, typed, books, bounds, plan, base, snap, prior, done>>

\* readVaultHeadRevision: the files one by one.
ReadHead(w, n) ==
  /\ pc[w] = "head" /\ n \in left[w]
  /\ \E read \in Reads(n) : base' = [base EXCEPT ![w][n] = read]
  /\ Todo(w, left[w] \ {n})
  /\ UNCHANGED <<disk, typed, books, bounds, pc, plan, snap, prior, done>>

HeadKnown(w) ==
  /\ pc[w] = "head" /\ left[w] = {}
  /\ Goto(w, "replay")
  /\ UNCHANGED <<disk, typed, books, bounds, call>>

\* The tail of a commit that took effect, or had taken effect before.
Succeed(w) == Goto(w, IF plan[w] \in Semantic THEN "settle" ELSE "ok")

\* 1: a recorded commit is returned as it is; a store fault ends the call.
Replay(w) ==
  /\ pc[w] = "replay"
  /\ \/ plan[w] \in revisions /\ Succeed(w) /\ UNCHANGED left
     \/ plan[w] \notin revisions /\ Goto(w, "snapshot") /\ Todo(w, Notes)
     \/ "store" \in Faults /\ Goto(w, "commit_failed") /\ UNCHANGED left
  /\ UNCHANGED <<disk, typed, books, bounds, plan, base, snap, prior, done>>

\* 3: readSnapshot, the files one by one.
ReadNote(w, n) ==
  /\ pc[w] = "snapshot" /\ n \in left[w]
  /\ \E read \in Reads(n) : snap' = [snap EXCEPT ![w][n] = read]
  /\ Todo(w, left[w] \ {n})
  /\ UNCHANGED <<disk, typed, books, bounds, pc, plan, base, prior, done>>

SnapshotTaken(w) ==
  /\ pc[w] = "snapshot" /\ left[w] = {}
  /\ Goto(w, "check")
  /\ UNCHANGED <<disk, typed, books, bounds, call>>

\* 3 to 6, and the fence at the head of the atomic commit: no await.  A plan
\* that is in the vault already goes straight to its records.
Check(w) ==
  /\ pc[w] = "check"
  /\ \/ snap[w] # base[w] /\ Goto(w, "write_conflict") /\ UNCHANGED left
     \/ snap[w] = base[w] /\ ~Owned(w) /\ Goto(w, "ownership_violation") /\ UNCHANGED left
     \/ /\ snap[w] = base[w] /\ Owned(w)
        /\ \/ Changed(w) = {} /\ Goto(w, "audit") /\ UNCHANGED left
           \/ Changed(w) # {} /\ Goto(w, "stage") /\ Todo(w, Changed(w))
           \/ /\ Changed(w) # {} /\ "fence" \in Faults
              /\ Goto(w, "write_fence_breached") /\ UNCHANGED left
  /\ UNCHANGED <<disk, typed, books, bounds, plan, base, snap, prior, done>>

-----------------------------------------------------------------------------
(* 7: atomicCommit *)

\* The staged files of some notes at the target revision: a call sweeps those it
\* staged and did not rename.
Staging(w, ns) == {Target(w)} \X ns

Stage(w, n) ==
  /\ pc[w] = "stage" /\ n \in left[w]
  /\ temps' = temps \cup {<<Target(w), n>>}
  /\ Todo(w, left[w] \ {n})
  /\ UNCHANGED <<vault, typed, books, bounds, pc, plan, base, snap, prior, done>>

StageFails(w) ==
  /\ pc[w] = "stage" /\ left[w] # {} /\ "stage" \in Faults
  /\ temps' = temps \ Staging(w, Changed(w) \ left[w])
  /\ Goto(w, "commit_failed")
  /\ UNCHANGED <<vault, typed, books, bounds, call>>

Staged(w) ==
  /\ pc[w] = "stage" /\ left[w] = {}
  /\ Goto(w, "priors") /\ Todo(w, Changed(w))
  /\ UNCHANGED <<disk, typed, books, bounds, plan, base, snap, prior, done>>

ReadPrior(w, n) ==
  /\ pc[w] = "priors" /\ n \in left[w]
  /\ \E read \in Reads(n) : prior' = [prior EXCEPT ![w][n] = read]
  /\ Todo(w, left[w] \ {n})
  /\ UNCHANGED <<disk, typed, books, bounds, pc, plan, base, snap, done>>

PriorsRead(w) ==
  /\ pc[w] = "priors" /\ left[w] = {}
  /\ Goto(w, "rename") /\ Todo(w, Changed(w))
  /\ UNCHANGED <<disk, typed, books, bounds, plan, base, snap, prior, done>>

Rename(w, n) ==
  /\ pc[w] = "rename" /\ n \in left[w] /\ <<Target(w), n>> \in temps
  /\ vault' = [vault EXCEPT ![n] = Target(w)[n]]
  /\ temps' = temps \ {<<Target(w), n>>}
  /\ done' = [done EXCEPT ![w] = @ \cup {n}]
  /\ Todo(w, left[w] \ {n})
  /\ UNCHANGED <<typed, books, bounds, pc, plan, base, snap, prior>>

\* A rename fails by itself, or because a call with the same target revision
\* used up the staged file.
RenameFails(w, n) ==
  /\ pc[w] = "rename" /\ n \in left[w]
  /\ "rename" \in Faults \/ <<Target(w), n>> \notin temps
  /\ Goto(w, "rollback")
  /\ UNCHANGED <<disk, typed, books, bounds, call>>

Restore(w, n) ==
  /\ pc[w] = "rollback" /\ n \in done[w]
  /\ \/ vault' = [vault EXCEPT ![n] = prior[w][n]]
     \/ "restore" \in Faults /\ UNCHANGED vault
  /\ done' = [done EXCEPT ![w] = @ \ {n}]
  /\ UNCHANGED <<temps, typed, books, bounds, pc, plan, base, snap, prior, left>>

\* (mutant) the staged files are swept, the renamed ones are not restored.
SweptOnly(w) ==
  /\ pc[w] = "rollback"
  /\ temps' = temps \ Staging(w, left[w])
  /\ Goto(w, "commit_failed")
  /\ UNCHANGED <<vault, typed, books, bounds, call>>

RolledBack(w) ==
  /\ pc[w] = "rollback" /\ done[w] = {}
  /\ temps' = temps \ Staging(w, left[w])
  /\ Goto(w, "commit_failed")
  /\ UNCHANGED <<vault, typed, books, bounds, call>>

Renamed(w) ==
  /\ pc[w] = "rename" /\ left[w] = {}
  /\ Goto(w, "audit")
  /\ UNCHANGED <<disk, typed, books, bounds, call>>

-----------------------------------------------------------------------------
(* 8: the records, and the plan's row *)

\* (mutant) a failed audit record is swallowed.
AuditSwallowed(w) ==
  /\ pc[w] = "audit" /\ Goto(w, "record")
  /\ \/ audited' = audited \cup {plan[w]}
     \/ "store" \in Faults /\ UNCHANGED audited
  /\ UNCHANGED <<disk, typed, revisions, row, bounds, call>>

Audit(w) ==
  /\ pc[w] = "audit"
  /\ \/ audited' = audited \cup {plan[w]} /\ Goto(w, "record")
     \/ "store" \in Faults /\ Goto(w, "audit_record_failed") /\ UNCHANGED audited
  /\ UNCHANGED <<disk, typed, revisions, row, bounds, call>>

Record(w) ==
  /\ pc[w] = "record"
  /\ \/ revisions' = revisions \cup {plan[w]} /\ Succeed(w)
     \/ "store" \in Faults /\ Goto(w, "revision_record_failed") /\ UNCHANGED revisions
  /\ UNCHANGED <<disk, typed, audited, row, bounds, call>>

Settle(w) ==
  /\ pc[w] = "settle"
  /\ \/ row' = [row EXCEPT ![plan[w]] = "committed"] /\ Goto(w, "ok")
     \/ "store" \in Faults /\ Goto(w, "unsettled") /\ UNCHANGED row
  /\ UNCHANGED <<disk, typed, audited, revisions, bounds, call>>

Return(w) ==
  /\ pc[w] \in Outcomes
  /\ Goto(w, "idle")
  /\ plan' = [plan EXCEPT ![w] = NoPlan]
  /\ base' = [base EXCEPT ![w] = EmptyVault]
  /\ snap' = [snap EXCEPT ![w] = EmptyVault]
  /\ prior' = [prior EXCEPT ![w] = EmptyVault]
  /\ left' = [left EXCEPT ![w] = {}]
  /\ done' = [done EXCEPT ![w] = {}]
  /\ UNCHANGED <<disk, typed, books, bounds>>

\* (mutant) the status is the card's verdict, which the row does not know.
SettleRefused(p) ==
  /\ p \in Semantic /\ row[p] = "pending" /\ attempts[p] = 0
  /\ row' = [row EXCEPT ![p] = "refused"]
  /\ UNCHANGED <<disk, typed, audited, revisions, bounds, pc, call>>

\* A card is decided once, so a rejected plan was never dispatched.
SettleRejected(p) ==
  /\ p \in Semantic /\ row[p] = "pending" /\ attempts[p] = 0
  /\ row' = [row EXCEPT ![p] = "rejected"]
  /\ UNCHANGED <<disk, typed, audited, revisions, bounds, pc, call>>

-----------------------------------------------------------------------------
(* Around the writer *)

\* A call has read the note for its plan and is not done with the vault: what is
\* written to the note now is in no comparison of that call.
Held(n) ==
  \E w \in Writers :
    \/ pc[w] = "snapshot" /\ n \notin left[w]
    \/ pc[w] \in {"check", "stage", "priors", "rename", "rollback"}

\* The owner, or the sync service that carries the owner's edits, at any moment.
OwnerTypes(n, e) ==
  /\ \A m \in Notes : e \notin vault[m] \cup typed[m]
  /\ vault' = [vault EXCEPT ![n] = @ \cup {e}]
  /\ typed' = IF Held(n) THEN typed ELSE [typed EXCEPT ![n] = @ \cup {e}]
  /\ UNCHANGED <<temps, books, bounds, pc, call>>

\* The worker dies with all its calls; files and rows stay.
Crash ==
  /\ crashes < MaxCrashes /\ crashes' = crashes + 1
  /\ pc' = [w \in Writers |-> "idle"]
  /\ plan' = [w \in Writers |-> NoPlan]
  /\ base' = [w \in Writers |-> EmptyVault]
  /\ snap' = [w \in Writers |-> EmptyVault]
  /\ prior' = [w \in Writers |-> EmptyVault]
  /\ left' = [w \in Writers |-> {}]
  /\ done' = [w \in Writers |-> {}]
  /\ UNCHANGED <<disk, typed, books, attempts>>

Next ==
  \/ \E w \in Writers, p \in Plans : Begin(w, p)
  \/ \E w \in Writers, n \in Notes :
       \/ Probe(w, n) \/ ReadHead(w, n) \/ ReadNote(w, n)
       \/ Stage(w, n) \/ ReadPrior(w, n) \/ Rename(w, n)
       \/ RenameFails(w, n) \/ Restore(w, n)
  \/ \E w \in Writers :
       \/ Probed(w) \/ HeadKnown(w) \/ Replay(w) \/ SnapshotTaken(w)
       \/ Check(w) \/ StageFails(w) \/ Staged(w) \/ PriorsRead(w) \/ Renamed(w) \/ RolledBack(w)
       \/ Audit(w) \/ Record(w) \/ Settle(w) \/ Return(w)
  \/ \E p \in Plans : SettleRejected(p)
  \/ \E n \in Notes, e \in Edits : OwnerTypes(n, e)
  \/ Crash

Spec == Init /\ [][Next]_vars

-----------------------------------------------------------------------------
(* What the KnowledgeWriter promises *)

Readable == Notes \ Unreadable

\* Nothing the owner wrote is lost from a note the worker can read: no write, and
\* no rollback, replaces it by one without it, whenever it was written and whatever
\* happens to the other notes of the plan.  Only an edit made under the hands of a
\* call that has read the note is not compared.
EditsKept == \A n \in Readable : typed[n] \subseteq vault[n]

\* The same of every note, as revision.ts:6-8 has it: an out-of-band change "is
\* detected, never silently clobbered".  A note that could not be read is taken for
\* a missing one.
NeverClobbered == \A n \in Notes : typed[n] \subseteq vault[n]

\* A plan with an audit row, a revision or a committed row is in every readable note
\* it targets: a crash, a retry or a fault leaves no record of a commit that is not
\* whole there.
EvidenceIsTruthful ==
  \A p \in Plans :
    p \in audited \cup revisions \/ (p \in Semantic /\ row[p] = "committed")
      => \A n \in Targets(p) \cap Readable : p \in vault[n]

\* The records are made in one order and each is the ground of the next: no
\* revision without an audit row, no committed row without a revision.
RecordsInOrder ==
  /\ revisions \subseteq audited
  /\ \A p \in Semantic : row[p] = "committed" => p \in revisions

\* Nothing went, and only edits of the owner came.
Grown(before, after) == before \subseteq after /\ after \ before \subseteq Edits

\* A commit that failed left the notes that can be read as they were in the revision
\* it was made against, but for what the owner wrote since, also when the fault came
\* between two renames (atomicCommit's contract).
FailureRestores ==
  \A w \in Writers :
    pc[w] = "commit_failed" /\ plan[w] \notin Pinned
      => \A n \in Readable : Grown(base[w][n], vault[n])
=============================================================================
