# TLA+ models of the System of Work assistant

The repository is a local-first assistant: a worker process (`apps/worker`) with
an embedded Temporal server, an operational SQLite store (`packages/db`), an
owner-visible Markdown vault and its index (`packages/knowledge`), gateways to
external systems (`packages/integrations`), AI providers (`packages/providers`),
decision functions (`packages/policy`, `packages/domain`), workflows
(`packages/workflows`) and a desktop shell (`apps/desktop`).  Its central promise
is that the owner stays in charge: an external write is made once, after the
owner approved it, and never over somebody else's content; its own writes to the
owner's notes cost the owner no word; what it takes in is either written or
reported; and one worker at a time does all this, over a store whose schema it
knows.  Paths below are relative to `src/`.

## 1. Inventory

The last column says where a part is modelled; section 6 says why the others are not.

| Part | State it keeps | Operations | What is hard | What makes it correct | Module |
|---|---|---|---|---|---|
| Tool Gateway `packages/integrations/src/tools/{gateway,existence-check,receipt-store}.ts` | `write_receipts` (one row per object), `write_applications` (ledger) | `dispatchExternalWrite` | awaits of concurrent dispatches, lost answers, crashes, store faults that are swallowed | one creator, no duplicate object, no write without approval, no foreign object overwritten, no invented success | `ToolGateway` |
| Write outbox and drain `tools/outbox*.ts`, `apps/worker/src/composition/outboxDrainBind.ts` | `outbox` rows | `holdWrite`, `drainOutbox`, `applyOutcome` | stale snapshots, ordering of re-drives, fairness of the list | a held write ends as long as wakes come, no stale content | `ExternalWrites` |
| Approvals `packages/domain/src/state/approval.ts`, `apps/worker/src/api/procedures/approvalCommands.ts`, `packages/workflows/src/workflows/approvalFlow.ts` | `approvals` rows | decide, record, surface, apply, snooze tick | two channels, activity retries, stale records, timers | a decision is applied and dispatched at most once, terminal records frozen | `ApprovalCard` |
| Approval-path dispatch `externalApprovalDispatch.ts`, `approvalSend.ts`, `copilotProposeSink.ts` | single-flight map | propose, send, close | crash between two rows; drain beside sender | only approved writes are sent | `ExternalWrites` |
| KnowledgeWriter `packages/knowledge/src/{knowledge-writer,markdown-vault}`, `packages/workflows/src/activities/commitKnowledge.ts` | vault files and staged files, `audit`, `knowledge_revisions` | `applyPlan`, `atomicCommit`, `tombstone` | owner edits in between, notes that cannot be read, crash between two renames or before a record, failed restore | in every note that can be read: no lost edit, a record implies the whole plan, a failed commit restores | `KnowledgeWriter` |
| Semantic dispatch `apps/worker/src/api/procedures/semanticMutationDispatch.ts` | pending-mutation rows | dispatch, settle, sweep at boot | re-drive of a plan that is half done | records in order | `KnowledgeWriter` |
| GBrain index `packages/knowledge/src/gbrain`, `knowledge-writer/gbrain-sync-trigger.ts` | sync outbox, the index | trigger, index job, drain at boot | the tree moves under a job, restarts, superseded rows | no uncommitted text indexed, rows truthful, what is held is settled | `GBrainSync` |
| Parity and serving `gbrain/parity`, `gbrain/serving`, `apps/worker/src/api/procedures/{servingContextLoader,copilotProvenanceStamp}.ts` | parity reports | reconcile pass, coverage, admission | four reads of one answer, awaits apart; a stray writer of the index | proven means stamped and reconciled | `GBrainServing` |
| Source ingestion `packages/workflows/src/workflows/sourceIngestion.ts`, `apps/worker/src/{temporal,watch}` | Temporal runs, seen hashes, Ingestion Inbox, health items, debounce timers | capture, dispatch, register, route, park, commit, surface | activities that are tried again or give up, a vault that moves, a sink that refuses | applied means written, an end the run comes to by itself is reported | `SourceIngestion` |
| Connector Gateway and sync `packages/integrations/src/connectors/gateway.ts`, `connectorSyncHealth.ts`, `connectorIngestionBridge.ts` | cursors | begin, fetch, deliver, advance | crash between hand-over and cursor, overlapping passes | no gap; every run comes to rest | `ConnectorSync` |
| Desktop supervisor and worker host `apps/desktop/{main/worker-supervisor,main/index,worker-host/index}.ts`, owner lock `apps/worker/src/install/lock` | child handle, crash count, lock file | fork, restart, stop, quit; lock, close; the fence of a commit | exits and messages heard late, stale lock files, an app that dies first | one worker nobody asked to stop, the lock names its holder but for one race | `WorkerOwnership` |
| Migration and backup `packages/db/src/{migrate,backup}`, `apps/worker/src/backup` | schema, `user_version`, artifacts and their records | gate, migrate, back up, prune, close | a failure or crash between any two steps | nothing served over a schema that is not there, retained backups whole | `OperationalStore` |
| Workspace posture `apps/worker/src/composition/{provisionWorkspace,workspaceRegistry,egressRevoke,crossWorkspaceLink}.ts`, `packages/policy/src/egress.ts`, `api/procedures/copilot.ts` | `workspace_config`, the registry, `cross_workspace_link` | create and re-provision, revoke, ask, create/approve/revoke a link | requests interleave between a read and the write it led to; retries and replays of onboarding | a revoke holds, a shut door lets no prompt out, a registered workspace has a row, a revoked link stays | `WorkspacePosture` |
| Instance lease `apps/worker/src/lease`, `lifecycle/lease-reacquire.ts` | one row per task queue | acquire, renew, release | clocks, sleep | one fenced holder | — (tests only call it) |
| Temporal supervision `apps/worker/src/temporal`, `apps/desktop/worker-host/temporal-supervisor.ts` | connection, child server | connect, reconnect, restart the server | restarts, orphans | one drain per reconnect | as the retries of activities and the wakes of the drains |
| Workflow runtime `packages/workflows/src/runtime` | `workflow_runs`, watermarks | resolve run, catch up, wake | missed windows | a window is not skipped | — (off by default) |
| Deletion saga, notebook sync, other workflows `packages/workflows/src/workflows` | plans, compensations | the activities of each | partial failure | compensation is complete | — |
| Provider broker `packages/providers/src/broker` | job status, budgets | admit, run, cancel | racing jobs at a budget limit | budget not exceeded | — |
| Policy `packages/policy/src` | none | admission, egress veto, visibility | combinations of rules | deny wins | the veto, in `WorkspacePosture` |
| Event stream `apps/worker/src/api/stream` | ring buffer, cursors | publish, subscribe, resume | slow readers | no silent gap | — (nothing publishes) |

How the modelled parts interact.  The Copilot's propose sink saves the action in
the **outbox** and raises an **approval card**; the owner's decision goes through
the **approval compare-and-set**; an applied approval calls the **sender**, which
re-checks the saved entry and drives the **Tool Gateway**; the wake **drain** does
the same for entries that are due; the gateway keeps the **receipt row** and the
**ledger** and calls the vendor; the outcome is folded back on the outbox entry.
The Temporal approval flow uses the same card, the same compare-and-set and the
same gateway.  An approved *semantic* card goes elsewhere: its dispatch probes the
plan's targets in the vault, commits the plan through the **KnowledgeWriter** and
settles the plan's row; the workflows commit through the same writer.  A **watched
file** or a **connector's record** starts a source run, which commits its note and the
page derived from it through the writer; after every commit the **sync trigger**
queues the revision and drives the **index**; the **reconcile pass** compares index
and vault, and its report decides what an answer may show as proven.  What a question
may send to a provider at all is decided by its **workspace's posture**, which
onboarding creates and the owner narrows.  All of this
runs in the **worker process**, which the desktop's **supervisor** starts, which takes
the **owner lock**, and which opens, migrates and backs up the **operational store**.

## 2. Modules

| Module | What it is |
|---|---|
| `ToolGateway` | `dispatchExternalWrite` with its stores and a vendor; complete |
| `ApprovalCard` | one approval card: command path, approval flow, snooze tick |
| `WriteIntent` | the abstract promise: a decision is taken once, only approved writes are made |
| `ExternalWrites` | proposal, card, outbox, sender and drain around `ToolGateway` (which it extends); implements `WriteIntent` |
| `KnowledgeWriter` | a plan is committed to the vault and recorded; the dispatch of an approved plan around it |
| `GBrainSync` | a commit's revision is queued and applied to the index; the drain at boot |
| `GBrainServing` | the reconcile pass and the question, over `GBrainSync` (which it extends), with a stray writer of the index |
| `SourceIngestion` | a file or record becomes a run, and the run a note |
| `ConnectorSync` | a connector's pages, cursor and passes, feeding `SourceIngestion` (which it extends) |
| `WorkerOwnership` | the app, its supervisor, the worker processes, the lock file and the fence |
| `OperationalStore` | gate, migration, writes, backup, retention, close |
| `WorkspacePosture` | onboarding, revoke, question and links over the workspaces' rows |
| `ToolGatewayProofs` | theorems of `ToolGateway`, and of `ExternalWrites` (which it extends) with its refinement of `WriteIntent` |
| `GBrainSyncProofs` | theorems of `GBrainSync` and of `GBrainServing` (which it extends) |
| `ConnectorSyncProofs` | theorems of `SourceIngestion` and `ConnectorSync` |
| `…Proofs` of `ApprovalCard`, `KnowledgeWriter`, `WorkerOwnership`, `OperationalStore`, `WorkspacePosture` | theorems of the module named |
| `MC…` | instances for TLC |

Definitions marked `(mutant)` are wrong on purpose: plausible slips of the code,
put in place of the definition they precede to see that a property notices.  No
specification uses them.

### ToolGateway

One dispatcher is one call of `dispatchExternalWrite`; `pc[d]` is the await it is
at, in the order of the code: approval, credential, ledger lookup, key lookup,
object lookup, (authorship, update), probe, (adopt), reserve, create, (release),
ledger record, row put.  An envelope is its idempotency key; `ObjectOf` and
`PayloadOf` give the object identity and the payload hash.  `row[o]` is the
`write_receipts` row (absent, a receipt-less placeholder, or committed with the
key it carries and `recordedAt`), `ledger` is `write_applications`.  An
idempotency key determines its object, so the replay lookup by key is a look at
that object's row.

The vendor is outside the repository.  It is modelled from the adapter port: a
call returns, or faults with one of the closed codes.  `ClientIds` says whether the
vendor refuses a second create of an id chosen by the client (as Linear's does);
`Ambiguous` says whether an `unreachable` or unreadable answer may follow an
applied call, or leave the request on the wire (`LateArrival`); `lost` is a history of
the objects with a create whose answer went that way.  `StoreFaults` lets
every read of the operational store fail (fail-closed: held, or not authored) and
every write of it fail silently, as `createReceiptStoreAdapter` drops those
results.  `Crash` empties every dispatcher and keeps the rows.

Left out: the candidate gate (an envelope here is admitted), the wording of
reasons, audit and logging, workspace scoping of credentials (one workspace).

### ApprovalCard

Commands and workflow runs are actors with a `pc`.  A command reads the card,
builds the next record from the clock, compares-and-sets, and dispatches when it
applied.  A flow records (reserving the object's receipt row), surfaces, applies
and dispatches; after an activity that took effect its result may be lost and the
activity runs again (Temporal's retry policy, at most `MaxRetries`).  The
compare-and-set replaces the whole record and compares the status only, as the
SQL does.  A worker restart loses commands and re-evaluates `boot`, the instant
`buildProofSpineActivities` computes its windows from; workflow runs survive.

Two parts of this are not driven in production today, and the model covers what
the code does when they are: `approvalFlowWorkflow` has no starter, and the worker
does not wire `applySystem`, so a snooze tick that reaches it is refused there; the
package's own `runApprovalFlow` and `createApplyTransitionActivity` implement it.

### ExternalWrites and WriteIntent

`entry[e]` is the outbox row (status and `enqueuedAt`), `card[e]` the card (one
step per decision; its races are `ApprovalCard`'s), `snap[d]` the snapshot of an
entry a dispatcher works from and later writes back whole, `batch` what a drain
pass listed, `backoff` the entries whose `nextAttemptAt` is ahead, `closing` the
rejections whose entry is not closed yet.  Senders are single-flight per card, the
drain is one sequential dispatcher beside them.  `Armed` is `shouldDrive`/`armedFor`.
A rejected card's entry is read and written back in two steps (`FindEntry`,
`CloseEntry`, with the copies read in `shut`).
The gateway's own actions are `ToolGateway`'s.  The refinement maps `decided` to
the cards and `written` to the envelopes whose content reached the vendor.

### KnowledgeWriter

A note is the set of marks in it (the owner's edits, the regions of plans); a
revision is a content hash of the whole vault, so it is the vault.  One writer is
one call, `pc[w]` the await it is at: gate 1 of the dispatch (Copilot plans only),
the base, the replay lookup, the snapshot, the checks, then `atomicCommit` (stage,
read the priors, rename, and on a fault roll back), the audit row, the revision, and
the row of a Copilot plan.  Files are read, staged and renamed one at a time; the
order is the plan's in the code and any order here.  A staged file is named by its
target revision, so calls with the same target share it (`Staging`); a rename whose
staged file is gone fails.  A read of a note in `Unreadable` may answer `Missing`
(`Reads`): production's `createFsVault.read` (`apps/worker/src/composition/
backends.ts:411-418`) turns every error into "no such note", and `list` leaves out a
directory it cannot read (423-427), so no read of the vault ever fails a call.  `Semantic` plans come from the Copilot and are driven
again by the sweep at boot as long as their row is pending; `Pinned` plans are
committed against the empty vault (the auto-ingest composition's base); the others
resolve the base when they run.  `Faults` says what may fail.  The owner writes at any
moment.  `typed` is history: what the owner wrote in each note, but for edits made to a
note between the reading of its snapshot and the end of the renames (`Held`), which no
comparison of that call sees.

A create renders the note afresh; `Owned` (the ownership check) refuses it over
anything that was there and would be gone.  Every plan has regions of its own here; a
plan that replaces another's region of the same id is not modelled.

Left out: the candidate gate, path guard and secret scan (a plan here is admitted),
provenance stamps (off without a key), the tombstone writer, an owner who deletes
text or notes, and the sync trigger that follows a commit (`GBrainSync`).

### GBrainSync

A revision is the hash of the working tree, so it is the tree; `Text` says what it
holds on each page.  A commit activity (`Triggers`) goes through lookup, enqueue, and
the index job: high-water check, (supersede), load of the live tree, apply, persist,
or lag; the drain at boot lists the held rows and drives the same job one by one.
`outbox[r]` is the row of a revision, with the instant it was queued at, `index` what
the index holds, `applied` the history of applications.  The owner edits the tree at
any moment (`OwnerEdits`), a replayed plan triggers again without a commit (`Replay`),
an application may take effect and its answer be lost, a `Restart` at any await loses
the calls and starts the next drain.

The index client that production binds today is a stub; the model follows
`index-apply-http-client.ts`.  `Underivable` trees (two notes claim one fact) lag for
ever; the run leaves them out and `HeldIsSettled` excludes them.

### GBrainServing

The configuration with stamping, reconciliation and the version pin armed, which is
not the default.  `pass` is the reconcile pass (files, head, compare, record), `ask`
the question (retrieve, files, head, coverage, admit), each reading vault, index and
reports at different moments.  A commit stamps the pages it rewrites (`signed`); the
owner's edits and the stray writer's are not stamped.  Report ids begin again at each
boot and an insert under a taken id does nothing, as in the repository.
Facts are pages; the divergence classes are hard and soft.

### SourceIngestion and ConnectorSync

A source is a file of the vault or a record of a connector; the id of a run is the
hash of its contents, so runs are indexed by contents and a second start of the same
contents finds the first.  `pc[c]` is the activity the run is at: register, route,
(park), process, base, apply, (the same two again for the derived page), propose,
surface.  Runs are durable; `Restarted` sends the activity under way back to its
beginning and drops debounce timers.  `Expire` is the end of the server's retention:
the id is free again.  `Propose` is the approval of external actions seen from
outside, `Process` the read-only job, the validation and the derivation: neither keeps
state of its own that a property speaks of.  A lost answer sends an activity back to
its beginning, and at any await a run may be `Exhausted`: the activity has used up its
five attempts of a minute each (`temporal/workflows.ts:271-279`), nothing in
`sourceIngestion.ts` or the starter catches that, and the run is over (`"broken"`)
without a report.

`ConnectorSync` adds the vendor's pages, the stored `cursor`, and passes that begin
from it, fetch, hand over record by record and advance.  Two passes may be under way
when Temporal runs one again that was slow.  Connector polling is built and dormant: no
schedule and no other production caller begins a pass (`connectorPolling.ts:122-142`,
`temporal/workflows.ts:755-769`, `buildActivities.ts:1587-1606`), so the model assumes
nothing of when one begins.  `Malformed` records, which registration
rejects, are in the module and in the proofs and not in the runs' instances.

Left out: the meeting route, backoff delays, adapters, the contents of notes.

### WorkerOwnership

`phase[w]` is what a process is at: the stretch of the lock (create, read the holder,
remove, create again, write the pid) step by step, boot, the first connect to Temporal,
serving, closing; `lock` is the file, `robbed` the workers whose file another's removal
of a stale one took (history).  The supervisor has its status (`starting` stands for `starting` and
`restarting`), child, timer and crash count; what a process sends and how it ends is
heard later (`mail`, `exits`).  A process that boots badly stays alive, as its channel
keeps it.  A worker that booted awaits its first connect before it says `ready`
(`Connect`): without the proof spine, or with Temporal down, that comes back; with the
spine it is the spine's whole run (`registerWorker.ts:384`), so the worker serves and
commits (`spine`) and `ready` is not sent while it does.  A spine that fails is tried
again (`SpineFails`).  A worker told to stop releases the lock first when it has booted
and goes on closing; before that it exits and leaves the file.  The app may quit or die; the channels close and each worker is told to
stop.  Releasing the lock is one step here (read and unlink in the code, in one
synchronous stretch of the holder).  The app may be opened again at any moment it is
closed, while a worker it left is still closing too: quitting does not wait for the
worker (`desktop/main/index.ts:217-219`).

### OperationalStore

`schema` is what the file holds, `marker` its `user_version`, `written` the instant
of every row.  Boot passes the gate (`Compatible`), migrates, and writes the marker
separately; a backup run captures, stores the bytes, writes the record, lists again
and prunes, each a step that may fail or be the last before a crash.  An `Artifact`
is dated by the instant of its capture.  A record that was cut short (`torn`) makes
every later listing fail, as `JSON.parse` throws there.  Steps of a run interleave
with writes more freely than the event loop would let some of them: the model has all
behaviours of the code and a few more.  Left out: a partial `.bin` file beside no
record (it is never listed), a clock that is set back, restore (no production caller).

### WorkspacePosture

A request is a call of the worker's API; `call[c].pc` is the statement it is at and
the record holds what it read.  Onboarding finds no row and inserts
(`insertIfAbsent`), or finds one of the same type and updates the three columns it
owns, then reads the registry and puts it back with one id more.  A revoke reads the
row, writes the whole row back with the acknowledgement off, and records that; only
then is the owner told.  A question retrieves its context, resolves the posture, and is
vetted and sent in one step (nothing else is read in between).  The retrieval comes
before the posture and the veto (`copilot.ts:613-615`); where it is armed
(`worker-host/index.ts:242-246,279`) the question goes to gbrain, which has it embedded
in the cloud (`copilotGbrainSubprocess.ts:280-297`), so `Retrieve` may send
`"question"`.  A link is created
behind two reads of the registry and one of the link; approving and revoking read the
status and write it in a second statement that does not compare.  Any statement may
fail, a request is lost in a `Restart`, and the route of a boot is either Claude's
cloud route or the loopback one.  `told`, `sent` and the request's `shut` are history.

`name` stands for the three columns onboarding may change (name, vault path, brain),
`ack` for the acknowledgement and its instant, `allowed` and `raw` for the two
allowlists; a row an earlier version wrote has neither (`Legacy`).  Nothing in the code
turns an acknowledgement on but the seed of a new row.  Left out: the record of a
denied question (best effort, it decides nothing), the development provisioner, the
read across workspaces (`crossWorkspaceRead.ts` has no consumer), a stored row that no
longer parses (refused like a failed read), the search for a follow-up's previous question
(a second retrieval before the veto), and further rounds of a question that uses tools.

## 3. Runs

| Run | Question |
|---|---|
| `gateway_clean` | with store faults, a crash, lost answers, late requests and an object that may be a stranger's, at a vendor that would create twice: `OneCreator`, `NoDuplicateObject`, `LedgerIsTruthful`, `ForeignUntouched` (and `TypeOK`) |
| `card_races` | two commands, a flow with a retry, ticks, a restart: `DispatchedOnce`, `TerminalIsFrozen` (and `TypeOK`) |
| `writes_intent` | the whole path, with lost and late answers, store faults and a crash, implements `WriteIntent`: `KeepsTheIntent`, `ApprovalFirst`, `SuccessIsReal` (and `WritesTypeOK`) |
| `writes_drained` | two contents for one object, of any order and age, drained, with a crash: `ApprovedIsSettled`, `NoStaleOverwrite` |
| `knowledge_alone` | one commit at a time, an owner who writes at any moment, one note of two that may not be readable, every fault but a failed restore, a crash: `EditsKept`, `EvidenceIsTruthful`, `RecordsInOrder`, `FailureRestores` (and `TypeOK`) |
| `unreadable_notes` | two notes that may not be readable and no other fault; a violation is found of `NeverClobbered` |
| `index_synced` | two commit activities, the drain, edits, faults, restarts: `IndexHoldsCommitted`, `IndexedIsTruthful`, `HeldIsSettled` |
| `index_served` | reconcile pass, question and stray writer over the sync: `ProvenIsSigned`, `ProvenIsReconciled` (and `TypeOK`) |
| `sources_settle` | a watched file and a connector over two contents, with a lost answer, an exhausted activity or a crash, an expired run: `AppliedIsWritten`, `EndsAreReported`, `CursorBehindDelivery`, `AllSettles` |
| `worker_owned` | overlapping launches, quits, deaths and late news over three process ids: `OneStanding`, `LockIsOwn`, `OwnershipSettles` |
| `store_kept` | two builds installed over one another, backups and their retention, a failure or crash at any step: `MarkerIsEarned`, `KeptAreWhole`, `BackupCovers`, `DueIsTaken` (and `TypeOK`) |
| `posture_kept` | two requests at a time, onboarding, revokes, questions and a link interleaved, faults, restarts: `RevokeHolds`, `NoPromptOnceShut`, `LinksStayRevoked` |

Type correctness is proved of every component for every instance; the runs of `GBrainSync`,
`ConnectorSync`, `WorkerOwnership` and `WorkspacePosture` leave it out.  All runs but `unreadable_notes` pass: where the code does less than a
sentence of the repository says, the property states what it does keep, and the
difference is listed here.

`unreadable_notes` is the one difference stated as a property of its own.
`revision.ts:6-8` says that a change by an out-of-band writer "is detected, never
silently clobbered".  A note that cannot be read when its plan is applied is in no
revision and looks missing, so a plan that creates it passes gate 1, the revision check
and the ownership check, and the rename, which reads nothing, replaces the owner's text.
In the same way a rollback removes a note whose prior could not be read.  The three
properties of the vault are therefore stated of readable notes, and `knowledge_alone`
shows that an unreadable note in a plan costs its readable ones nothing.

### Deviations

Met while modelling, each visible in the models by lifting the assumption named with
its hazard:

* external writes — a second object after a lost answer and a release, where the
  vendor has no ids of the client's; a closed entry re-opened from an older snapshot; a
  placeholder left by a crash that holds the write for ever (`ApprovedIsSettled` excepts
  an object with such a placeholder, `Orphaned`); an entry closed with the
  receipt of other content; a later proposal dropped as out of date;
* cards — a retried apply that reads its own commit as somebody else's; a deferred
  card approved directly; an old tick that ends a newer deferral; a deferral stamped
  from the boot of the worker; a flow held by its own placeholder;
* notes — an unreadable note is overwritten or, in a rollback, removed (above); an edit
  typed between the snapshot and the rename is overwritten; a plan
  that created its note and was not settled is refused when driven again; a second
  audit row; a lost region of overlapping commits; the base of the auto-ingest run is
  the empty vault;
* index — older text applied last until the next sync; a vault that returns to an
  earlier revision is never synced again; a trigger lost in a crash;
* sources — the register activity records the content hash in the call that looks it
  up (`seenContentHashProbe.ts:38`); when its answer is lost the retry finds its own
  record and the run ends as a duplicate of a source nobody ingested
  (`temporal/workflows.ts:268` calls the activities idempotent); a run that is broken off
  because an activity used up its attempts ends without a System Health item, though
  `sourceIngestion.ts:35` says "nothing silent" (`EndsAreReported` speaks of the ends a
  run comes to by itself); one of two parks at once is lost; a file saved just before a crash is not
  ingested until it is saved again;
* ownership — two workers past the fence when the app is opened while a worker it left
  is closing, or when one removes as stale the lock file another has just made, though
  `singleOwnerLock.ts:125` speaks of no false acquire (`LockIsOwn` excepts the worker
  whose file was removed); a boot that fails hangs alive with only its `exitCode` set
  (`worker-host/index.ts:388-389`) and is shown as starting for ever, though
  `worker-supervisor.ts:93-102,169-175` promises a terminal `worker_down`
  (`OwnershipSettles` names this end, `Hangs`); a `ready` of a worker that has died is
  heard after its exit and replaces `worker_down`; with the proof spine `ready` is not
  sent while the worker serves;
* store — a record cut short stops all later backups; a crash at the first migration
  leaves a file that every later boot refuses; after a crash in an upgrade the older
  build passes the gate over the newer schema;
* workspaces — the question of a shut door leaves for gbrain's cloud embedding before
  the posture is read (`copilot.ts:610-612` calls the retrieval before the veto "a
  separate, tracked finding"), so `NoPromptOnceShut` speaks of the prompt only; an approval that read a link as pending before a revoke brings the
  revoked link back (`crossWorkspaceLink.ts:17-18` calls it terminal); a registration
  is lost when two overlap, and a revoke undoes a rename made since it read the row
  (both stated in the code);
* Temporal (not modelled) — a server whose host
  was killed keeps its port, and the next host spends its restarts on it; after the
  repair message nothing connects again before the next boot.

### Bounds

Every unbounded counter has a bound among the constants: `MaxTime` (the clock),
`MaxCrashes`, `MaxFaults`, `MaxObjects` (vendor objects of one identity: 2, one more
than the property allows), `MaxRetries`, `MaxAttempts` (calls for one plan),
`MaxCommits`, `MaxEdits`, `MaxExpiries`, `MaxLaunches`, `MaxWrites`, `MaxInstalls`,
`MaxId` (reports of one boot).

* Gateway and writes: two dispatchers are enough for every race of the gateway: all
  contention is over one row, one ledger key or one entry, and each property names at
  most two of them.  Two envelopes for one object give the same and different content;
  in `gateway_clean` the object may be a stranger's from the start, and one object is
  enough since no step reads two objects' rows.  Both envelopes need approval, as every
  envelope of the code's producers does, and may be swapped for one another (symmetry):
  their payloads are only compared.  `writes_drained` has a clock of
  0..1: an intent is as old as the other or one step older, whichever is drained first.
* `card_races`: two commands, one flow, and a clock that passes the snooze window (1)
  and the expiry window (2).
* `knowledge_alone`: two notes (enough for half a commit), three plans (two of which
  meet on each note), an edit the owner may make in either note, two calls for each plan
  and one crash; one of the notes may be unreadable at any read.  Its one writer
  is the assumption under which `EvidenceIsTruthful` and `FailureRestores` are stated,
  and for overlapping calls `EditsKept` and `RecordsInOrder` are proved.
  `unreadable_notes` needs one edit, one call and no fault.
* `index_synced`: two revisions, so a tree can leave and return; one page, since the
  job treats pages alike; two activities and the drain; three instants, so that of two
  rows either is older or both are as old; three commits, one edit, one fault.
* `index_served`: one activity and one instant, two report ids, so that an id is taken
  again after a restart; one fault.
* `sources_settle`: one file, two records on the second of two pages
  (the first is empty), two contents of which the file may hold either, so that file
  and record meet in one run; one edit, one fault, one pass, one expiry;
  overlapping passes are proved in general.
* `worker_owned`: three process ids, for the worker that removes a stale file, the one
  whose new file goes, and the dead one that left the first; two launches, which may
  overlap, two faults and a threshold of two crashes, so that the supervisor gives up.
* `store_kept`: two builds with different schemas, a retention of two with at most four
  artifacts, an interval of one of four instants, two rows, two faults, two installs.

* `posture_kept`: two requests, one of which writes between a read and the write of the
  other (each property names a row and at most two requests); an employer's workspace
  and another, between which a link may be asked for in either direction; one name,
  since no property reads it.  Nothing counts up, so there is no bound on how often.

Symmetry is used for dispatchers, envelopes, commands, flows and requests only, and never with a liveness
property.  Deadlock is not an error in most runs: every actor may be idle once the
bounds are used up, and the system may really rest.

### Fairness

`FairWrites`: a drain pass that was begun is carried through (`DriveNext`), an await returns (`Gateway(d)`, `Fold(d)`), a backoff elapses.  These are
weak.  Strong fairness is per call (credential, probe, create, update): an external
party that is asked again and again answers in the end; without it "settled" would be
false of any code.  Proposals, decisions, senders and crashes are not fair.  That
wakes come is no part of it: in the code a drain pass runs once per Temporal
(re)connect and only where the proof spine runs (`buildActivities.ts:1114-1201`); on an
install without it nothing re-drives a held entry but "Send now".  So
`ApprovedIsSettled` has it as its premise (`WF(ListDue)`): if a wake comes whenever
entries lie due, each ends.

`SyncFairness`: the awaits of an activity and of the drain resolve.  Boots are not
fair: that drains complete again and again is the premise of `HeldIsSettled`, since the
code drives a lagging row at the next boot and never before.

`ConnectorSync!Spec`: a debounce timer fires, Temporal carries every run on, and the
calls of a pass under way return (`GoOn`).  No pass has to begin; that passes begin
again and again is the premise of the second half of `AllSettles`.  An activity is not
tried for ever: at any await the run may be exhausted.  `WorkerOwnership!Spec`: a
process runs, signals, messages and timers arrive, an app that quits is gone in the
end; deaths, launches, quits, commits and a spine that fails are not fair.  `Scheduled`: the hourly timer fires and
the steps of a backup run return.  Faults are bounded and never fair.

## 4. Proofs

`ToolGatewayProofs` proves, for every value of the constants allowed by
`GatewayAssumption` (any number of dispatchers, envelopes, objects, any bounds,
lost answers, store faults and crashes):

* `TypeCorrect == Spec => []TypeOK`, by one lemma per action;
* `OneCreatorHolds == Spec => []OneCreator`.  `OneCreator` alone is not inductive:
  `CreatorInv` adds that while a dispatcher is on the create path the object's row
  is a placeholder (or the dispatcher has committed and only the others' rows
  count), so that no other dispatcher's `Reserve` can win, and that only a
  dispatcher on that path removes a placeholder;
* `ForeignObjectsUntouched == Spec => ForeignUntouched`, of every step.  The inductive invariant
  `ForeignInv` says that nothing of ours is over a foreign object: no envelope of
  that object is in the ledger or on the wire, and no dispatcher is at its update
  or beyond, because an adopted row carries a key the ledger does not have;
* `ApprovalComesFirst`, `LedgerTruthful` and `SuccessReal`, from one inductive
  invariant `TruthInv`.  None of the three is inductive: between the check that
  justifies a write and the write, or between the write and the ledger entry, lie
  awaits.  `Grounds(d)` says for each await what the dispatcher has behind it: an
  approval past the first, a write that reached the vendor before the ledger entry,
  a ledger entry or an object before a reuse.  `GroundsKept` says that steps of others
  take nothing of this away, since the sets it speaks of only grow;
* `OneObjectEach == Spec => []NoDuplicateObject`, for every value of the constants.
  The property excepts an object in `lost` at a vendor without client-set ids: there a
  create that times out and lands later is repeated, as the deviations above say.
  With client-set ids it holds by the vendor's own answer.  Else `BirthInv` adds to
  `CreatorInv` and `ForeignInv`, for the objects not in `lost`, that one without a row
  was never created and that a dispatcher at its create finds none;
* `SequentialNeverStale`: under `Sequential` every step keeps `NoStaleOverwrite`.
  `Sequential` spells out what the comment in gateway.ts calls the sequential case: one
  dispatcher, no lost answer, no failing store; and `NoStaleOverwrite` itself speaks of
  the time until the first crash.  Each of these leaves
  the row behind the vendor, and two dispatchers pass the ordering guard together.
  The invariant `Ordered` says that outside the two awaits that record a write
  the row of an object is no older than what is at the vendor, and that a dispatch on
  its way to an update has read that row and found it no newer than its intent.

Of `ExternalWrites` it proves, for any dispatchers and bounds:

* `WritesTyped == WritesSpec => []WritesTypeOK`;
* `IntentKept == WritesSpec => KeepsTheIntent`: the drain, the sends and the gateway
  implement `WriteIntent` under the mapping that takes a decision from the cards and
  the writes from the vendor.  Its hypothesis `AllNeedApproval` (every envelope needs
  approval) is what production does: every producer of an action forces the approval
  (`copilotPropose.ts:32`, `proposed-action-producer.ts:55`, over the policy of
  `approval-policy.ts:175-180`), and the instances TLC checks assume it too.  `PapersInv` adds to `TruthInv` that the
  gateway's approvals are the approved cards and that a dispatcher drives the entry of
  the envelope it was given; then every write is of an approved card (`LandsGranted`),
  and a step of the owner is a decision, a step of the gateway one write or none;
* `RejectedNeverWritten`, under the same hypothesis: nothing of a rejected card has
  reached the vendor or is on its way, before and after its entry is closed;
* `DrivenNeverStale`: `NoStaleOverwrite` of the composition, under `Sequential`.

`ApprovalCardProofs` proves, for any number of commands, workflow runs, retries and
crashes:

* `DecidedIsFrozen == Spec => TerminalIsFrozen`, from the lemma `CardMoves`: every step
  either keeps the card or passes the compare-and-set of an undecided one;
* `TypeCorrect == Spec => []TypeOK`, with `Placed` (what an actor has read and decided
  at each of its awaits);
* `OneDispatch == Spec => []DispatchedOnce`.  The invariant adds `Counted`: as many
  approvals were applied as the status the card has now says.  It is what keeps a
  second approval from being applied; and a change of an undecided card finds nobody
  at a dispatch, so the actor that makes it is alone there.

`KnowledgeWriterProofs` proves, for every value of the constants allowed by
`WriterAssumption` (any vault, plans, edits and bounds):

* `TypeCorrect == Spec => []TypeOK`, with `Planned` (a call under way has a plan);
* `RecordsStayInOrder == Spec => []RecordsInOrder`, any number of overlapping calls
  and every fault.  `RecordInv` adds that a call at its `record` has its audit row
  and a call at its `settle` its revision;
* `EditsAreKept == Spec => []EditsKept`, for any number of overlapping calls and with
  nothing assumed of the owner, of reads or of faults.  `KeepInv` says that what a call
  has read of a readable note, will write to it and would restore has every edit in it
  that is not made under its hands; the step from what it has read to what it will write
  is the ownership check.  `ReadsOf` is the one fact about reads: a note that can be
  read is read as it is, whatever the others look like;
* `EvidenceStaysTruthful`, under `Alone` (one call at a time).  `EvidenceInv` says where
  each readable note is between the snapshot and the target at each await, and that a
  rollback brings back every plan that had been recorded;
* `FailuresRestore`, with the further assumption that a restore does not fail
  (`rollback` swallows such a fault, atomic-write.ts:173-175).  `FailureInv` relates
  the base to the vault up to the first rename and to the notes already restored.

These two assumptions are stated in the theorems and are not properties of the code:
nothing there stops two calls from overlapping.  Of notes that cannot be read none of
the three speaks, and none could: see `unreadable_notes`.

`GBrainSyncProofs` proves, for any number of activities, revisions, edits, faults and
restarts (`SyncAssumption`):

* `SyncTyped`, `OnlyCommittedIsIndexed == SyncSpec => []IndexHoldsCommitted` and
  `IndexedRowsAreTruthful == SyncSpec => []IndexedIsTruthful`.  The invariant adds
  `Known` (only committed revisions are queued, listed or worked on) and `Witnessed`
  (what an entry under way has seen before it is closed: at `persist` its application,
  at `supersede` one of a later entry), because the row is written awaits after the
  check that justified it.  `HighWaterWitness` follows the chain of superseded rows to
  an application;
* of `GBrainServing`, with the stray writer, the owner and commits between any two of
  its awaits: `ServingTyped == Spec => []TypeOK`, `ShownIsSigned` and
  `ShownIsReconciled`.  The type is inductive only with `Serving` (a pass has an id left
  when it needs one; head and files of an answer come from real revisions), and the
  gate with `GateInv`: it is open only while a clean and complete report of the
  revision read is on record, and what is shown went through it.  Reports are bounded
  by `MaxId` and never taken back.

`ConnectorSyncProofs`, for any pages, records, passes and faults:

* `SourcesTyped`, `AppliedRunsAreWritten`, `OwnEndsAreReported` (with `RunInv`: a run
  that derives its page or has come to its external actions has its note) and
  `CursorsStayBehind` (with `PassInv`: a pass has taken every page behind its own
  cursor and what it has handed over of its page; so two passes that overlap, one of
  them with an older cursor, leave no gap).

`WorkerOwnershipProofs`, for any number of processes, launches and faults:

* `OwnershipTyped`, `OneStandingWorker` (`Orderly` relates exits not heard, the timer
  and the child), `LockNamesItsHolder == Spec => []LockIsOwn` and
  `OneWriterButForTwoCases == Spec => []OneWriter`, all with launches that overlap as
  they like.  `Named` says what a process at each step of the lock has done to the file,
  and who a file that is there names; the one way to lose it is the removal of a file
  read as stale, which is what `robbed` records.  Two workers past the fence with a
  commit are then excluded but for one that is closing (it has given the lock back) and
  one that was robbed: these are the two cases the code leaves open, as said above, and
  the theorem shows that there is no third.

`OperationalStoreProofs`, for any builds, retention, cadence and bounds:

* `StoreTyped` and `MarkersAreEarned` (`Marked`: past the migration the file holds the
  build's schema), `KeptBackupsAreWhole` (`Kept`: a run is newer than every record, its
  bytes come before its record, what the pruning has still to remove lies beyond the
  retention; the lemmas `RetiredGrows` and `RetiredStays` say that a backup with enough
  newer ones keeps them when records come and when others beyond the retention go), and
  `BackupsCoverTheirDate` (`Dated`: nothing is dated in the future, and what a run
  captured is every row before its instant).

`WorkspacePostureProofs`, for any workspaces, requests, links and routes:

* `PostureTyped`, `RevokesAreKept`, `ShutMeansNoPrompt`, `RegisteredHavePosture` and,
  of the step, `RevokedLinksStay`.  The lemmas `RowsKept` and `LinksKept` say what no
  step undoes: a row stays, with its type, and an acknowledgement that is off stays
  off; a link stays, with what it grants.  `Known` says of each request how what it
  holds relates to the row or link as it is now: a revoke will write back the type the
  row has (`HeldTypeIsCurrent`), so the row's data owner cannot move under it; what was
  read of the registry has rows (`ReadIdsHaveRows`); a question asked at a shut door
  holds a shut posture (`ShutIsKept`).

Only model-checked: all liveness (`ApprovedIsSettled`, `HeldIsSettled`, `AllSettles`,
`OwnershipSettles`, `DueIsTaken`): temporal proofs under fairness are out of the
prover's reach.  Every invariant and every action property that a run checks is
stated by a theorem.  Some theorems say more than the run: `CursorsStayBehind` holds
with overlapping passes, `OneObjectEach` and `OneStandingWorker` for any number of
processes.  Some need a hypothesis, and a run with it is among those above; each is
named in its theorem and explained here.

## 5. Plan

Done: `ToolGateway`, `ApprovalCard`, `ExternalWrites` over `WriteIntent`,
`KnowledgeWriter`, `GBrainSync`, `GBrainServing`, `SourceIngestion` with
`ConnectorSync`, `WorkerOwnership`, `OperationalStore`, `WorkspacePosture`.  Left, in this order:

1. Proofs: weaker hypotheses (`SequentialNeverStale` with crashes between the intent
   and the write; `EvidenceStaysTruthful` with calls over disjoint paths), and the
   safety parts the liveness properties rest on.
2. `KnowledgeWriter`: the tombstone writer, plans that share a region, an owner who
   deletes.
3. `ExternalWrites`: a second workspace and `listDue`'s limit (starvation), a
   store of the outbox and the cards that fails.
4. Temporal supervision: the server as a child of the worker host, the first connect
   and the reconnect (see the deviations above), with the drains as its effects.
5. The other decision tables of `packages/policy` and the broker's admission as
   operators, against reference definitions.
6. `WorkflowRuntime` and `InstanceLease`, when production code calls them.

## 6. Not modelled

* No caller in production: the instance lease, restore, the deletion saga, the event
  stream's producers; schedules and their catch-up are off by default.
* Pure functions and schemas: contracts, keys, redaction, frontmatter, link healing,
  the visibility gate, policy tables, the notebook's slot plan.  They have no state
  that steps could disturb; their few decisions that matter to the models (fault codes,
  approval verdicts, routes, rejections) appear as the choices of an action.
* Input and output: prompts, HTTP, the Keychain, vendors' adapters, the Temporal
  server itself (its promises, durable runs and retries of activities, are modelled).
* The user interface, evaluation harnesses, observability and wiring code.
