---------------------------- MODULE ToolGateway ----------------------------
(***************************************************************************)
(* The Tool Gateway: dispatchExternalWrite and the stores it drives, the   *)
(* only path by which the assistant writes to an external system.          *)
(*                                                                         *)
(* A dispatch is a sequence of awaits, and several dispatches run at once  *)
(* (a workflow activity, the outbox drain, an owner's click, a second      *)
(* worker process), so every await is a step of its own here.  Envelopes   *)
(* stand for admitted ExternalWriteEnvelopes: an envelope IS its           *)
(* idempotencyKey, ObjectOf gives its (targetSystem, canonicalObjectKey)   *)
(* and PayloadOf its payloadHash.  The vendor is outside the repository.   *)
(***************************************************************************)
EXTENDS Naturals, Sequences, FiniteSets

CONSTANTS
  Dispatchers,      \* concurrent calls of dispatchExternalWrite
  Envelopes,        \* admitted envelopes
  Objects,          \* external object identities
  Payloads,         \* payload hashes
  ObjectOf,         \* Envelopes -> Objects
  PayloadOf,        \* Envelopes -> Payloads
  NeedsApproval,    \* envelopes whose action requires the owner's approval
  Preexisting,      \* objects somebody else may have created at the vendor
  ClientIds,        \* TRUE iff the vendor refuses a second create of an id
  Ambiguous,        \* TRUE iff a faulted call may still have been applied
  StoreFaults,      \* TRUE iff the operational store may fail to answer
  MaxTime,          \* bound on the clock
  MaxObjects,       \* bound on the vendor objects of one identity
  MaxCrashes        \* bound on the number of worker crashes

Foreign == "foreign"        \* content written by somebody else

ASSUME GatewayAssumption ==
  /\ ObjectOf \in [Envelopes -> Objects]
  /\ PayloadOf \in [Envelopes -> Payloads]
  /\ NeedsApproval \subseteq Envelopes
  /\ Preexisting \subseteq Objects /\ Foreign \notin Envelopes
  /\ {ClientIds, Ambiguous, StoreFaults} \subseteq BOOLEAN
  /\ {MaxTime, MaxObjects, MaxCrashes} \subseteq Nat

VARIABLES
  pc,          \* the await each dispatcher is at
  env,         \* the envelope it dispatches
  intentAt,    \* opts.intentCreatedAt, or Fresh
  seen,        \* the receipt record its lookup returned, or NoRow
  outcome,     \* the status it returns (or will return)
  row,         \* write_receipts: one row per object
  ledger,      \* write_applications: the idempotency keys applied
  approved,    \* envelopes the owner has approved
  pending,     \* envelopes recorded as waiting for approval
  vendor,      \* the vendor's objects carrying each identity, oldest first
  late,        \* create requests still on the wire after the caller gave up
  landed,      \* (history) envelopes whose content reached the vendor
  lost,        \* (history) objects with a create whose answer was lost
  now, crashes

local    == <<pc, env, intentAt, seen, outcome>>
store    == <<row, ledger>>
outside  == <<vendor, late, landed, lost>>
consent  == <<approved, pending>>
counters == <<now, crashes>>
vars     == <<local, store, outside, consent, counters>>

Fresh    == MaxTime + 1      \* no intentCreatedAt: no row is newer
NoRow    == [kind |-> "none"]
Reserved == [kind |-> "reserved"]
NoEnv    == "no envelope"

Time == 0..MaxTime

\* (mutant) The row is committed with no idempotency key on it.
CommittedBare(e, t) == [kind |-> "committed", key |-> "", at |-> t]

\* A committed write_receipts row: the envelope it carries, and recordedAt.
Committed(e, t) == [kind |-> "committed", key |-> e, at |-> t]
CommittedRows   == [kind: {"committed"}, key: Envelopes, at: Time]
Rows            == {NoRow, Reserved} \cup CommittedRows
IsCommitted(r)  == r.kind = "committed"

\* One vendor object: whose payload it carries, and when that landed.
VendorObjects == [content: Envelopes \cup {Foreign}, at: Time]

\* AdapterError["code"], and the status each code is given on every fault arm.
FaultCodes == {"unreachable", "conflict", "rejected", "unknown", "not_found"}
Disposition(code) ==
  CASE code = "unreachable" -> "held"
    [] code = "conflict"    -> "conflict"
    [] OTHER                -> "rejected"

Statuses == {"created", "updated", "superseded", "reused", "approval_pending",
             "conflict", "held", "rejected"}
Steps == {"idle", "approval", "credential", "ledgerLookup", "keyLookup",
          "objectLookup", "author", "update", "probe", "adopt", "reserve",
          "create", "release", "recordLedger", "putRow", "done"}

Init ==
  /\ pc = [d \in Dispatchers |-> "idle"]
  /\ env = [d \in Dispatchers |-> NoEnv]
  /\ intentAt = [d \in Dispatchers |-> Fresh]
  /\ seen = [d \in Dispatchers |-> NoRow]
  /\ outcome = [d \in Dispatchers |-> "none"]
  /\ row = [o \in Objects |-> NoRow]
  /\ ledger = {} /\ approved = {} /\ pending = {}
  /\ vendor \in [Objects -> {<<>>, <<[content |-> Foreign, at |-> 0]>>}]
  /\ \A o \in Objects \ Preexisting : vendor[o] = <<>>
  /\ late = {} /\ landed = {} /\ lost = {}
  /\ now = 0 /\ crashes = 0

Obj(d) == ObjectOf[env[d]]

\* Go to the next await.
Goto(d, to) == pc' = [pc EXCEPT ![d] = to]

\* Return a status.
Return(d, status) ==
  /\ Goto(d, "done")
  /\ outcome' = [outcome EXCEPT ![d] = status]

-----------------------------------------------------------------------------
(* The caller. *)

\* dispatchExternalWrite is called; `at' is the age a re-drive gives its intent.
Start(d, e, at) ==
  /\ pc[d] = "idle"
  /\ Goto(d, "approval")
  /\ env' = [env EXCEPT ![d] = e]
  /\ intentAt' = [intentAt EXCEPT ![d] = at]
  /\ UNCHANGED <<seen, outcome, store, outside, consent, counters>>

\* The caller consumes the result.
Collect(d) ==
  /\ pc[d] = "done"
  /\ Goto(d, "idle")
  /\ env' = [env EXCEPT ![d] = NoEnv]
  /\ intentAt' = [intentAt EXCEPT ![d] = Fresh]
  /\ seen' = [seen EXCEPT ![d] = NoRow]
  /\ outcome' = [outcome EXCEPT ![d] = "none"]
  /\ UNCHANGED <<store, outside, consent, counters>>

\* The owner approves an envelope that is waiting.
Approve(e) ==
  /\ e \in pending \ approved
  /\ approved' = approved \cup {e}
  /\ UNCHANGED <<local, store, outside, pending, counters>>

Tick ==
  /\ now < MaxTime
  /\ now' = now + 1
  /\ UNCHANGED <<local, store, outside, consent, crashes>>

\* The worker process dies: what was only in memory is gone, rows stay.
Crash ==
  /\ crashes < MaxCrashes
  /\ \E d \in Dispatchers : pc[d] # "idle"
  /\ pc' = [d \in Dispatchers |-> "idle"]
  /\ env' = [d \in Dispatchers |-> NoEnv]
  /\ intentAt' = [d \in Dispatchers |-> Fresh]
  /\ seen' = [d \in Dispatchers |-> NoRow]
  /\ outcome' = [d \in Dispatchers |-> "none"]
  /\ crashes' = crashes + 1
  /\ UNCHANGED <<store, outside, consent, now>>

-----------------------------------------------------------------------------
(* Steps 2 and 2.5: approval and credential, before any vendor call. *)

\* (mutant) The approval policy is not consulted.
CheckNothing(d) ==
  /\ pc[d] = "approval"
  /\ Goto(d, "credential")
  /\ UNCHANGED <<env, intentAt, seen, outcome, store, outside, consent, counters>>

CheckApproval(d) ==
  /\ pc[d] = "approval"
  /\ \/ /\ env[d] \in NeedsApproval \ approved
        /\ Return(d, "approval_pending")
        /\ pending' = pending \cup {env[d]}
     \/ /\ env[d] \notin NeedsApproval \ approved
        /\ Goto(d, "credential")
        /\ UNCHANGED <<outcome, pending>>
  /\ UNCHANGED <<env, intentAt, seen, store, outside, approved, counters>>

\* A locked keychain is retryable; a missing, denied or empty secret is not.
ResolveCredential(d) ==
  /\ pc[d] = "credential"
  /\ \/ Goto(d, "ledgerLookup") /\ UNCHANGED outcome
     \/ \E status \in {"held", "rejected"} : Return(d, status)
  /\ UNCHANGED <<env, intentAt, seen, store, outside, consent, counters>>

-----------------------------------------------------------------------------
(* Step 3: resolveExisting. *)

\* A lookup the store could not answer is a hold, never a miss.
LookupFault(d) == StoreFaults /\ Return(d, "held")

LookupLedger(d) ==
  /\ pc[d] = "ledgerLookup"
  /\ \/ env[d] \in ledger /\ Return(d, "reused")
     \/ env[d] \notin ledger /\ Goto(d, "keyLookup") /\ UNCHANGED outcome
     \/ LookupFault(d)
  /\ UNCHANGED <<env, intentAt, seen, store, outside, consent, counters>>

\* idempotencyKey determines the object, so only that object's row can carry it.
LookupKey(d) ==
  LET carried == IsCommitted(row[Obj(d)]) /\ row[Obj(d)].key = env[d] IN
  /\ pc[d] = "keyLookup"
  /\ \/ carried /\ Return(d, "reused")
     \/ ~carried /\ Goto(d, "objectLookup") /\ UNCHANGED outcome
     \/ LookupFault(d)
  /\ UNCHANGED <<env, intentAt, seen, store, outside, consent, counters>>

\* (mutant) The ordering guard is dropped.
LookupObjectUnordered(d) ==
  LET r == row[Obj(d)] IN
  /\ pc[d] = "objectLookup"
  /\ \/ /\ IsCommitted(r) /\ PayloadOf[r.key] = PayloadOf[env[d]]
        /\ Return(d, "reused") /\ UNCHANGED seen
     \/ /\ IsCommitted(r) /\ PayloadOf[r.key] # PayloadOf[env[d]]
        /\ Goto(d, "author")
        /\ seen' = [seen EXCEPT ![d] = r]
        /\ UNCHANGED outcome
     \/ ~IsCommitted(r) /\ Goto(d, "probe") /\ UNCHANGED <<seen, outcome>>
  /\ UNCHANGED <<env, intentAt, store, outside, consent, counters>>

\* The row is read here and acted on several awaits later.
LookupObject(d) ==
  LET r     == row[Obj(d)]
      same  == PayloadOf[r.key] = PayloadOf[env[d]]
      stale == r.at > intentAt[d]
  IN
  /\ pc[d] = "objectLookup"
  /\ \/ /\ IsCommitted(r)
        /\ \/ same /\ Return(d, "reused") /\ UNCHANGED seen
           \/ ~same /\ stale /\ Return(d, "superseded") /\ UNCHANGED seen
           \/ /\ ~same /\ ~stale
              /\ Goto(d, "author")
              /\ seen' = [seen EXCEPT ![d] = r]
              /\ UNCHANGED outcome
     \/ ~IsCommitted(r) /\ Goto(d, "probe") /\ UNCHANGED <<seen, outcome>>
     \/ LookupFault(d) /\ UNCHANGED seen
  /\ UNCHANGED <<env, intentAt, store, outside, consent, counters>>

\* isAuthoredByThisSystem: the key on the row must be in the ledger.
CheckAuthor(d) ==
  /\ pc[d] = "author"
  /\ \/ seen[d].key \in ledger /\ Goto(d, "update") /\ UNCHANGED outcome
     \/ seen[d].key \notin ledger /\ Return(d, "rejected")
     \/ StoreFaults /\ Return(d, "rejected")
  /\ UNCHANGED <<env, intentAt, seen, store, outside, consent, counters>>

\* The live existence check at the vendor.
Probe(d) ==
  /\ pc[d] = "probe"
  /\ \/ vendor[Obj(d)] # <<>> /\ Goto(d, "adopt") /\ UNCHANGED outcome
     \/ vendor[Obj(d)] = <<>> /\ Goto(d, "reserve") /\ UNCHANGED outcome
     \/ \E code \in FaultCodes : Return(d, Disposition(code))
  /\ UNCHANGED <<env, intentAt, seen, store, outside, consent, counters>>

\* A write to the store whose failure the adapter does not report.
Written(written) == written \/ (StoreFaults /\ UNCHANGED store)

\* (mutant) An adoption is recorded with recordReceipt, ledger and all.
AdoptAsReceipt(d) ==
  /\ pc[d] = "adopt"
  /\ Goto(d, "recordLedger")
  /\ outcome' = [outcome EXCEPT ![d] = "reused"]
  /\ UNCHANGED <<env, intentAt, seen, store, outside, consent, counters>>

\* recordAdoptedObject: the object row only, under THIS envelope's key.
Adopt(d) ==
  /\ pc[d] = "adopt"
  /\ Return(d, "reused")
  /\ Written(/\ row' = [row EXCEPT ![Obj(d)] = Committed(env[d], now)]
             /\ UNCHANGED ledger)
  /\ UNCHANGED <<env, intentAt, seen, outside, consent, counters>>

-----------------------------------------------------------------------------
(* The update of an object this system wrote. *)

Land(e) ==
  /\ landed' = landed \cup {e}
  /\ UNCHANGED <<late, lost>>

Update(d) ==
  LET o     == Obj(d)
      lands == /\ vendor[o] # <<>>
               /\ vendor' = [vendor EXCEPT ![o][1] = [content |-> env[d], at |-> now]]
               /\ Land(env[d])
  IN
  /\ pc[d] = "update"
  /\ \/ /\ lands
        /\ Goto(d, "recordLedger")
        /\ outcome' = [outcome EXCEPT ![d] = "updated"]
     \/ \E code \in FaultCodes :
          /\ Return(d, Disposition(code))
          /\ UNCHANGED outside \/ (Ambiguous /\ code \in {"unreachable", "unknown"} /\ lands)
  /\ UNCHANGED <<env, intentAt, seen, store, consent, counters>>

-----------------------------------------------------------------------------
(* Steps 3.5 to 5: the reservation and the create. *)

\* (mutant) A placeholder is no obstacle to the create.
ReserveAnyway(d) ==
  /\ pc[d] = "reserve"
  /\ \/ /\ ~IsCommitted(row[Obj(d)])
        /\ Goto(d, "create")
        /\ row' = [row EXCEPT ![Obj(d)] = Reserved]
        /\ UNCHANGED outcome
     \/ IsCommitted(row[Obj(d)]) /\ Return(d, "reused") /\ UNCHANGED row
  /\ UNCHANGED <<env, intentAt, seen, ledger, outside, consent, counters>>

\* (mutant) A placeholder is taken for a committed row.
ReserveReusesPlaceholder(d) ==
  /\ pc[d] = "reserve"
  /\ \/ /\ row[Obj(d)] = NoRow
        /\ Goto(d, "create")
        /\ row' = [row EXCEPT ![Obj(d)] = Reserved]
        /\ UNCHANGED outcome
     \/ row[Obj(d)] # NoRow /\ Return(d, "reused") /\ UNCHANGED row
  /\ UNCHANGED <<env, intentAt, seen, ledger, outside, consent, counters>>

\* reserve: INSERT ... ON CONFLICT DO NOTHING, classified by decideReserve.
Reserve(d) ==
  LET r == row[Obj(d)] IN
  /\ pc[d] = "reserve"
  /\ \/ /\ r = NoRow
        /\ Goto(d, "create")
        /\ row' = [row EXCEPT ![Obj(d)] = Reserved]
        /\ UNCHANGED outcome
     \/ IsCommitted(r) /\ Return(d, "reused") /\ UNCHANGED row
     \/ r = Reserved /\ Return(d, "held") /\ UNCHANGED row
     \/ StoreFaults /\ Return(d, "held") /\ UNCHANGED row
  /\ UNCHANGED <<env, intentAt, seen, ledger, outside, consent, counters>>

\* The vendor applies a create, unless it knows the id and refuses it.
VendorCreates(e) ==
  LET o == ObjectOf[e] IN
  /\ ~(ClientIds /\ vendor[o] # <<>>) /\ Len(vendor[o]) < MaxObjects
  /\ vendor' = [vendor EXCEPT ![o] = Append(@, [content |-> e, at |-> now])]
  /\ landed' = landed \cup {e}

\* An answer is lost (or unreadable) after the vendor applied the create, or
\* before: then the request may still be on the wire.
Create(d) ==
  /\ pc[d] = "create"
  /\ \/ /\ VendorCreates(env[d]) /\ UNCHANGED <<late, lost>>
        /\ Goto(d, "recordLedger")
        /\ outcome' = [outcome EXCEPT ![d] = "created"]
     \/ \E code \in FaultCodes :
          /\ Goto(d, "release")
          /\ outcome' = [outcome EXCEPT ![d] = Disposition(code)]
          /\ \/ UNCHANGED outside
             \/ /\ Ambiguous /\ lost' = lost \cup {Obj(d)}
                /\ \/ /\ code \in {"unreachable", "unknown"}
                      /\ VendorCreates(env[d]) /\ UNCHANGED late
                   \/ /\ code = "unreachable"
                      /\ late' = late \cup {env[d]} /\ UNCHANGED <<vendor, landed>>
  /\ UNCHANGED <<env, intentAt, seen, store, consent, counters>>

\* A create the caller gave up on reaches the vendor.
LateArrival(e) ==
  /\ e \in late
  /\ late' = late \ {e}
  /\ \/ VendorCreates(e)
     \/ ClientIds /\ vendor[ObjectOf[e]] # <<>> /\ UNCHANGED <<vendor, landed>>
  /\ UNCHANGED <<lost, local, store, consent, counters>>

\* release deletes the row only while it is still a placeholder.
Release(d) ==
  /\ pc[d] = "release"
  /\ Goto(d, "done")
  /\ Written(/\ row' = [row EXCEPT ![Obj(d)] = IF @ = Reserved THEN NoRow ELSE @]
             /\ UNCHANGED ledger)
  /\ UNCHANGED <<env, intentAt, seen, outcome, outside, consent, counters>>

\* recordReceipt: the ledger first, then the object row, in two transactions.
RecordLedger(d) ==
  /\ pc[d] = "recordLedger"
  /\ Goto(d, "putRow")
  /\ Written(ledger' = ledger \cup {env[d]} /\ UNCHANGED row)
  /\ UNCHANGED <<env, intentAt, seen, outcome, outside, consent, counters>>

PutRow(d) ==
  /\ pc[d] = "putRow"
  /\ Goto(d, "done")
  /\ Written(/\ row' = [row EXCEPT ![Obj(d)] = Committed(env[d], now)]
             /\ UNCHANGED ledger)
  /\ UNCHANGED <<env, intentAt, seen, outcome, outside, consent, counters>>

-----------------------------------------------------------------------------
Dispatch(d) ==
  \/ CheckApproval(d) \/ ResolveCredential(d) \/ LookupLedger(d) \/ LookupKey(d)
  \/ LookupObject(d) \/ CheckAuthor(d) \/ Update(d) \/ Probe(d) \/ Adopt(d)
  \/ Reserve(d) \/ Create(d) \/ Release(d) \/ RecordLedger(d) \/ PutRow(d)

Next ==
  \/ \E d \in Dispatchers :
       \/ Dispatch(d)
       \/ Collect(d)
       \/ \E e \in Envelopes, at \in {Fresh} \cup 0..now : Start(d, e, at)
  \/ \E e \in Envelopes : Approve(e) \/ LateArrival(e)
  \/ Tick \/ Crash

Spec == Init /\ [][Next]_vars

-----------------------------------------------------------------------------
TypeOK ==
  /\ pc \in [Dispatchers -> Steps]
  /\ env \in [Dispatchers -> Envelopes \cup {NoEnv}]
  /\ intentAt \in [Dispatchers -> {Fresh} \cup Time]
  /\ seen \in [Dispatchers -> {NoRow} \cup CommittedRows]
  /\ outcome \in [Dispatchers -> Statuses \cup {"none"}]
  /\ row \in [Objects -> Rows]
  /\ ledger \subseteq Envelopes /\ landed \subseteq Envelopes /\ late \subseteq Envelopes
  /\ lost \subseteq Objects
  /\ approved \subseteq Envelopes /\ pending \subseteq Envelopes
  /\ vendor \in [Objects -> Seq(VendorObjects)]
  /\ now \in Time /\ crashes \in 0..MaxCrashes

\* From the reservation to the end of the create path.
Creating(d) ==
  pc[d] \in {"create", "release"}
    \/ (pc[d] \in {"recordLedger", "putRow"} /\ outcome[d] = "created")

\* Two dispatches are never past the reservation of one object at once:
\* "only the WINNER may create" (gateway.ts step 3.5).
OneCreator ==
  \A d1, d2 \in Dispatchers :
    Creating(d1) /\ Creating(d2) /\ Obj(d1) = Obj(d2) => d1 = d2

\* However dispatches, crashes, swallowed store faults, stale existence probes and
\* late requests interleave, one identity gets one vendor object, unless the vendor
\* does not know the id and an answer to one of its creates was lost: the fault
\* gives the reservation back (gateway.ts step 5), and a retry may create again.
NoDuplicateObject ==
  \A o \in Objects : Len(vendor[o]) <= 1 \/ (o \in lost /\ ~ClientIds)

\* "The ledger's single meaning is `this envelope reached the vendor'".
LedgerIsTruthful == ledger \subseteq landed

\* An object somebody else created is never overwritten, nor doubled: adoption
\* writes a row with our key and hash on it, and the authorship check must still see
\* through it in every order of adoptions, dispatches and crashes.
Strange(o) == vendor[o] # <<>> /\ vendor[o][1].content = Foreign
ForeignUntouched == [][\A o \in Objects : Strange(o) => vendor'[o] = vendor[o]]_vars

\* No vendor write is made for an envelope whose approval is missing.
ApprovalFirst == \A e \in landed \cup late : e \in NeedsApproval => e \in approved

\* A success is never made up: a reported create or update really reached the
\* vendor, and a reuse really has an object there to be reused, whatever was
\* placeholder, stale or lost on the way.
SuccessIsReal ==
  \A d \in Dispatchers :
    pc[d] = "done" =>
      /\ outcome[d] \in {"created", "updated"} => env[d] \in landed
      /\ outcome[d] = "reused" => vendor[Obj(d)] # <<>>

\* "This closes the SEQUENTIAL case": with one dispatcher and no lost answer, and
\* until a crash, a re-driven update never replaces content that landed after its
\* intent was created.
NoStaleOverwrite ==
  [][\A d \in Dispatchers :
       crashes = 0 /\ pc[d] = "update" /\ pc'[d] # "update" /\ vendor' # vendor
         => vendor[Obj(d)][1].at <= intentAt[d]]_vars
=============================================================================
