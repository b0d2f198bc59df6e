--------------------------- MODULE SourceIngestion ---------------------------
(***************************************************************************)
(* How a dropped file becomes a note.  The vault watcher captures the file *)
(* and starts a Temporal run named after the hash of its contents; the run *)
(* registers, routes and processes the source, commits the note and what   *)
(* else it derives, and reports the ends it comes to that are not a note.  *)
(*                                                                         *)
(* Runs are durable and an activity whose answer is lost is tried again,   *)
(* five times in all: then the run breaks off where it is.  Timers,        *)
(* captures and half-done activities die with the worker.                  *)
(***************************************************************************)
EXTENDS FiniteSets, Integers

CONSTANTS
  Files, Records, \* the sources: files of the vault, records of a connector
  NoSource,
  Contents,    \* contents of sources; the hash of one is the id of its run
  MaxEdits,    \* bound on the owner's edits
  MaxFaults,   \* bound on faults, lost answers, broken runs and crashes
  MaxExpiries  \* bound on runs the Temporal server forgets

Sources == Files \cup Records

ASSUME IngestionAssumption ==
  /\ Files \cap Records = {} /\ NoSource \notin Sources
  /\ MaxEdits \in Nat /\ MaxFaults \in Nat /\ MaxExpiries \in Nat

VARIABLES
  disk,      \* what each file holds
  timer,     \* files whose debounce timer is running
  pc,        \* the activity the run of each content is at
  src,       \* the source it was started for
  plan,      \* the plan it is committing: its note, or a page derived from it
  base,      \* the vault as the commit under way read it
  snapshot,  \* the Ingestion Inbox as the park under way read it
  end,       \* the state the run came to rest in
  seen,      \* the durable set of content hashes registered
  inbox,     \* the Ingestion Inbox read model
  notes,     \* what is written: the source, its contents, the plan
  health,    \* contents whose run has a System Health item
  unheard,   \* those whose report the health store refused
  started,   \* history: contents a run was started for
  edits, faults, expiries

run    == <<src, plan, base, snapshot, end>>
stores == <<seen, inbox, health, unheard>>
runVars == <<disk, timer, pc, run, stores, notes, started, edits, faults, expiries>>

Steps == {"none", "register", "route", "park", "process", "base", "apply",
          "propose", "surface", "done"}
\* "failed": rejected, failed_retryable or failed_terminal, which differ in the
\* class of the health item and in nothing that is done afterwards.  "broken" is
\* the failure of the run itself.
Ends  == {"none", "applied", "dedupe_hit", "queued_for_review", "failed", "broken"}
Vault == <<disk, notes>>
NoVault == <<>>
Note(c) == <<src[c], c, plan[c]>>

IngestionTypeOK ==
  /\ disk \in [Files -> Contents]
  /\ timer \subseteq Files
  /\ pc \in [Contents -> Steps] /\ src \in [Contents -> Sources \cup {NoSource}]
  /\ plan \in [Contents -> {"note", "page"}] /\ end \in [Contents -> Ends]
  /\ DOMAIN base = Contents /\ snapshot \in [Contents -> SUBSET Sources]
  /\ seen \subseteq started /\ started \subseteq Contents /\ inbox \subseteq Sources
  /\ notes \subseteq Sources \X Contents \X {"note", "page"}
  /\ health \subseteq Contents /\ unheard \subseteq Contents
  /\ edits \in 0..MaxEdits /\ faults \in 0..MaxFaults /\ expiries \in 0..MaxExpiries
  /\ \A c \in Contents : /\ c \in started \/ pc[c] = "none"
                         /\ pc[c] = "none" <=> src[c] = NoSource
                         /\ pc[c] \in {"surface", "done"} <=> end[c] # "none"
                         /\ pc[c] = "apply" <=> base[c] # NoVault

IngestionInit ==
  /\ disk \in [Files -> Contents]
  /\ timer = {}
  /\ pc = [c \in Contents |-> "none"] /\ src = [c \in Contents |-> NoSource]
  /\ plan = [c \in Contents |-> "note"] /\ base = [c \in Contents |-> NoVault]
  /\ snapshot = [c \in Contents |-> {}] /\ end = [c \in Contents |-> "none"]
  /\ seen = {} /\ inbox = {} /\ notes = {} /\ health = {} /\ unheard = {} /\ started = {}
  /\ edits = 0 /\ faults = 0 /\ expiries = 0

Fault == faults < MaxFaults /\ faults' = faults + 1

-----------------------------------------------------------------------------
(* The watcher and the dispatch *)

\* The id is refused while a run of these contents exists, open or closed.
Start(c, s) ==
  /\ IF pc[c] = "none"
     THEN /\ pc' = [pc EXCEPT ![c] = "register"] /\ src' = [src EXCEPT ![c] = s]
          /\ started' = started \cup {c}
     ELSE UNCHANGED <<pc, src, started>>
  /\ UNCHANGED <<plan, base, snapshot, end>>

\* The dispatch of a source: started, or refused, or started and the answer
\* lost (the health item of a failed dispatch is left out).
Dispatched(c, s) == Start(c, s) /\ UNCHANGED faults
DispatchFails(c, s) == Fault /\ (Start(c, s) \/ UNCHANGED <<pc, run, started>>)

\* The owner saves a file; the worker may be down and miss it.
Edit(f, x) ==
  /\ edits < MaxEdits /\ disk[f] # x
  /\ edits' = edits + 1 /\ disk' = [disk EXCEPT ![f] = x]
  /\ \/ timer' = timer \cup {f} /\ UNCHANGED faults
     \/ Fault /\ UNCHANGED timer
  /\ UNCHANGED <<pc, run, stores, notes, started, expiries>>

\* The file is read when its timer fires, not when it was saved, and a run is
\* started for what was read; a capture that fails is not tried again.
Capture(f) ==
  /\ f \in timer /\ timer' = timer \ {f}
  /\ Dispatched(disk[f], f) \/ DispatchFails(disk[f], f)
  /\ UNCHANGED <<disk, stores, notes, edits, expiries>>

-----------------------------------------------------------------------------
(* The activities of a run *)

Goto(c, step) == pc' = [pc EXCEPT ![c] = step]
EndAs(c, e) == Goto(c, "surface") /\ end' = [end EXCEPT ![c] = e]

\* (mutant) A source that was seen is asked about again.
RegisterAgain(c) ==
  /\ pc[c] = "register" /\ c \notin seen /\ seen' = seen \cup {c}
  /\ \/ Goto(c, "route") /\ UNCHANGED faults
     \/ Fault /\ UNCHANGED pc
  /\ UNCHANGED <<disk, timer, run, inbox, health, unheard, notes, started, edits, expiries>>

\* The hash is recorded by the same call that looks it up; a fault of the store
\* counts as not seen, and a call whose answer is lost is made again.
Register(c) ==
  /\ pc[c] = "register"
  /\ \/ c \in seen /\ EndAs(c, "dedupe_hit") /\ UNCHANGED <<seen, faults>>
     \/ /\ c \notin seen /\ seen' = seen \cup {c}
        /\ \/ Goto(c, "route") /\ UNCHANGED faults
           \/ Fault /\ UNCHANGED pc
        /\ UNCHANGED end
     \/ Fault /\ Goto(c, "route") /\ UNCHANGED <<seen, end>>
     \/ EndAs(c, "failed") /\ UNCHANGED <<seen, faults>>     \* malformed
  /\ UNCHANGED <<disk, timer, src, plan, base, snapshot, inbox, health, unheard, notes,
                 started, edits, expiries>>

\* A confident route binds the workspace; a low one parks the source; a failed
\* one ends in review without a park.
Route(c) ==
  /\ pc[c] = "route"
  /\ \/ Goto(c, "process") /\ UNCHANGED <<snapshot, end>>
     \/ Goto(c, "park") /\ snapshot' = [snapshot EXCEPT ![c] = inbox] /\ UNCHANGED end
     \/ EndAs(c, "queued_for_review") /\ UNCHANGED snapshot
  /\ UNCHANGED <<disk, timer, src, plan, base, stores, notes, started, edits, faults, expiries>>

\* (mutant) A parked run is not reported.
ParkSilently(c) ==
  /\ pc[c] = "park" /\ Goto(c, "done")
  /\ end' = [end EXCEPT ![c] = "queued_for_review"]
  /\ inbox' = snapshot[c] \cup {src[c]}
  /\ snapshot' = [snapshot EXCEPT ![c] = {}]
  /\ UNCHANGED <<disk, timer, src, plan, base, seen, health, unheard, notes, started, edits,
                 faults, expiries>>

\* The inbox is written as it was read, plus the source; best-effort.
Park(c) ==
  /\ pc[c] = "park" /\ EndAs(c, "queued_for_review")
  /\ \/ inbox' = snapshot[c] \cup {src[c]} /\ UNCHANGED faults
     \/ Fault /\ UNCHANGED inbox
  /\ snapshot' = [snapshot EXCEPT ![c] = {}]
  /\ UNCHANGED <<disk, timer, src, plan, base, seen, health, unheard, notes, started, edits,
                 expiries>>

\* The read-only job, the validation and the derivation of the plans: none of
\* them keeps state, each may end the run.
Process(c) ==
  /\ pc[c] = "process"
  /\ \/ Goto(c, "base") /\ UNCHANGED end
     \/ EndAs(c, "failed")
  /\ UNCHANGED <<disk, timer, src, plan, base, snapshot, stores, notes, started, edits, faults,
                 expiries>>

ReadBase(c) ==
  /\ pc[c] = "base" /\ Goto(c, "apply")
  /\ base' = [base EXCEPT ![c] = Vault]
  /\ UNCHANGED <<disk, timer, src, plan, snapshot, end, stores, notes, started, edits, faults,
                 expiries>>

\* A note that is not committed ends the run; a page that is not does not.  A
\* committed note is followed by the page derived with it, if there is one that
\* needs no approval.
CommitFails(c) ==
  IF plan[c] = "note" THEN EndAs(c, "failed") ELSE Goto(c, "propose") /\ UNCHANGED end

Committed(c) ==
  /\ \/ Goto(c, "propose") /\ UNCHANGED plan
     \/ plan[c] = "note" /\ plan' = [plan EXCEPT ![c] = "page"] /\ Goto(c, "base")
  /\ UNCHANGED end

\* (mutant) The commit reports success whatever the base.
ApplyUnchecked(c) ==
  /\ pc[c] = "apply" /\ base' = [base EXCEPT ![c] = NoVault]
  /\ notes' = IF Note(c) \in notes \/ base[c] # Vault THEN notes ELSE notes \cup {Note(c)}
  /\ Committed(c)
  /\ UNCHANGED <<disk, timer, src, snapshot, stores, started, edits, faults, expiries>>

\* A plan on record is replayed; a vault that has moved is a conflict, and the
\* writer may refuse the plan for reasons of its own.
Apply(c) ==
  /\ pc[c] = "apply" /\ base' = [base EXCEPT ![c] = NoVault]
  /\ \/ Note(c) \in notes /\ Committed(c) /\ UNCHANGED <<notes, faults>>
     \/ /\ Note(c) \notin notes /\ base[c] = Vault
        /\ notes' = notes \cup {Note(c)}
        /\ \/ Committed(c) /\ UNCHANGED faults
           \/ Fault /\ Goto(c, "base") /\ UNCHANGED <<plan, end>>   \* the answer is lost
     \/ Note(c) \notin notes /\ CommitFails(c) /\ UNCHANGED <<plan, notes, faults>>
  /\ UNCHANGED <<disk, timer, src, snapshot, stores, started, edits, expiries>>

\* The external actions: all applied, or one held and the run not finished.
Propose(c) ==
  /\ pc[c] = "propose"
  /\ \/ Goto(c, "done") /\ end' = [end EXCEPT ![c] = "applied"]
     \/ EndAs(c, "failed")
  /\ UNCHANGED <<disk, timer, src, plan, base, snapshot, stores, notes, started, edits, faults,
                 expiries>>

\* The run ignores what the sink answers.
Surface(c) ==
  /\ pc[c] = "surface" /\ Goto(c, "done")
  /\ \/ health' = health \cup {c} /\ UNCHANGED <<unheard, faults>>
     \/ Fault /\ unheard' = unheard \cup {c} /\ UNCHANGED health
  /\ UNCHANGED <<disk, timer, run, seen, inbox, notes, started, edits, expiries>>

\* An activity has failed, or run out of its minute, five times over: nothing in
\* the run catches it, so the run fails there and then.
Exhausted(c) ==
  /\ pc[c] \notin {"none", "done"} /\ Fault
  /\ Goto(c, "done") /\ end' = [end EXCEPT ![c] = "broken"]
  /\ base' = [base EXCEPT ![c] = NoVault] /\ snapshot' = [snapshot EXCEPT ![c] = {}]
  /\ UNCHANGED <<disk, timer, src, plan, stores, notes, started, edits, expiries>>

-----------------------------------------------------------------------------

\* The server's retention is over: the id of a closed run is free again.
Expire(c) ==
  /\ pc[c] = "done" /\ expiries < MaxExpiries
  /\ expiries' = expiries + 1 /\ Goto(c, "none")
  /\ src' = [src EXCEPT ![c] = NoSource] /\ end' = [end EXCEPT ![c] = "none"]
  /\ plan' = [plan EXCEPT ![c] = "note"]
  /\ health' = health \ {c} /\ unheard' = unheard \ {c}
  /\ UNCHANGED <<disk, timer, base, snapshot, seen, inbox, notes, started, edits, faults>>

\* The worker restarts: no file is captured again, an activity that was under
\* way is tried again.
Restarted ==
  /\ timer' = {}
  /\ pc' = [c \in Contents |-> CASE pc[c] = "park"  -> "route"
                                 [] pc[c] = "apply" -> "base"
                                 [] OTHER           -> pc[c]]
  /\ base' = [c \in Contents |-> NoVault] /\ snapshot' = [c \in Contents |-> {}]
  /\ UNCHANGED <<disk, src, plan, end, stores, notes, started, edits, expiries>>

Run(c) ==
  \/ Register(c) \/ Route(c) \/ Park(c) \/ Process(c) \/ ReadBase(c) \/ Apply(c)
  \/ Propose(c) \/ Surface(c)

Watch == \E f \in Files : Capture(f)

IngestionNext ==
  \/ \E f \in Files, x \in Contents : Edit(f, x)
  \/ Watch
  \/ \E c \in Contents : Run(c) \/ Exhausted(c) \/ Expire(c)

-----------------------------------------------------------------------------
(* Properties *)

\* A run that says 'applied' has its note in the vault, and a derived page is
\* never there without the note of its source (runSourceIngestion commits the
\* source note first and its page after, each against a base of its own).
AppliedIsWritten ==
  /\ \A c \in Contents : end[c] = "applied" => <<src[c], c, "note">> \in notes
  /\ \A n \in notes : n[3] = "page" => <<n[1], n[2], "note">> \in notes

\* A run that came to an end of its own other than 'applied' has a System Health
\* item of this run, unless the health store refused the report: every branch of
\* the run ends in the report, whichever activity it was cut off in and tried again.
EndsAreReported ==
  \A c \in Contents : pc[c] = "done" /\ end[c] \notin {"applied", "broken"} =>
    c \in health \cup unheard
=============================================================================
