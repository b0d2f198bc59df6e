-------------------------- MODULE OperationalStore --------------------------
(***************************************************************************)
(* The life of the operational database of one worker: the compatibility   *)
(* gate and the migration at boot, the rows written while it serves, the   *)
(* periodic backup into a directory of artifacts and their retention, and  *)
(* the close that waits for a backup under way.                            *)
(*                                                                         *)
(* An artifact is a file of bytes and a record that describes it, written  *)
(* one after the other; the records alone say when a backup was last taken *)
(* and which ones retention removes.                                       *)
(***************************************************************************)
EXTENDS Naturals, Sequences, FiniteSets

CONSTANTS
  Builds,       \* released versions of the app
  Target,       \* the schema a build migrates to
  MinReadable,  \* the oldest schema a build migrates from
  Keep,         \* backups retained (7)
  Interval,     \* the cadence (24 hours)
  MaxTime,      \* bound: the clock
  MaxWrites,    \* bound: rows written
  MaxFaults,    \* bound: failed steps and crashes
  MaxInstalls   \* bound: builds installed over one another

ASSUME StoreAssumption ==
  /\ Target \in [Builds -> Nat \ {0}] /\ MinReadable \in [Builds -> Nat]
  /\ Keep \in Nat \ {0} /\ Interval \in Nat \ {0}
  /\ MaxTime \in Nat /\ MaxWrites \in Nat /\ MaxFaults \in Nat /\ MaxInstalls \in Nat

VARIABLES
  build,    \* the build installed
  schema,   \* the migrations the file holds: 0 is none
  marker,   \* its user_version
  written,  \* the instant of each row committed
  pc,       \* the worker
  job,      \* the step a backup run is at
  at, snap, \* the instant the run captured at, and the rows it captured
  bytes,    \* artifacts whose .bin is complete
  records,  \* artifacts whose .json is complete
  torn,     \* artifacts whose .json was cut short
  doomed,   \* artifacts the pruning has still to remove
  now, faults, installs

database == <<schema, marker, written>>
directory == <<bytes, records, torn>>
run == <<job, at, snap, doomed>>
bounds == <<now, faults, installs>>
vars == <<build, database, pc, run, directory, bounds>>

Artifact == Nat \X Nat  \* the instant, and the content: rows captured
At(a) == a[1]
Rows(a) == a[2]

Fault == faults < MaxFaults /\ faults' = faults + 1
Current == <<at, snap>>

Init ==
  /\ build \in Builds /\ schema = 0 /\ marker = 0 /\ written = <<>>
  /\ pc = "down" /\ job = "idle" /\ at = 0 /\ snap = 0 /\ doomed = {}
  /\ bytes = {} /\ records = {} /\ torn = {}
  /\ now = 0 /\ faults = 0 /\ installs = 0

-----------------------------------------------------------------------------
(* Boot *)

Install ==
  /\ pc = "down" /\ installs < MaxInstalls /\ installs' = installs + 1
  /\ build' \in Builds \ {build}
  /\ UNCHANGED <<database, pc, run, directory, now, faults>>

\* A fresh file passes; any other must lie within the build's band.
Compatible ==
  \/ marker = 0 /\ schema = 0
  \/ MinReadable[build] <= marker /\ marker <= Target[build]

\* An incompatible file refuses the boot: nothing is opened.
Open ==
  /\ pc = "down" /\ Compatible /\ pc' = "compatible"
  /\ UNCHANGED <<build, database, run, directory, bounds>>

\* (mutant) An apply that failed goes on to the marker.
MigrateGoesOn ==
  /\ pc = "compatible" /\ pc' = "migrated"
  /\ \/ schema' = (IF schema < Target[build] THEN Target[build] ELSE schema) /\ UNCHANGED faults
     \/ Fault /\ UNCHANGED schema
  /\ UNCHANGED <<build, marker, written, run, directory, now, installs>>

\* One transaction over the migrations the file lacks.  A failed one, or a backup
\* before it that failed, leaves the file as it was and ends the boot: the snapshot
\* is restored into memory only.
Migrate ==
  /\ pc = "compatible"
  /\ \/ /\ schema' = IF schema < Target[build] THEN Target[build] ELSE schema
        /\ pc' = "migrated" /\ UNCHANGED faults
     \/ Fault /\ pc' = "down" /\ UNCHANGED schema
  /\ UNCHANGED <<build, marker, written, run, directory, now, installs>>

\* The marker is a write of its own; one that fails ends the boot as well.
RecordApply ==
  /\ pc = "migrated"
  /\ \/ marker' = Target[build] /\ pc' = "up" /\ UNCHANGED faults
     \/ Fault /\ pc' = "down" /\ UNCHANGED marker
  /\ UNCHANGED <<build, schema, written, run, directory, now, installs>>

-----------------------------------------------------------------------------
(* The worker serves *)

Serving == pc \in {"up", "closing"}

Write ==
  /\ Serving /\ Len(written) < MaxWrites
  /\ written' = Append(written, now)
  /\ UNCHANGED <<build, schema, marker, pc, run, directory, bounds>>

\* One record that does not parse fails every listing.
Listable == torn = {}
Due == \A a \in records : now >= At(a) + Interval

\* At boot and every hour; a tick that finds a run under way is skipped.
Tick ==
  /\ pc = "up" /\ job = "idle" /\ Listable /\ Due
  /\ job' = "due"
  /\ UNCHANGED <<build, database, pc, at, snap, doomed, directory, bounds>>

\* (mutant) A capture that failed leaves the run in flight.
CaptureStuck ==
  /\ job = "due"
  /\ \/ at' = now /\ snap' = Len(written) /\ job' = "store" /\ UNCHANGED faults
     \/ Fault /\ job' = "failed" /\ UNCHANGED <<at, snap>>
  /\ UNCHANGED <<build, database, pc, doomed, directory, now, installs>>

\* The instant and the rows are read in one turn.
Capture ==
  /\ job = "due"
  /\ \/ at' = now /\ snap' = Len(written) /\ job' = "store" /\ UNCHANGED faults
     \/ Fault /\ job' = "idle" /\ UNCHANGED <<at, snap>>
  /\ UNCHANGED <<build, database, pc, doomed, directory, now, installs>>

\* (mutant) The artifact is dated when it is stored.
StoreDatesIt ==
  /\ job = "store" /\ at' = now
  /\ \/ bytes' = bytes \cup {<<now, snap>>} /\ job' = "describe" /\ UNCHANGED faults
     \/ Fault /\ job' = "idle" /\ bytes' = bytes \ {<<now, snap>>}
  /\ UNCHANGED <<build, database, pc, snap, doomed, records, torn, now, installs>>

\* The bytes first.
Store ==
  /\ job = "store"
  /\ \/ bytes' = bytes \cup {Current} /\ job' = "describe" /\ UNCHANGED faults
     \/ Fault /\ job' = "idle" /\ bytes' = bytes \ {Current}
  /\ UNCHANGED <<build, database, pc, at, snap, doomed, records, torn, now, installs>>

\* Then the record; a write that fails may leave a piece of it.
Describe ==
  /\ job = "describe"
  /\ \/ records' = records \cup {Current} /\ job' = "prune" /\ UNCHANGED <<torn, faults>>
     \/ Fault /\ job' = "idle" /\ torn' \in {torn, torn \cup {Current}} /\ UNCHANGED records
  /\ UNCHANGED <<build, database, pc, at, snap, doomed, bytes, now, installs>>

\* Newest first, by the instant and then by the id.
Newer(a, b) == At(a) > At(b) \/ (At(a) = At(b) /\ Rows(a) > Rows(b))
NewerThan(b) == {a \in records : Newer(a, b)}
Retired(b) == Cardinality(NewerThan(b)) >= Keep

\* (mutant) The new artifact is left out of the count.
PruneOneMore ==
  /\ job = "prune"
  /\ doomed' = {b \in records : Cardinality(NewerThan(b)) + 1 >= Keep}
  /\ job' = IF doomed' = {} THEN "idle" ELSE "bytes"
  /\ UNCHANGED <<build, database, pc, at, snap, directory, bounds>>

\* The directory is listed again: what lies beyond the newest Keep is removed.
Prune ==
  /\ job = "prune"
  /\ \/ /\ Listable /\ doomed' = {b \in records : Retired(b)}
        /\ job' = (IF doomed' = {} THEN "idle" ELSE "bytes") /\ UNCHANGED faults
     \/ Fault /\ job' = "idle" /\ UNCHANGED doomed
  /\ UNCHANGED <<build, database, pc, at, snap, directory, now, installs>>

\* The newest of them first: its bytes, then its record.
Front(b) == b \in doomed /\ \A c \in doomed : ~Newer(c, b)

RemoveBytes(b) ==
  /\ job = "bytes" /\ Front(b)
  /\ \/ bytes' = bytes \ {b} /\ job' = "record" /\ UNCHANGED <<doomed, faults>>
     \/ Fault /\ job' = "idle" /\ doomed' = {} /\ UNCHANGED bytes
  /\ UNCHANGED <<build, database, pc, at, snap, records, torn, now, installs>>

RemoveRecord(b) ==
  /\ job = "record" /\ Front(b)
  /\ \/ /\ records' = records \ {b} /\ doomed' = doomed \ {b}
        /\ job' = (IF doomed' = {} THEN "idle" ELSE "bytes") /\ UNCHANGED faults
     \/ Fault /\ job' = "idle" /\ doomed' = {} /\ UNCHANGED records
  /\ UNCHANGED <<build, database, pc, at, snap, bytes, torn, now, installs>>

Backup ==
  \/ Capture \/ Store \/ Describe \/ Prune
  \/ \E b \in doomed : RemoveBytes(b) \/ RemoveRecord(b)

-----------------------------------------------------------------------------
(* The end of a worker *)

\* No tick after this.
Close ==
  /\ pc = "up" /\ pc' = "closing"
  /\ UNCHANGED <<build, database, run, directory, bounds>>

\* (mutant) The connection is closed under a run.
ClosedAtOnce ==
  /\ pc = "closing" /\ pc' = "down"
  /\ UNCHANGED <<build, database, run, directory, bounds>>

\* The run under way is awaited before the connection is closed.
Closed ==
  /\ pc = "closing" /\ job = "idle" /\ pc' = "down"
  /\ UNCHANGED <<build, database, run, directory, bounds>>

\* The file that was being written may be left cut short.
Crash ==
  /\ pc # "down" /\ Fault /\ pc' = "down" /\ job' = "idle" /\ doomed' = {}
  /\ bytes' = IF job = "store" THEN bytes \ {Current} ELSE bytes
  /\ torn' \in {torn} \cup (IF job = "describe" THEN {torn \cup {Current}} ELSE {})
  /\ UNCHANGED <<build, database, at, snap, records, now, installs>>

ClockTick ==
  /\ now < MaxTime /\ now' = now + 1
  /\ UNCHANGED <<build, database, pc, run, directory, faults, installs>>

Next ==
  \/ Install \/ Open \/ Migrate \/ RecordApply
  \/ Write \/ Tick \/ Backup
  \/ Close \/ Closed \/ Crash \/ ClockTick

Spec == Init /\ [][Next]_vars

\* The hourly timer fires while the worker serves, and a run goes on.
Scheduled == Spec /\ WF_vars(Tick) /\ WF_vars(Backup)

-----------------------------------------------------------------------------
(* Properties *)

Jobs == {"idle", "due", "store", "describe", "prune", "bytes", "record"}

\* Types.  A backup run reads only a connection that is open: it belongs to a
\* worker that serves, and close waits for it (backupTick.settled).
TypeOK ==
  /\ build \in Builds /\ schema \in Nat /\ marker \in Nat
  /\ written \in Seq(Nat) /\ Len(written) <= MaxWrites
  /\ pc \in {"down", "compatible", "migrated", "up", "closing"}
  /\ job \in Jobs /\ (job # "idle" => Serving)
  /\ at \in Nat /\ snap \in Nat
  /\ bytes \subseteq Artifact /\ records \subseteq Artifact /\ torn \subseteq Artifact
  /\ doomed \subseteq records /\ (doomed # {} <=> job \in {"bytes", "record"})
  /\ now \in 0..MaxTime /\ faults \in 0..MaxFaults /\ installs \in 0..MaxInstalls

\* Whatever step of a migration fails or dies, the marker never speaks of a schema
\* the file does not hold, and a worker serves only over a schema at least as new as
\* its own, marked as its own: refused, half-applied or unmarked stores are not
\* served (openDatabase, applyMigrations).
MarkerIsEarned ==
  /\ marker <= schema
  /\ Serving => marker = Target[build] /\ Target[build] <= schema

\* Each of the newest Keep backups listed has all its bytes, whatever the run or the
\* pruning was cut short at: a record appears after its bytes and only bytes beyond
\* the retention are removed (FsBackupSink.write, prune).
KeptAreWhole == \A b \in records : b \in bytes \/ Retired(b)

\* A backup holds every row committed before the instant it is dated by: that date
\* is the recovery point (runPeriodicBackup stamps the instant it captures at).
BackupCovers ==
  \A b \in records : \A n \in 1..Len(written) : written[n] < At(b) => n <= Rows(b)

\* A backup that is due while the worker serves is taken in the end, after failed
\* runs too, unless a record cut short has blinded the listing (isBackupDue,
\* createPeriodicBackupTick clears its guard whatever a run did).
DueIsTaken == (pc = "up" /\ Listable /\ Due) ~> ~(pc = "up" /\ Listable /\ Due)
=============================================================================
