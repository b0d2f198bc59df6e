----------------------- MODULE OperationalStoreProofs -----------------------
(***************************************************************************)
(* Proofs about OperationalStore, for every table of builds, retention and *)
(* cadence.  Marked is what a boot knows of the schema, Kept what a backup *)
(* run and its pruning know of the directory, Dated what a run knows of    *)
(* the rows it captured.                                                   *)
(***************************************************************************)
EXTENDS OperationalStore, FiniteSetTheorems, TLAPS

\* Past the migration, the file holds the build's schema.
Marked ==
  /\ MarkerIsEarned
  /\ pc = "migrated" => Target[build] <= schema

\* A run under way is newer than every record; its bytes are there before its record
\* is written; what the pruning has still to remove lies beyond the retention.
Kept ==
  /\ IsFiniteSet(records) /\ KeptAreWhole
  /\ job = "due" => Due
  /\ job = "store" => \A a \in records : At(a) < at
  /\ job = "describe" => Current \in bytes
  /\ \A b \in doomed : Retired(b)

\* No record, and no run, is dated in the future; what a run captured is every row
\* before its instant.
Dated ==
  /\ \A b \in records : At(b) <= now
  /\ at <= now
  /\ job \in {"store", "describe"} =>
       \A n \in 1..Len(written) : written[n] < at => n <= snap
  /\ BackupCovers

IInv == TypeOK /\ Marked /\ Kept /\ Dated

-----------------------------------------------------------------------------
(* Type correctness *)

LEMMA InitInv == Init => IInv
<1> SUFFICES ASSUME Init PROVE IInv
  OBVIOUS
<1>1. written \in Seq(Nat) /\ Len(written) = 0
  BY DEF Init
<1>2. TypeOK
  BY <1>1, StoreAssumption DEF Init, TypeOK, Jobs, Serving
<1>3. Marked
  BY DEF Init, Marked, MarkerIsEarned, Serving
<1>4. IsFiniteSet(records)
  BY FS_EmptySet DEF Init
<1>5. Kept
  BY <1>4 DEF Init, Kept, KeptAreWhole
<1>6. Dated
  BY DEF Init, Dated, BackupCovers
<1> QED BY <1>2, <1>3, <1>5, <1>6 DEF IInv

LEMMA FaultType == faults \in 0..MaxFaults /\ Fault => faults' \in 0..MaxFaults
BY StoreAssumption DEF Fault

LEMMA CurrentType == TypeOK => Current \in Artifact /\ At(Current) = at /\ Rows(Current) = snap
BY DEF TypeOK, Current, Artifact, At, Rows

LEMMA ArtifactType == \A a \in Artifact : At(a) \in Nat /\ Rows(a) \in Nat /\ a = <<At(a), Rows(a)>>
BY DEF Artifact, At, Rows

LEMMA TypeStep == TypeOK /\ [Next]_vars => TypeOK'
<1> SUFFICES ASSUME TypeOK, [Next]_vars PROVE TypeOK'
  OBVIOUS
<1> USE DEF Serving, Jobs
<1>1. CASE Install
  BY <1>1, StoreAssumption DEF Install, TypeOK, database, run, directory
<1>2. CASE Open
  BY <1>2, StoreAssumption DEF Open, TypeOK, database, run, directory, bounds
<1>3. CASE Migrate
  <2>1. schema' \in Nat /\ faults' \in 0..MaxFaults
    BY <1>3, StoreAssumption, FaultType DEF Migrate, TypeOK
  <2> QED BY <1>3, <2>1 DEF Migrate, TypeOK, run, directory
<1>4. CASE RecordApply
  <2>1. marker' \in Nat /\ faults' \in 0..MaxFaults
    BY <1>4, StoreAssumption, FaultType DEF RecordApply, TypeOK
  <2> QED BY <1>4, <2>1 DEF RecordApply, TypeOK, run, directory
<1>5. CASE Write
  <2>1. written' \in Seq(Nat) /\ Len(written') <= MaxWrites
    BY <1>5, StoreAssumption DEF Write, TypeOK
  <2> QED BY <1>5, <2>1 DEF Write, TypeOK, run, directory, bounds
<1>6. CASE Tick
  BY <1>6 DEF Tick, TypeOK, database, directory, bounds
<1>7. CASE Capture
  <2>1. faults' \in 0..MaxFaults /\ Len(written) \in Nat /\ now \in Nat
    BY <1>7, StoreAssumption, FaultType DEF Capture, TypeOK
  <2> QED BY <1>7, <2>1 DEF Capture, TypeOK, database, directory
<1>8. CASE Store
  <2>1. faults' \in 0..MaxFaults /\ bytes' \subseteq Artifact
    BY <1>8, FaultType, CurrentType DEF Store, TypeOK
  <2> QED BY <1>8, <2>1 DEF Store, TypeOK, database
<1>9. CASE Describe
  <2>1. faults' \in 0..MaxFaults /\ records' \subseteq Artifact /\ torn' \subseteq Artifact
    BY <1>9, FaultType, CurrentType DEF Describe, TypeOK
  <2>2. records \subseteq records'
    BY <1>9 DEF Describe
  <2> QED BY <1>9, <2>1, <2>2 DEF Describe, TypeOK, database
<1>10. CASE Prune
  <2>1. faults' \in 0..MaxFaults /\ doomed' \subseteq records
    BY <1>10, FaultType DEF Prune, TypeOK
  <2> QED BY <1>10, <2>1 DEF Prune, TypeOK, database, directory
<1>11. ASSUME NEW b \in doomed, RemoveBytes(b) PROVE TypeOK'
  <2>1. faults' \in 0..MaxFaults
    BY <1>11, FaultType DEF RemoveBytes, TypeOK
  <2> QED BY <1>11, <2>1 DEF RemoveBytes, TypeOK, database
<1>12. ASSUME NEW b \in doomed, RemoveRecord(b) PROVE TypeOK'
  <2>1. faults' \in 0..MaxFaults /\ doomed' \subseteq records'
    BY <1>12, FaultType DEF RemoveRecord, TypeOK
  <2> QED BY <1>12, <2>1 DEF RemoveRecord, TypeOK, database
<1>13. CASE Close
  BY <1>13 DEF Close, TypeOK, database, run, directory, bounds
<1>14. CASE Closed
  BY <1>14 DEF Closed, TypeOK, database, run, directory, bounds
<1>15. CASE Crash
  <2>1. faults' \in 0..MaxFaults /\ bytes' \subseteq Artifact /\ torn' \subseteq Artifact
    BY <1>15, FaultType, CurrentType DEF Crash, TypeOK
  <2> QED BY <1>15, <2>1 DEF Crash, TypeOK, database
<1>16. CASE ClockTick
  BY <1>16, StoreAssumption DEF ClockTick, TypeOK, database, run, directory
<1>17. CASE UNCHANGED vars
  BY <1>17 DEF TypeOK, vars, database, run, directory, bounds
<1> QED BY <1>1, <1>2, <1>3, <1>4, <1>5, <1>6, <1>7, <1>8, <1>9, <1>10, <1>11, <1>12,
           <1>13, <1>14, <1>15, <1>16, <1>17 DEF Next, Backup

-----------------------------------------------------------------------------
(* The marker *)

LEMMA MarkedStep == TypeOK /\ Marked /\ [Next]_vars => Marked'
<1> SUFFICES ASSUME TypeOK, Marked, [Next]_vars PROVE Marked'
  OBVIOUS
<1> USE DEF Marked, MarkerIsEarned, Serving
<1>1. CASE Install
  BY <1>1 DEF Install, database
<1>2. CASE Migrate
  BY <1>2, StoreAssumption DEF Migrate, TypeOK
<1>3. CASE RecordApply
  BY <1>3, StoreAssumption DEF RecordApply, TypeOK
<1>4. CASE Backup
  BY <1>4 DEF Backup, Capture, Store, Describe, Prune, RemoveBytes, RemoveRecord, database
<1>5. CASE Open \/ Close \/ Closed
  BY <1>5 DEF Open, Close, Closed, database
<1>6. CASE Write \/ Tick \/ Crash \/ ClockTick \/ UNCHANGED vars
  BY <1>6 DEF Write, Tick, Crash, ClockTick, vars, database
<1> QED BY <1>1, <1>2, <1>3, <1>4, <1>5, <1>6 DEF Next

-----------------------------------------------------------------------------
(* The directory *)

\* A backup that has enough newer ones keeps them when the records grow, and when the
\* record that goes is beyond the retention itself: what is newer than that one is
\* newer than the backups it was newer than.
LEMMA RetiredGrows ==
  ASSUME NEW R, NEW S, IsFiniteSet(S), R \subseteq S, NEW b,
         Cardinality({a \in R : Newer(a, b)}) >= Keep
  PROVE  Cardinality({a \in S : Newer(a, b)}) >= Keep
<1> DEFINE r == {a \in R : Newer(a, b)}
           s == {a \in S : Newer(a, b)}
<1>1. r \subseteq s /\ IsFiniteSet(s)
  BY FS_Subset
<1>2. Cardinality(r) <= Cardinality(s) /\ IsFiniteSet(r)
  BY <1>1, FS_Subset
<1>3. Cardinality(r) \in Nat /\ Cardinality(s) \in Nat
  BY <1>1, <1>2, FS_CardinalityType
<1> QED BY <1>2, <1>3, StoreAssumption

LEMMA RetiredStays ==
  ASSUME NEW R, IsFiniteSet(R), R \subseteq Artifact, NEW d \in R, NEW b \in R,
         Cardinality({a \in R : Newer(a, d)}) >= Keep,
         Cardinality({a \in R : Newer(a, b)}) >= Keep
  PROVE  Cardinality({a \in R \ {d} : Newer(a, b)}) >= Keep
<1> DEFINE s == {a \in R \ {d} : Newer(a, b)}
<1>1. IsFiniteSet(s) /\ Cardinality(s) \in Nat
  BY FS_Subset, FS_CardinalityType
<1>2. CASE Newer(d, b)
  <2> DEFINE r == {a \in R : Newer(a, d)}
  <2>1. r \subseteq s
    <3> SUFFICES ASSUME NEW a \in R, Newer(a, d) PROVE a # d /\ Newer(a, b)
      OBVIOUS
    <3>1. At(a) \in Nat /\ At(b) \in Nat /\ At(d) \in Nat /\ Rows(a) \in Nat /\ Rows(b) \in Nat /\ Rows(d) \in Nat
      BY ArtifactType
    <3> QED BY <1>2, <3>1 DEF Newer
  <2>2. Cardinality(r) <= Cardinality(s) /\ IsFiniteSet(r)
    BY <1>1, <2>1, FS_Subset
  <2>3. Cardinality(r) \in Nat
    BY <2>2, FS_CardinalityType
  <2> QED BY <1>1, <2>2, <2>3, StoreAssumption
<1>3. CASE ~Newer(d, b)
  <2>1. s = {a \in R : Newer(a, b)}
    BY <1>3
  <2> QED BY <2>1
<1> QED BY <1>2, <1>3

LEMMA KeptStep == TypeOK /\ Kept /\ [Next]_vars => Kept'
<1> SUFFICES ASSUME TypeOK, Kept, [Next]_vars PROVE Kept'
  OBVIOUS
<1>0. Current \in Artifact /\ At(Current) = at
  BY CurrentType
<1>1. ASSUME UNCHANGED <<run, directory, now>> PROVE Kept'
  BY <1>1 DEF Kept, KeptAreWhole, Due, Current, Retired, NewerThan, run, directory
<1>2. CASE Install \/ Open \/ Migrate \/ RecordApply \/ Write \/ Close \/ Closed \/ UNCHANGED vars
  BY <1>1, <1>2 DEF Install, Open, Migrate, RecordApply, Write, Close, Closed, vars, bounds
<1>3. CASE Tick
  BY <1>3 DEF Tick, Kept, KeptAreWhole, Due, Retired, NewerThan, directory, bounds
<1>4. CASE Capture
  <2>1. job = "due" /\ \A a \in records : At(a) < now
    <3> SUFFICES ASSUME NEW a \in records PROVE job = "due" /\ At(a) < now
      BY <1>4 DEF Capture
    <3>1. now >= At(a) + Interval /\ At(a) \in Nat /\ now \in Nat
      BY <1>4, ArtifactType, StoreAssumption DEF Capture, Kept, Due, TypeOK
    <3> QED BY <1>4, <3>1, StoreAssumption DEF Capture
  <2>2. UNCHANGED <<doomed, records, bytes>> /\ job' # "due" /\ job' # "describe"
    BY <1>4 DEF Capture, directory
  <2>3. job' = "store" => \A a \in records' : At(a) < at'
    BY <1>4, <2>1, <2>2 DEF Capture
  <2> QED BY <2>2, <2>3 DEF Kept, KeptAreWhole, Retired, NewerThan
<1>5. CASE Store
  <2>1. Current \notin records
    <3> SUFFICES ASSUME Current \in records PROVE FALSE
      OBVIOUS
    <3>1. At(Current) < at /\ at \in Nat
      BY <1>5 DEF Store, Kept, TypeOK
    <3> QED BY <1>0, <3>1
  <2>2. UNCHANGED <<records, doomed, at, snap>> /\ job' \in {"describe", "idle"}
    BY <1>5 DEF Store
  <2>3. \A b \in records : b \in bytes => b \in bytes'
    BY <1>5, <2>1 DEF Store
  <2>4. job' = "describe" => Current' \in bytes'
    BY <1>5, <2>2 DEF Store, Current
  <2> QED BY <2>2, <2>3, <2>4 DEF Kept, KeptAreWhole, Retired, NewerThan
<1>6. CASE Describe
  <2>1. UNCHANGED <<bytes, doomed>> /\ job' \in {"prune", "idle"} /\ records \subseteq records'
    BY <1>6 DEF Describe
  <2>2. IsFiniteSet(records') /\ \A b \in records' : b \in records \/ b \in bytes
    BY <1>6, FS_AddElement DEF Describe, Kept
  <2>3. ASSUME NEW b, Retired(b) PROVE Retired(b)'
    BY <2>1, <2>2, <2>3, RetiredGrows DEF Retired, NewerThan
  <2> QED BY <2>1, <2>2, <2>3 DEF Kept, KeptAreWhole
<1>7. CASE Prune
  BY <1>7 DEF Prune, Kept, KeptAreWhole, Retired, NewerThan, directory, TypeOK
<1>8. ASSUME NEW d \in doomed, RemoveBytes(d) PROVE Kept'
  <2>1. UNCHANGED records /\ doomed' \subseteq doomed /\ job' \in {"record", "idle"} /\ bytes \subseteq bytes' \cup {d}
    BY <1>8 DEF RemoveBytes
  <2>2. Retired(d)
    BY DEF Kept
  <2> QED BY <2>1, <2>2 DEF Kept, KeptAreWhole, Retired, NewerThan
<1>9. ASSUME NEW d \in doomed, RemoveRecord(d) PROVE Kept'
  <2>1. d \in records /\ Retired(d) /\ IsFiniteSet(records) /\ records \subseteq Artifact
    BY DEF Kept, TypeOK
  <2>2. UNCHANGED bytes /\ doomed' \subseteq doomed /\ job' \in {"bytes", "idle"}
    BY <1>9 DEF RemoveRecord
  <2>3. records' = records \/ records' = records \ {d}
    BY <1>9 DEF RemoveRecord
  <2>4. IsFiniteSet(records')
    BY <2>1, <2>3, FS_RemoveElement
  <2>5. ASSUME NEW b \in records, Retired(b) PROVE Retired(b)'
    <3>1. CASE records' = records
      BY <2>5, <3>1 DEF Retired, NewerThan
    <3>2. CASE records' = records \ {d}
      <4>1. Cardinality({a \in records \ {d} : Newer(a, b)}) >= Keep
        BY <2>1, <2>5, RetiredStays DEF Retired, NewerThan
      <4> QED BY <3>2, <4>1 DEF Retired, NewerThan
    <3> QED BY <2>3, <3>1, <3>2
  <2> QED BY <2>2, <2>3, <2>4, <2>5 DEF Kept, KeptAreWhole, TypeOK
<1>10. CASE Crash
  <2>1. UNCHANGED records /\ job' = "idle" /\ doomed' = {}
    BY <1>10 DEF Crash
  <2>2. \A b \in records : b \in bytes => b \in bytes'
    <3>1. job = "store" => Current \notin records
      BY <1>0 DEF Kept, TypeOK
    <3> QED BY <1>10, <3>1 DEF Crash
  <2> QED BY <2>1, <2>2 DEF Kept, KeptAreWhole, Retired, NewerThan
<1>11. CASE ClockTick
  <2>1. Due => Due'
    <3> SUFFICES ASSUME NEW a \in records, now >= At(a) + Interval PROVE now' >= At(a) + Interval
      BY <1>11 DEF ClockTick, Due, directory
    <3> QED BY <1>11, ArtifactType, StoreAssumption DEF ClockTick, TypeOK
  <2> QED BY <1>11, <2>1 DEF ClockTick, Kept, KeptAreWhole, Current, Retired, NewerThan, run, directory
<1> QED BY <1>2, <1>3, <1>4, <1>5, <1>6, <1>7, <1>8, <1>9, <1>10, <1>11 DEF Next, Backup

-----------------------------------------------------------------------------
(* The dates *)

LEMMA DatedStep == TypeOK /\ Kept /\ Dated /\ [Next]_vars => Dated'
<1> SUFFICES ASSUME TypeOK, Kept, Dated, [Next]_vars PROVE Dated'
  OBVIOUS
<1>0. Current \in Artifact /\ At(Current) = at /\ Rows(Current) = snap
  BY CurrentType
<1>1. ASSUME UNCHANGED <<written, at, snap, now>>, records' \subseteq records,
             job' \in {"store", "describe"} => job \in {"store", "describe"}
      PROVE  Dated'
  BY <1>1 DEF Dated, BackupCovers
<1>2. CASE Install \/ Open \/ Migrate \/ RecordApply \/ Close \/ Closed \/ Tick \/ UNCHANGED vars
  BY <1>1, <1>2 DEF Install, Open, Migrate, RecordApply, Close, Closed, Tick, vars,
                    bounds, database, run, directory
<1>3. CASE Write
  <2>1. /\ UNCHANGED <<at, snap, now, records, job>>
        /\ Len(written') = Len(written) + 1 /\ Len(written) \in Nat
        /\ \A n \in 1..Len(written) : written'[n] = written[n]
        /\ written'[Len(written) + 1] = now
    BY <1>3, StoreAssumption DEF Write, TypeOK, run, directory, bounds
  <2>2. ASSUME NEW n \in 1..Len(written'), NEW t \in Nat, t <= now, written'[n] < t
        PROVE  n \in 1..Len(written) /\ written[n] < t
    <3>1. n # Len(written) + 1
      BY <2>1, <2>2, StoreAssumption DEF TypeOK
    <3> QED BY <2>1, <2>2, <3>1
  <2>3. \A b \in records : At(b) \in Nat
    BY ArtifactType DEF TypeOK
  <2>4. at \in Nat
    BY DEF TypeOK
  <2> QED BY <2>1, <2>2, <2>3, <2>4 DEF Dated, BackupCovers
<1>4. CASE Capture
  <2>1. UNCHANGED <<written, records, now>> /\ job' \in {"store", "idle"}
    BY <1>4 DEF Capture, database, directory
  <2>2. at' <= now
    BY <1>4, StoreAssumption DEF Capture, Dated, TypeOK
  <2>3. job' = "store" => \A n \in 1..Len(written) : n <= snap'
    BY <1>4 DEF Capture, TypeOK
  <2> QED BY <2>1, <2>2, <2>3 DEF Dated, BackupCovers
<1>5. CASE Store \/ Prune
  BY <1>1, <1>5 DEF Store, Prune, database, directory
<1>6. CASE Describe
  <2>1. UNCHANGED <<written, at, snap, now>> /\ job' \in {"prune", "idle"}
    BY <1>6 DEF Describe, database
  <2>2. \A b \in records' : b \in records \/ b = Current
    BY <1>6 DEF Describe
  <2>3. \A n \in 1..Len(written) : written[n] < At(Current) => n <= Rows(Current)
    BY <1>0, <1>6 DEF Describe, Dated
  <2> QED BY <1>0, <2>1, <2>2, <2>3 DEF Dated, BackupCovers
<1>7. ASSUME NEW d \in doomed, RemoveBytes(d) \/ RemoveRecord(d) PROVE Dated'
  BY <1>1, <1>7 DEF RemoveBytes, RemoveRecord, database
<1>8. CASE Crash
  BY <1>1, <1>8 DEF Crash, database
<1>9. CASE ClockTick
  <2>1. UNCHANGED <<written, at, snap, records, job>> /\ now <= now'
    BY <1>9, StoreAssumption DEF ClockTick, TypeOK, database, run, directory
  <2>2. at <= now' /\ \A b \in records : At(b) <= now'
    BY <1>9, ArtifactType, StoreAssumption DEF ClockTick, Dated, TypeOK
  <2> QED BY <2>1, <2>2 DEF Dated, BackupCovers
<1> QED BY <1>2, <1>3, <1>4, <1>5, <1>6, <1>7, <1>8, <1>9 DEF Next, Backup

-----------------------------------------------------------------------------
(* The theorems *)

\* The inductive invariant of the store holds of every reachable state.
LEMMA InductiveStore == Spec => []IInv
<1>1. IInv /\ [Next]_vars => IInv'
  BY TypeStep, MarkedStep, KeptStep, DatedStep DEF IInv
<1> QED BY InitInv, <1>1, PTL DEF Spec

\* Types; a backup run never outlives the connection it reads (close awaits
\* backupTick.settled).
THEOREM StoreTyped == Spec => []TypeOK
BY InductiveStore, PTL DEF IInv

\* A worker serves only over a store that holds its schema and says so, whatever step
\* of a boot failed or died (openDatabase, applyMigrations).
THEOREM MarkersAreEarned == Spec => []MarkerIsEarned
<1>1. IInv => MarkerIsEarned
  BY DEF IInv, Marked
<1> QED BY InductiveStore, <1>1, PTL

\* The newest Keep backups that are listed have their bytes, for every retention and
\* whatever a run was cut short at (FsBackupSink.write, prune).
THEOREM KeptBackupsAreWhole == Spec => []KeptAreWhole
<1>1. IInv => KeptAreWhole
  BY DEF IInv, Kept
<1> QED BY InductiveStore, <1>1, PTL

\* A backup's date is a recovery point: every row committed before it is in it
\* (runPeriodicBackup, SqliteBackupEngine.capture).
THEOREM BackupsCoverTheirDate == Spec => []BackupCovers
<1>1. IInv => BackupCovers
  BY DEF IInv, Dated
<1> QED BY InductiveStore, <1>1, PTL
=============================================================================
