-------------------------- MODULE GBrainSyncProofs --------------------------
(* What the index sync guarantees for every set of revisions, any number of   *)
(* commits under way, and any interleaving of them with faults and restarts;  *)
(* and what an answer may show as proven, whatever the clock, the number of   *)
(* reports and the stray process do.                                          *)
EXTENDS GBrainServing, WellFoundedInduction, TLAPS

\* Only committed revisions are queued, listed or worked on.
Known ==
  /\ \A r \in Revisions : outbox[r] # NoRow => r \in committed
  /\ \A e \in due : e[1] \in committed
  /\ \A w \in Workers : pc[w] \notin {"idle", "list", "next"} => rev[w] \in committed

\* What an entry under way has seen before it is closed.
Witnessed ==
  \A w \in Workers :
    /\ pc[w] = "persist" => <<rev[w], at[w]>> \in applied
    /\ pc[w] = "supersede" => \E a \in applied : a[2] > at[w]

IInv == SyncTypeOK /\ Known /\ IndexHoldsCommitted /\ Witnessed /\ IndexedIsTruthful

LEMMA TimesInt == Times \subseteq Int
BY SyncAssumption DEF Times

\* Rows have a status and an instant, and a row that is not NoRow is typed.
LEMMA RowType ==
  ASSUME NEW x \in Rows
  PROVE  x.at \in Times /\ x.status \in Held \cup {"indexed", "none"}
BY SyncAssumption DEF Rows, NoRow, Times

LEMMA InitInv == SyncInit => IInv
<1> SUFFICES ASSUME SyncInit PROVE IInv
  OBVIOUS
<1> USE SyncAssumption DEF SyncInit, Workers, Asleep, Steps, Times, Held, NoRow
<1>1. SyncTypeOK
  BY DEF SyncTypeOK, Rows
<1>2. Known /\ Witnessed /\ IndexHoldsCommitted /\ IndexedIsTruthful
  BY DEF Known, Witnessed, IndexHoldsCommitted, IndexedIsTruthful
<1> QED
  BY <1>1, <1>2 DEF IInv

-----------------------------------------------------------------------------
(* One lemma per group of steps *)

LEMMA TypeStep == SyncTypeOK /\ [SyncNext]_syncVars => SyncTypeOK'
<1> SUFFICES ASSUME SyncTypeOK, [SyncNext]_syncVars PROVE SyncTypeOK'
  OBVIOUS
<1> USE SyncAssumption DEF SyncTypeOK, Workers, Steps, world, store, job, Goto, Finish, Fault
<1>a. \A r \in Revisions : outbox[r].at \in Times
  BY RowType
<1>b. \A t \in Times : \A s \in Held \cup {"indexed"} : [status |-> s, at |-> t] \in Rows
  BY DEF Rows
<1>c. 0 \in Times /\ now \in Times
  BY DEF Times
<1>d. ASSUME NEW w \in Workers, NEW s \in Held \cup {"indexed"},
             rev[w] \in Revisions, Write(w, s)
      PROVE  outbox' \in [Revisions -> Rows]
  <2>1. [status |-> s, at |-> at[w]] \in Rows
    BY <1>b
  <2> QED
    BY <1>d, <2>1 DEF Write
<1>e. Held \cup {"indexed"} = {"gbrain_sync_queued", "sync_lagging", "indexed"}
  BY DEF Held
<1>1. ASSUME NEW t \in Triggers, NEW r \in Revisions, Commit(t, r) \/ Replay(t, r)
      PROVE  SyncTypeOK'
  BY <1>1 DEF Commit, Replay, CommitReturns
<1>2. ASSUME NEW t \in Triggers, Lookup(t) PROVE SyncTypeOK'
  BY <1>2, <1>c DEF Lookup
<1>3. ASSUME NEW t \in Triggers, Enqueue(t) PROVE SyncTypeOK'
  <2>1. [status |-> "gbrain_sync_queued", at |-> now] \in Rows
    BY <1>b, <1>c, <1>e
  <2>2. outbox' \in [Revisions -> Rows]
    BY <1>3, <2>1 DEF Enqueue
  <2> QED
    BY <1>3, <1>c, <2>2 DEF Enqueue
<1>4. ASSUME NEW w \in Workers, HighWater(w) PROVE SyncTypeOK'
  BY <1>4 DEF HighWater
<1>5. ASSUME NEW w \in Workers, Supersede(w) \/ Persist(w) PROVE SyncTypeOK'
  <2>1. rev[w] \in Revisions
    BY <1>5 DEF Supersede, Persist, Advance
  <2>2. outbox' \in [Revisions -> Rows]
    BY <1>5, <1>d, <1>e, <2>1 DEF Supersede, Persist, Advance
  <2> QED
    BY <1>5, <1>c, <2>2 DEF Supersede, Persist, Advance
<1>6. ASSUME NEW w \in Workers, Load(w) PROVE SyncTypeOK'
  BY <1>6 DEF Load
<1>7. ASSUME NEW w \in Workers, Apply(w) PROVE SyncTypeOK'
  BY <1>7 DEF Apply, Upserted
<1>8. ASSUME NEW w \in Workers, Lag(w) PROVE SyncTypeOK'
  <2>1. rev[w] \in Revisions
    BY <1>8 DEF Lag
  <2>2. outbox' \in [Revisions -> Rows]
    BY <1>8, <1>d, <1>e, <2>1 DEF Lag
  <2> QED
    BY <1>8, <1>c, <2>2 DEF Lag
<1>9. ASSUME NEW t \in Triggers, TriggerLag(t) PROVE SyncTypeOK'
  <2>1. rev[t] \in Revisions
    BY <1>9 DEF TriggerLag
  <2>2. outbox' \in [Revisions -> Rows]
    BY <1>9, <1>d, <1>e, <2>1 DEF TriggerLag
  <2> QED
    BY <1>9, <1>c, <2>2 DEF TriggerLag
<1>10. CASE DrainList
  BY <1>10, <1>a DEF DrainList
<1>11. CASE DrainNext
  BY <1>11 DEF DrainNext
<1>12. CASE DrainDone
  BY <1>12 DEF DrainDone
<1>13. ASSUME NEW r \in Revisions, OwnerEdits(r) PROVE SyncTypeOK'
  BY <1>13 DEF OwnerEdits
<1>14. CASE Tick
  BY <1>14 DEF Tick, Times
<1>15. CASE Restart
  BY <1>15 DEF Restart, Asleep, Times
<1>16. CASE UNCHANGED syncVars
  BY <1>16 DEF syncVars
<1> QED
  BY <1>1, <1>2, <1>3, <1>4, <1>5, <1>6, <1>7, <1>8, <1>9, <1>10, <1>11, <1>12, <1>13,
     <1>14, <1>15, <1>16 DEF SyncNext, Work, Activity, Boot, Job

LEMMA KnownStep == IInv /\ [SyncNext]_syncVars => Known' /\ IndexHoldsCommitted'
<1> SUFFICES ASSUME IInv, [SyncNext]_syncVars PROVE Known' /\ IndexHoldsCommitted'
  OBVIOUS
<1> USE SyncAssumption
    DEF IInv, Known, IndexHoldsCommitted, SyncTypeOK, Workers, Steps, world, store, job,
        Goto, Finish, Fault
<1>a. \A t \in Times : \A s \in {"indexed", "sync_lagging", "gbrain_sync_queued"} :
        [status |-> s, at |-> t] # NoRow
  BY DEF NoRow
<1>1. ASSUME NEW t \in Triggers, NEW r \in Revisions, Commit(t, r) \/ Replay(t, r)
      PROVE  Known' /\ IndexHoldsCommitted'
  BY <1>1 DEF Commit, Replay, CommitReturns
<1>2. ASSUME NEW t \in Triggers, Lookup(t) PROVE Known' /\ IndexHoldsCommitted'
  BY <1>2 DEF Lookup
<1>3. ASSUME NEW t \in Triggers, Enqueue(t) PROVE Known' /\ IndexHoldsCommitted'
  BY <1>3 DEF Enqueue
<1>4. ASSUME NEW w \in Workers, HighWater(w) PROVE Known' /\ IndexHoldsCommitted'
  BY <1>4 DEF HighWater
<1>5. ASSUME NEW w \in Workers, Supersede(w) \/ Persist(w)
      PROVE  Known' /\ IndexHoldsCommitted'
  BY <1>5 DEF Supersede, Persist, Advance, Write
<1>6. ASSUME NEW w \in Workers, Load(w) PROVE Known' /\ IndexHoldsCommitted'
  BY <1>6 DEF Load
<1>7. ASSUME NEW w \in Workers, Apply(w) PROVE Known' /\ IndexHoldsCommitted'
  BY <1>7 DEF Apply, Upserted
<1>8. ASSUME NEW w \in Workers, Lag(w) PROVE Known' /\ IndexHoldsCommitted'
  BY <1>8 DEF Lag, Write
<1>9. ASSUME NEW t \in Triggers, TriggerLag(t) PROVE Known' /\ IndexHoldsCommitted'
  BY <1>9 DEF TriggerLag, Write
<1>10. CASE DrainList
  <2>1. \A s \in Revisions : outbox[s].status \in Held => outbox[s] # NoRow
    BY DEF NoRow, Held
  <2> QED
    BY <1>10, <2>1 DEF DrainList
<1>11. CASE DrainNext
  BY <1>11 DEF DrainNext
<1>12. CASE DrainDone
  BY <1>12 DEF DrainDone
<1>13. ASSUME NEW r \in Revisions, OwnerEdits(r) PROVE Known' /\ IndexHoldsCommitted'
  BY <1>13 DEF OwnerEdits
<1>14. CASE Tick
  BY <1>14 DEF Tick
<1>15. CASE Restart
  BY <1>15 DEF Restart, Asleep
<1>16. CASE UNCHANGED syncVars
  BY <1>16 DEF syncVars
<1> QED
  BY <1>1, <1>2, <1>3, <1>4, <1>5, <1>6, <1>7, <1>8, <1>9, <1>10, <1>11, <1>12, <1>13,
     <1>14, <1>15, <1>16 DEF SyncNext, Work, Activity, Boot, Job

\* Every indexed row has a witness at its instant or later.
LEMMA HighWaterWitness ==
  ASSUME SyncTypeOK, IndexedIsTruthful, NEW w \in Workers, NEW r \in Newest, Overtaken(w, r)
  PROVE  \E a \in applied : a[2] > at[w]
<1>1. outbox[r].at \in Int /\ at[w] \in Int /\ outbox[r].at > at[w]
  BY RowType, TimesInt DEF SyncTypeOK, Newest, Overtaken
<1>2. \A a \in applied : a[2] \in Int
  BY TimesInt DEF SyncTypeOK
<1>3. CASE <<r, outbox[r].at>> \in applied
  BY <1>1, <1>3
<1>4. CASE \E a \in applied : a[2] > outbox[r].at
  BY <1>1, <1>2, <1>4
<1> QED
  BY <1>3, <1>4 DEF IndexedIsTruthful, Newest

LEMMA TruthStep == IInv /\ [SyncNext]_syncVars => Witnessed' /\ IndexedIsTruthful'
<1> SUFFICES ASSUME IInv, [SyncNext]_syncVars PROVE Witnessed' /\ IndexedIsTruthful'
  OBVIOUS
<1> USE SyncAssumption
    DEF IInv, Witnessed, IndexedIsTruthful, SyncTypeOK, Workers, Steps, world, store, job,
        Goto, Finish, Fault
<1>1. ASSUME NEW t \in Triggers, NEW r \in Revisions, Commit(t, r) \/ Replay(t, r)
      PROVE  Witnessed' /\ IndexedIsTruthful'
  BY <1>1 DEF Commit, Replay, CommitReturns
<1>2. ASSUME NEW t \in Triggers, Lookup(t) PROVE Witnessed' /\ IndexedIsTruthful'
  BY <1>2 DEF Lookup
<1>3. ASSUME NEW t \in Triggers, Enqueue(t) PROVE Witnessed' /\ IndexedIsTruthful'
  BY <1>3 DEF Enqueue
<1>4. ASSUME NEW w \in Workers, HighWater(w) PROVE Witnessed' /\ IndexedIsTruthful'
  <2>1. CASE \E r \in Newest : Overtaken(w, r)
    <3>1. \E a \in applied : a[2] > at[w]
      BY <2>1, HighWaterWitness
    <3> QED
      BY <1>4, <3>1 DEF HighWater
  <2>2. CASE ~ \E r \in Newest : Overtaken(w, r)
    BY <1>4, <2>2 DEF HighWater
  <2> QED
    BY <2>1, <2>2
<1>5. ASSUME NEW w \in Workers, Supersede(w) \/ Persist(w)
      PROVE  Witnessed' /\ IndexedIsTruthful'
  BY <1>5 DEF Supersede, Persist, Advance, Write
<1>6. ASSUME NEW w \in Workers, Load(w) PROVE Witnessed' /\ IndexedIsTruthful'
  BY <1>6 DEF Load
<1>7. ASSUME NEW w \in Workers, Apply(w) PROVE Witnessed' /\ IndexedIsTruthful'
  BY <1>7 DEF Apply
<1>8. ASSUME NEW w \in Workers, Lag(w) PROVE Witnessed' /\ IndexedIsTruthful'
  BY <1>8 DEF Lag, Write
<1>9. ASSUME NEW t \in Triggers, TriggerLag(t) PROVE Witnessed' /\ IndexedIsTruthful'
  BY <1>9 DEF TriggerLag, Write
<1>10. CASE DrainList
  BY <1>10 DEF DrainList
<1>11. CASE DrainNext
  BY <1>11 DEF DrainNext
<1>12. CASE DrainDone
  BY <1>12 DEF DrainDone
<1>13. ASSUME NEW r \in Revisions, OwnerEdits(r) PROVE Witnessed' /\ IndexedIsTruthful'
  BY <1>13 DEF OwnerEdits
<1>14. CASE Tick
  BY <1>14 DEF Tick
<1>15. CASE Restart
  BY <1>15 DEF Restart, Asleep
<1>16. CASE UNCHANGED syncVars
  BY <1>16 DEF syncVars
<1> QED
  BY <1>1, <1>2, <1>3, <1>4, <1>5, <1>6, <1>7, <1>8, <1>9, <1>10, <1>11, <1>12, <1>13,
     <1>14, <1>15, <1>16 DEF SyncNext, Work, Activity, Boot, Job

-----------------------------------------------------------------------------

LEMMA Inductive == SyncSpec => []IInv
<1>1. IInv /\ [SyncNext]_syncVars => IInv'
  BY TypeStep, KnownStep, TruthStep DEF IInv
<1> QED
  BY InitInv, <1>1, PTL DEF SyncSpec

\* Every variable of the sync keeps its type, and a call under way has an entry.
THEOREM SyncTyped == SyncSpec => []SyncTypeOK
<1>1. IInv => SyncTypeOK
  BY DEF IInv
<1> QED
  BY Inductive, <1>1, PTL

\* No uncommitted text reaches the index (applyGbrainIndexJob, the hash check).
THEOREM OnlyCommittedIsIndexed == SyncSpec => []IndexHoldsCommitted
<1>1. IInv => IndexHoldsCommitted
  BY DEF IInv
<1> QED
  BY Inductive, <1>1, PTL

\* A row marked indexed was applied, or one queued later was (the high-water
\* guard of applyGbrainIndexJob).
THEOREM IndexedRowsAreTruthful == SyncSpec => []IndexedIsTruthful
<1>1. IInv => IndexedIsTruthful
  BY DEF IInv
<1> QED
  BY Inductive, <1>1, PTL

-----------------------------------------------------------------------------
(* The greatest of a bounded set of numbers, the last of the reports *)

\* A set of naturals has a least element, hence a bounded one a greatest.
LEMMA LeastNatural ==
  ASSUME NEW T \in SUBSET Nat, T # {}
  PROVE  \E x \in T : \A y \in T : x <= y
<1> DEFINE R == {ss \in Nat \X Nat : ss[1] < ss[2]}
<1>1. IsWellFoundedOn(R, Nat)
  BY NatLessThanWellFounded DEF OpToRel
<1>2. \A a \in Nat, b \in Nat : a < b => <<a, b>> \in R
  OBVIOUS
<1> HIDE DEF R
<1>3. PICK x \in T : \A y \in T : <<y, x>> \notin R
  BY <1>1, WFMin
<1>4. ASSUME NEW y \in T PROVE x <= y
  <2>1. x \in Nat /\ y \in Nat
    OBVIOUS
  <2>2. ~ (y < x)
    BY <1>2, <1>3, <2>1
  <2> QED
    BY <2>1, <2>2
<1> QED
  BY <1>4

LEMMA GreatestNatural ==
  ASSUME NEW n \in Nat, NEW T \in SUBSET (0..n), T # {}
  PROVE  \E x \in T : \A y \in T : y <= x
<1> DEFINE Gaps == {n - y : y \in T}
<1>1. \A y \in T : y \in Nat /\ n - y \in Nat
  OBVIOUS
<1>2. Gaps \in SUBSET Nat /\ Gaps # {}
  BY <1>1
<1>3. PICK g \in Gaps : \A h \in Gaps : g <= h
  <2> HIDE DEF Gaps
  <2> QED
    BY <1>2, LeastNatural
<1>4. PICK x \in T : g = n - x
  BY <1>3
<1>5. ASSUME NEW y \in T PROVE y <= x
  <2>1. g <= n - y
    BY <1>3
  <2> QED
    BY <1>1, <1>4, <2>1
<1> QED
  BY <1>5

-----------------------------------------------------------------------------
(* The parity reports and the answers *)

Read    == Revisions \cup {NoRevision}
Reports == [revision : Read, at : Times, clean : BOOLEAN, complete : BOOLEAN]
Passes  == [pc : {"idle", "head", "compare", "record"}, files : Read, revision : Read,
            id : 0..MaxId, report : Reports]
Stated  == Pages \X {Text[r][p] : r \in Revisions, p \in Pages}
Asks    == [pc : {"idle", "files", "head", "coverage", "admit"}, hits : SUBSET Pages,
            files : Read, revision : Read, gated : BOOLEAN, proven : SUBSET Stated]

\* The order getLatestForRevision sorts by has a last element.
LEMMA LastExists ==
  ASSUME reports \in [1..MaxId -> Reports], NEW S \in SUBSET (1..MaxId), S # {}
  PROVE  \E i \in S : \A j \in S :
           reports[j].at < reports[i].at \/ (reports[j].at = reports[i].at /\ j <= i)
<1> DEFINE Instants == {reports[i].at : i \in S}
<1>1. MaxId \in Nat /\ MaxTime \in Nat
  BY SyncAssumption, ServingAssumption
<1>2. \A i \in S : reports[i].at \in 0..MaxTime
  BY DEF Reports, Times
<1>3. PICK k \in S : \A j \in S : reports[j].at <= reports[k].at
  <2>1. Instants \in SUBSET (0..MaxTime) /\ Instants # {}
    BY <1>2
  <2>2. \E x \in Instants : \A y \in Instants : y <= x
    <3> HIDE DEF Instants
    <3> QED
      BY <1>1, <2>1, GreatestNatural
  <2> QED
    BY <2>2
<1> DEFINE Ties == {i \in S : reports[i].at = reports[k].at}
<1>5. PICK m \in Ties : \A j \in Ties : j <= m
  <2>a. \A i \in S : i \in 0..MaxId
    BY <1>1
  <2>1. Ties \in SUBSET (0..MaxId) /\ k \in Ties
    BY <2>a
  <2> HIDE DEF Ties
  <2> QED
    BY <1>1, <2>1, GreatestNatural
<1>6. ASSUME NEW j \in S
      PROVE  reports[j].at < reports[m].at \/ (reports[j].at = reports[m].at /\ j <= m)
  <2>1. reports[m].at = reports[k].at /\ reports[j].at <= reports[k].at
    BY <1>3, <1>5
  <2>2. CASE j \in Ties
    BY <1>5, <2>1, <2>2
  <2>3. CASE j \notin Ties
    <3>1. reports[j].at \in Int /\ reports[k].at \in Int
      BY <1>2
    <3> QED
      BY <2>1, <2>3, <3>1
  <2> QED
    BY <2>2, <2>3
<1> QED
  BY <1>5, <1>6

\* getLatestForRevision answers with a report of the revision, or with none.
LEMMA LatestIsOf ==
  ASSUME reports \in [1..MaxId -> Reports], NEW r \in Revisions, Latest(r) # NoReport
  PROVE  \E i \in DOMAIN reports : reports[i].revision = r /\ Latest(r) = reports[i]
<1> DEFINE Of == {i \in DOMAIN reports : reports[i].revision = r}
           Last(i) == \A j \in Of : reports[j].at < reports[i].at
                                      \/ (reports[j].at = reports[i].at /\ j <= i)
<1>1. Latest(r) = IF Of = {} THEN NoReport ELSE reports[CHOOSE i \in Of : Last(i)]
  BY DEF Latest
<1>2. Of # {} /\ Of \in SUBSET (1..MaxId)
  BY <1>1
<1>3. \E i \in Of : Last(i)
  <2> HIDE DEF Of
  <2> QED
    BY <1>2, LastExists
<1>4. (CHOOSE i \in Of : Last(i)) \in Of
  <2> HIDE DEF Of, Last
  <2> QED
    BY <1>3
<1> QED
  BY <1>1, <1>2, <1>4

\* What the steps of a pass and of a question rely on.
Serving ==
  /\ TypeOK
  /\ reports \in [1..MaxId -> Reports] /\ pass \in Passes /\ ask \in Asks
  /\ pass.pc # "idle" => pass.files \in Revisions
  /\ pass.pc \in {"head", "compare"} => ids < MaxId
  /\ pass.pc = "record" => pass.id \in 1..MaxId
  /\ ask.pc = "head" => ask.files \in Revisions

Reconciled(r) ==
  \E i \in DOMAIN reports : reports[i].revision = r /\ reports[i].clean /\ reports[i].complete

\* The gate is open only behind a report; what is shown went through it.
GateInv ==
  /\ ask.gated => ask.pc = "admit" /\ Reconciled(ask.revision)
  /\ ask.proven # {} => ask.pc = "idle" /\ Reconciled(ask.revision)
  /\ ProvenIsSigned

LEMMA InitServing == Init => Serving /\ GateInv
<1> SUFFICES ASSUME Init PROVE Serving /\ GateInv
  OBVIOUS
<1> USE SyncAssumption, ServingAssumption DEF Init
<1>1. SyncTypeOK
  BY InitInv DEF IInv
<1>2. NoReport \in Reports
  BY DEF NoReport, Reports, Read, Times
<1>3. reports \in [1..MaxId -> Reports] /\ pass \in Passes /\ ask \in Asks
  BY <1>2 DEF Passes, Asks, Read, NoPass, NoAsk
<1>4. TypeOK
  BY <1>1, <1>3 DEF TypeOK, NoPass, NoAsk
<1> QED
  BY <1>3, <1>4 DEF Serving, GateInv, ProvenIsSigned, NoPass, NoAsk

\* No step of a pass or of a question moves the sync: but for a fault of the
\* store it stutters.
LEMMA QuietSync ==
  ASSUME SyncTypeOK, Quiet, faults' = faults \/ Fault
  PROVE  SyncTypeOK'
BY SyncAssumption DEF SyncTypeOK, Quiet, Fault, world, store, job, Workers

LEMMA PassTypes ==
  ASSUME Serving, ReadCanonical \/ ReadHead \/ Compare \/ Record
  PROVE  Serving'
<1> USE SyncAssumption, ServingAssumption DEF Serving
<1>a. SyncTypeOK /\ tree \in Revisions /\ now \in Times /\ ids \in 0..MaxId + 2
  BY DEF TypeOK, SyncTypeOK
<1>b. NoReport \in Reports /\ NoPass \in Passes
  BY DEF NoReport, NoPass, Reports, Passes, Read, Times
<1>c. SyncTypeOK'
  BY <1>a, QuietSync DEF ReadCanonical, ReadHead, Compare, Record
<1>1. CASE ReadCanonical
  <2>1. pass' \in Passes /\ pass'.pc = "head" /\ pass'.files \in Revisions
    BY <1>1, <1>a, <1>b DEF ReadCanonical, NoPass, Passes, Read
  <2> QED
    BY <1>1, <1>c, <2>1 DEF ReadCanonical, TypeOK
<1>2. CASE ReadHead
  <2>1. pass' \in Passes
    BY <1>2, <1>a, <1>b DEF ReadHead, Passes, Read
  <2>2. pass'.pc # "idle" => pass'.pc = "compare" /\ {pass'.files, pass'.revision} \subseteq Revisions
    BY <1>2, <1>a DEF ReadHead, NoPass, Passes
  <2> QED
    BY <1>2, <1>c, <2>1, <2>2 DEF ReadHead, TypeOK
<1>3. CASE Compare
  <2>1. pass.pc = "compare" /\ {pass.files, pass.revision} \subseteq Revisions /\ ids < MaxId
    BY <1>3 DEF Compare, TypeOK
  <2>2. \A clean \in BOOLEAN, complete \in BOOLEAN :
          [revision |-> pass.revision, at |-> 0, clean |-> clean, complete |-> complete] \in Reports
    BY <2>1 DEF Reports, Read, Times
  <2>3. PICK report \in Reports :
          pass' = [pass EXCEPT !.pc = "record", !.id = ids + 1, !.report = report]
    BY <1>3, <2>2 DEF Compare
  <2>4. ids + 1 \in 1..MaxId /\ ids + 1 \in 0..MaxId /\ ids' \in 0..MaxId + 2
    <3>1. ids' = ids + 1 \/ ids' = ids + 3
      BY <1>3 DEF Compare
    <3> QED
      BY ONLY <1>a, <2>1, <3>1, ServingAssumption DEF ServingAssumption
  <2>5. /\ pass' \in Passes /\ pass'.pc = "record" /\ pass'.id = ids + 1
        /\ pass'.files = pass.files /\ pass'.revision = pass.revision
    BY <2>3, <2>4 DEF Passes
  <2> QED
    BY <1>3, <1>c, <2>1, <2>4, <2>5 DEF Compare, TypeOK
<1>4. CASE Record
  <2>1. [pass.report EXCEPT !.at = now] \in Reports
    BY <1>a DEF Passes, Reports
  <2>2. reports' \in [1..MaxId -> Reports]
    BY <1>4, <2>1 DEF Record
  <2>3. pass' = NoPass /\ pass'.pc = "idle"
    BY <1>4 DEF Record, NoPass
  <2> QED
    BY <1>4, <1>b, <1>c, <2>2, <2>3 DEF Record, TypeOK
<1> QED
  BY <1>1, <1>2, <1>3, <1>4

LEMMA AskTypes ==
  ASSUME Serving,
         (\E hits \in SUBSET Pages : Retrieve(hits)) \/ ReadFiles \/ LoadContext
           \/ ReadCoverage \/ Admit
  PROVE  Serving'
<1> USE SyncAssumption, ServingAssumption DEF Serving
<1>a. SyncTypeOK /\ tree \in Revisions
  BY DEF TypeOK, SyncTypeOK
<1>b. NoAsk \in Asks
  BY DEF NoAsk, Asks, Read
<1>c. SyncTypeOK'
  BY <1>a, QuietSync DEF Retrieve, ReadFiles, LoadContext, ReadCoverage, Admit
<1>1. ASSUME NEW hits \in SUBSET Pages, Retrieve(hits) PROVE Serving'
  <2>1. ask' \in Asks /\ ask'.pc = "files" /\ ask'.hits = hits
    BY <1>1, <1>b DEF Retrieve, NoAsk, Asks
  <2> QED
    BY <1>1, <1>c, <2>1 DEF Retrieve, TypeOK
<1>2. CASE ReadFiles
  <2>1. ask' \in Asks /\ ask'.pc = "head" /\ ask'.hits = ask.hits /\ ask'.files = tree
    BY <1>2, <1>a DEF ReadFiles, Asks, Read
  <2> QED
    BY <1>2, <1>a, <1>c, <2>1 DEF ReadFiles, TypeOK
<1>3. CASE LoadContext
  <2>1. ask' \in Asks
    BY <1>3, <1>a, <1>b DEF LoadContext, Asks, Read
  <2>2. ask'.pc # "idle" => ask'.pc = "coverage" /\ {ask'.files, ask'.revision} \subseteq Revisions
    BY <1>3, <1>a DEF LoadContext, NoAsk, Asks
  <2>3. ask'.hits \subseteq Pages
    BY <2>1 DEF Asks
  <2> QED
    BY <1>3, <1>c, <2>1, <2>2, <2>3 DEF LoadContext, TypeOK, Asks
<1>4. CASE ReadCoverage
  <2>1. {ask.files, ask.revision} \subseteq Revisions
    BY <1>4 DEF ReadCoverage, TypeOK
  <2>2. (Latest(ask.revision).clean /\ Latest(ask.revision).complete) \in BOOLEAN
    OBVIOUS
  <2>3. /\ ask' \in Asks /\ ask'.pc = "admit" /\ ask'.hits = ask.hits
        /\ ask'.files = ask.files /\ ask'.revision = ask.revision
    BY <1>4, <2>2 DEF ReadCoverage, Asks
  <2> QED
    BY <1>4, <1>c, <2>1, <2>3 DEF ReadCoverage, TypeOK
<1>5. CASE Admit
  <2> DEFINE shown == {<<p, Text[ask.files][p]>> : p \in {q \in ask.hits : ask.gated /\ Admissible(q)}}
  <2>1. ask.hits \in SUBSET Pages /\ {ask.files, ask.revision} \subseteq Revisions
    BY <1>5 DEF Admit, TypeOK
  <2>2. shown \in SUBSET Stated
    BY <2>1 DEF Stated
  <2>3. ask' = [NoAsk EXCEPT !.revision = ask.revision, !.proven = shown]
    BY <1>5 DEF Admit
  <2>4. ask' \in Asks /\ ask'.pc = "idle" /\ ask'.hits = {}
    <3> HIDE DEF shown
    <3> QED
      BY <1>b, <2>1, <2>2, <2>3 DEF Asks, NoAsk, Read
  <2> QED
    BY <1>5, <1>c, <2>4 DEF Admit, TypeOK
<1> QED
  BY <1>1, <1>2, <1>3, <1>4, <1>5

\* A report on record stays as it is: the insert does nothing for a taken id.
LEMMA ReportsKept ==
  ASSUME Serving, ReadCanonical \/ ReadHead \/ Compare \/ Record, NEW r, Reconciled(r)
  PROVE  Reconciled(r)'
<1>1. PICK i \in DOMAIN reports :
        reports[i].revision = r /\ reports[i].clean /\ reports[i].complete
  BY DEF Reconciled
<1>2. reports[i] # NoReport
  BY <1>1 DEF NoReport
<1>3. DOMAIN reports' = DOMAIN reports /\ reports'[i] = reports[i]
  BY <1>2 DEF Serving, ReadCanonical, ReadHead, Compare, Record
<1> QED
  BY <1>1, <1>3 DEF Reconciled

LEMMA PassGate ==
  ASSUME Serving, GateInv, ReadCanonical \/ ReadHead \/ Compare \/ Record
  PROVE  GateInv'
<1>1. ask' = ask /\ signed' = signed
  BY DEF ReadCanonical, ReadHead, Compare, Record
<1>2. \A r : Reconciled(r) => Reconciled(r)'
  BY ReportsKept
<1> QED
  BY <1>1, <1>2 DEF GateInv, ProvenIsSigned

LEMMA AskGate ==
  ASSUME Serving, GateInv,
         (\E hits \in SUBSET Pages : Retrieve(hits)) \/ ReadFiles \/ LoadContext
           \/ ReadCoverage \/ Admit
  PROVE  GateInv'
<1>a. signed' = signed /\ reports' = reports
  BY DEF Retrieve, ReadFiles, LoadContext, ReadCoverage, Admit
<1>b. \A r : Reconciled(r) => Reconciled(r)'
  BY <1>a DEF Reconciled
<1>1. ASSUME NEW hits \in SUBSET Pages, Retrieve(hits) PROVE GateInv'
  <2>1. ask'.proven = {} /\ ask'.gated = FALSE
    BY <1>1 DEF Retrieve, NoAsk
  <2> QED
    BY <2>1 DEF GateInv, ProvenIsSigned
<1>2. CASE ReadFiles \/ LoadContext
  <2>1. ask \in Asks /\ ask.gated = FALSE /\ ask.proven = {}
    BY <1>2 DEF ReadFiles, LoadContext, GateInv, Serving, Asks
  <2>a. ASSUME ReadFiles PROVE ask'.gated = FALSE /\ ask'.proven = {}
    BY <2>1, <2>a DEF ReadFiles, Asks
  <2>b. ASSUME LoadContext PROVE ask'.gated = FALSE /\ ask'.proven = {}
    <3>1. \/ ask' = NoAsk
          \/ ask' = [ask EXCEPT !.pc = "coverage", !.revision = tree]
      BY <2>b DEF LoadContext
    <3>2. CASE ask' = NoAsk
      BY ONLY <3>2 DEF NoAsk
    <3>3. CASE ask' = [ask EXCEPT !.pc = "coverage", !.revision = tree]
      BY ONLY <2>1, <3>3 DEF Asks
    <3> QED
      BY <3>1, <3>2, <3>3
  <2>2. ask'.gated = FALSE /\ ask'.proven = {}
    BY <1>2, <2>a, <2>b
  <2> QED
    BY <2>2 DEF GateInv, ProvenIsSigned
<1>3. CASE ReadCoverage
  <2>1. ask.gated = FALSE /\ ask.proven = {} /\ ask.revision \in Revisions
    BY <1>3 DEF ReadCoverage, GateInv, Serving, Asks, TypeOK
  <2>2. ask'.pc = "admit" /\ ask'.proven = {} /\ ask'.revision = ask.revision
    BY <1>3, <2>1 DEF ReadCoverage, Serving, Asks
  <2>3. ASSUME ask'.gated PROVE Reconciled(ask.revision)
    <3>1. Latest(ask.revision).clean /\ Latest(ask.revision).complete
      BY <1>3, <2>1, <2>3 DEF ReadCoverage, Serving, Asks
    <3>2. Latest(ask.revision) # NoReport
      BY <3>1 DEF NoReport
    <3> QED
      BY <2>1, <3>1, <3>2, LatestIsOf DEF Serving, Reconciled
  <2> QED
    BY <1>b, <2>2, <2>3 DEF GateInv, ProvenIsSigned
<1>4. CASE Admit
  <2> DEFINE shown == {<<p, Text[ask.files][p]>> : p \in {q \in ask.hits : ask.gated /\ Admissible(q)}}
  <2>1. ask' = [NoAsk EXCEPT !.revision = ask.revision, !.proven = shown]
    BY <1>4 DEF Admit
  <2>2. ASSUME NEW s \in shown PROVE s \in signed /\ s[1] \notin Quarantined
    <3>1. PICK p \in ask.hits : Admissible(p) /\ s = <<p, Text[ask.files][p]>>
      OBVIOUS
    <3> QED
      BY <3>1 DEF Admissible
  <2>3. shown # {} => ask.gated
    OBVIOUS
  <2>4. /\ ask'.pc = "idle" /\ ask'.gated = FALSE
        /\ ask'.revision = ask.revision /\ ask'.proven = shown
    <3> HIDE DEF shown
    <3> QED
      BY <2>1 DEF NoAsk
  <2> HIDE DEF shown
  <2> QED
    BY <1>a, <1>b, <2>2, <2>3, <2>4 DEF GateInv, ProvenIsSigned
<1> QED
  BY <1>1, <1>2, <1>3, <1>4

\* The steps of the sync, a restart and a stray writer.
LEMMA OtherServing ==
  ASSUME Serving, GateInv, SyncStep \/ Reboot \/ (\E p \in Pages : StrayWrites(p))
  PROVE  Serving' /\ GateInv'
<1> USE SyncAssumption, ServingAssumption
<1>a. SyncTypeOK
  BY DEF Serving, TypeOK
<1>1. CASE SyncStep
  <2>1. SyncTypeOK'
    BY <1>1, <1>a, TypeStep DEF SyncStep, SyncNext
  <2>2. \A s \in Stamps : s[1] \in Pages
    BY DEF Stamps
  <2>3. UNCHANGED <<reports, ids, pass, ask>> /\ signed' = signed \cup Stamps
    BY <1>1 DEF SyncStep
  <2>4. \A r : Reconciled(r) => Reconciled(r)'
    BY <2>3 DEF Reconciled
  <2>5. GateInv'
    BY <2>3, <2>4 DEF GateInv, ProvenIsSigned
  <2>6. TypeOK'
    BY <2>1, <2>2, <2>3 DEF Serving, TypeOK
  <2> QED
    BY <2>3, <2>5, <2>6 DEF Serving
<1>2. CASE Reboot
  <2>1. SyncTypeOK'
    BY <1>2, <1>a, TypeStep DEF Reboot, SyncNext
  <2>2. NoReport \in Reports
    BY DEF NoReport, Reports, Read, Times
  <2>3. NoPass \in Passes /\ NoAsk \in Asks
    BY <2>2 DEF NoPass, NoAsk, Passes, Asks, Read
  <2>4. ids' = 0 /\ pass' = NoPass /\ ask' = NoAsk /\ UNCHANGED <<signed, reports>>
    BY <1>2 DEF Reboot
  <2>5. TypeOK'
    BY <2>1, <2>4 DEF Serving, TypeOK, NoPass, NoAsk
  <2> QED
    BY <2>3, <2>4, <2>5 DEF Serving, GateInv, ProvenIsSigned, NoPass, NoAsk
<1>3. ASSUME NEW p \in Pages, StrayWrites(p) PROVE Serving' /\ GateInv'
  <2>1. SyncTypeOK'
    BY <1>3, <1>a DEF StrayWrites, SyncTypeOK, world, store, job, Workers
  <2>2. UNCHANGED parity
    BY <1>3 DEF StrayWrites
  <2>3. \A r : Reconciled(r) => Reconciled(r)'
    BY <2>2 DEF parity, Reconciled
  <2> QED
    BY <2>1, <2>2, <2>3 DEF Serving, TypeOK, GateInv, ProvenIsSigned, parity
<1> QED
  BY <1>1, <1>2, <1>3

LEMMA ServingHolds == Spec => [](Serving /\ GateInv)
<1>1. Serving /\ GateInv /\ [Next]_vars => (Serving /\ GateInv)'
  <2> SUFFICES ASSUME Serving, GateInv, [Next]_vars PROVE Serving' /\ GateInv'
    OBVIOUS
  <2>1. CASE UNCHANGED vars
    <3>1. SyncTypeOK'
      BY <2>1, TypeStep DEF vars, Serving, TypeOK
    <3>2. UNCHANGED parity
      BY <2>1 DEF vars
    <3> QED
      BY <3>1, <3>2 DEF Serving, TypeOK, GateInv, Reconciled, ProvenIsSigned, parity
  <2> QED
    BY <2>1, PassTypes, PassGate, AskTypes, AskGate, OtherServing DEF Next
<1> QED
  BY InitServing, <1>1, PTL DEF Spec

\* Every variable keeps its type: a pass never runs past the ids it may hand
\* out, and a report or an answer is always about two reads of real revisions.
THEOREM ServingTyped == Spec => []TypeOK
<1>1. Serving => TypeOK
  BY DEF Serving
<1> QED
  BY ServingHolds, <1>1, PTL

\* What is shown as written by the KnowledgeWriter was: the stamp is verified
\* over the vault's own text at the admission (rehydration-gate.ts).
THEOREM ShownIsSigned == Spec => []ProvenIsSigned
<1>1. GateInv => ProvenIsSigned
  BY DEF GateInv
<1> QED
  BY ServingHolds, <1>1, PTL

\* The gate opens only behind a clean and complete report for the revision the
\* answer read, and the report is still on record when the answer is shown.
THEOREM ShownIsReconciled == Spec => []ProvenIsReconciled
<1>1. GateInv => ProvenIsReconciled
  BY DEF GateInv, ProvenIsReconciled, Reconciled
<1> QED
  BY ServingHolds, <1>1, PTL
=============================================================================
