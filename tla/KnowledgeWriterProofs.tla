----------------------- MODULE KnowledgeWriterProofs -----------------------
(* What the KnowledgeWriter guarantees for every vault, every set of plans    *)
(* and every number of calls under way.                                       *)
EXTENDS KnowledgeWriter, TLAPS

\* A call under way has a plan.
Planned == \A w \in Writers : pc[w] # "idle" => plan[w] \in Plans

IType == TypeOK /\ Planned

LEMMA VaultUpdate ==
  ASSUME NEW v \in Vaults, NEW n, NEW s \in SUBSET Marks
  PROVE  [v EXCEPT ![n] = s] \in Vaults
BY DEF Vaults

LEMMA ProjectedType ==
  ASSUME NEW v \in Vaults, NEW p \in Plans
  PROVE  Projected(v, p) \in Vaults
BY DEF Projected, Vaults, Marks

\* A read returns what is there, or nothing; of a readable note, what is there.
LEMMA ReadsOf ==
  ASSUME TypeOK
  PROVE  \A n \in Notes : \A read \in Reads(n) :
           read \in SUBSET Marks /\ (n \in Readable => read = vault[n])
BY DEF TypeOK, Vaults, Reads, Missing, Readable

LEMMA InitType == Init => IType
BY WriterAssumption DEF Init, NoCall, IType, TypeOK, Planned, Vaults, EmptyVault, Steps

LEMMA StepType == IType /\ [Next]_vars => IType'
<1> SUFFICES ASSUME IType, [Next]_vars PROVE IType'
  OBVIOUS
<1> USE WriterAssumption
    DEF IType, TypeOK, Planned, Steps, Outcomes, Goto, Todo, Succeed,
        disk, books, call, bounds
<1>a. EmptyVault \in Vaults
  BY DEF EmptyVault, Vaults
<1>b. \A w \in Writers : pc[w] # "idle" => Target(w) \in Vaults
  BY ProjectedType DEF Target
<1>c. \A w \in Writers : Changed(w) \subseteq Notes
  BY DEF Changed
<1>d. \A n : vault[n] \in SUBSET Marks \/ n \notin Notes
  BY DEF Vaults
<1>1. ASSUME NEW w \in Writers, NEW p \in Plans, Begin(w, p) PROVE IType'
  BY <1>1 DEF Begin, Targets
<1>2. ASSUME NEW w \in Writers, NEW n \in Notes, Probe(w, n) PROVE IType'
  BY <1>2 DEF Probe
<1>3. ASSUME NEW w \in Writers, NEW n \in Notes, ReadHead(w, n) PROVE IType'
  <2>0. PICK read \in Reads(n) : base' = [base EXCEPT ![w][n] = read]
    BY <1>3 DEF ReadHead
  <2>1. [base[w] EXCEPT ![n] = read] \in Vaults
    BY ReadsOf, VaultUpdate
  <2>2. base' \in [Writers -> Vaults]
    BY <2>0, <2>1
  <2> QED BY <1>3, <2>2 DEF ReadHead
<1>4. ASSUME NEW w \in Writers, NEW n \in Notes, ReadNote(w, n) PROVE IType'
  <2>0. PICK read \in Reads(n) : snap' = [snap EXCEPT ![w][n] = read]
    BY <1>4 DEF ReadNote
  <2>1. [snap[w] EXCEPT ![n] = read] \in Vaults
    BY ReadsOf, VaultUpdate
  <2>2. snap' \in [Writers -> Vaults]
    BY <2>0, <2>1
  <2> QED BY <1>4, <2>2 DEF ReadNote
<1>5. ASSUME NEW w \in Writers, NEW n \in Notes, Stage(w, n) PROVE IType'
  BY <1>5, <1>b DEF Stage
<1>6. ASSUME NEW w \in Writers, NEW n \in Notes, ReadPrior(w, n) PROVE IType'
  <2>0. PICK read \in Reads(n) : prior' = [prior EXCEPT ![w][n] = read]
    BY <1>6 DEF ReadPrior
  <2>1. [prior[w] EXCEPT ![n] = read] \in Vaults
    BY ReadsOf, VaultUpdate
  <2>2. prior' \in [Writers -> Vaults]
    BY <2>0, <2>1
  <2> QED BY <1>6, <2>2 DEF ReadPrior
<1>7. ASSUME NEW w \in Writers, NEW n \in Notes, Rename(w, n) PROVE IType'
  <2>1. Target(w)[n] \in SUBSET Marks
    BY <1>7, <1>b DEF Rename, Vaults
  <2>2. vault' \in Vaults
    BY <1>7, <2>1, VaultUpdate DEF Rename
  <2> QED BY <1>7, <2>2 DEF Rename
<1>8. ASSUME NEW w \in Writers, NEW n \in Notes, RenameFails(w, n) PROVE IType'
  BY <1>8 DEF RenameFails
<1>9. ASSUME NEW w \in Writers, NEW n \in Notes, Restore(w, n) PROVE IType'
  <2>1. prior[w][n] \in SUBSET Marks
    BY DEF Vaults
  <2>2. [vault EXCEPT ![n] = prior[w][n]] \in Vaults
    BY <2>1, VaultUpdate
  <2>3. vault' \in Vaults
    BY <1>9, <2>2 DEF Restore
  <2> QED BY <1>9, <2>3 DEF Restore
<1>10. ASSUME NEW w \in Writers, Probed(w) PROVE IType'
  BY <1>10 DEF Probed
<1>11. ASSUME NEW w \in Writers, HeadKnown(w) PROVE IType'
  BY <1>11 DEF HeadKnown
<1>12. ASSUME NEW w \in Writers, Replay(w) PROVE IType'
  BY <1>12 DEF Replay
<1>13. ASSUME NEW w \in Writers, SnapshotTaken(w) PROVE IType'
  BY <1>13 DEF SnapshotTaken
<1>14. ASSUME NEW w \in Writers, Check(w) PROVE IType'
  BY <1>14, <1>c DEF Check
<1>15. ASSUME NEW w \in Writers, StageFails(w) PROVE IType'
  BY <1>15 DEF StageFails
<1>16. ASSUME NEW w \in Writers, Staged(w) PROVE IType'
  BY <1>16, <1>c DEF Staged
<1>17. ASSUME NEW w \in Writers, PriorsRead(w) PROVE IType'
  BY <1>17, <1>c DEF PriorsRead
<1>18. ASSUME NEW w \in Writers, Renamed(w) PROVE IType'
  BY <1>18 DEF Renamed
<1>19. ASSUME NEW w \in Writers, RolledBack(w) PROVE IType'
  BY <1>19 DEF RolledBack
<1>20. ASSUME NEW w \in Writers, Audit(w) PROVE IType'
  BY <1>20 DEF Audit
<1>21. ASSUME NEW w \in Writers, Record(w) PROVE IType'
  BY <1>21 DEF Record
<1>22. ASSUME NEW w \in Writers, Settle(w) PROVE IType'
  BY <1>22 DEF Settle
<1>23. ASSUME NEW w \in Writers, Return(w) PROVE IType'
  BY <1>23, <1>a DEF Return
<1>24. ASSUME NEW p \in Plans, SettleRejected(p) PROVE IType'
  BY <1>24 DEF SettleRejected
<1>25. ASSUME NEW n \in Notes, NEW e \in Edits, OwnerTypes(n, e) PROVE IType'
  <2>1. vault[n] \cup {e} \in SUBSET Marks
    BY <1>d DEF Marks
  <2>2. vault' \in Vaults
    BY <1>25, <2>1, VaultUpdate DEF OwnerTypes
  <2> QED BY <1>25, <2>2 DEF OwnerTypes
<1>26. CASE Crash
  BY <1>26, <1>a DEF Crash
<1>27. CASE UNCHANGED vars
  BY <1>27 DEF vars
<1> QED
  BY <1>1, <1>2, <1>3, <1>4, <1>5, <1>6, <1>7, <1>8, <1>9, <1>10, <1>11, <1>12,
     <1>13, <1>14, <1>15, <1>16, <1>17, <1>18, <1>19, <1>20, <1>21, <1>22, <1>23,
     <1>24, <1>25, <1>26, <1>27 DEF Next

\* Every reachable state is well typed, and every call under way has a plan.
THEOREM TypeCorrect == Spec => []TypeOK
<1>1. Spec => []IType
  BY InitType, StepType, PTL DEF Spec
<1> QED BY <1>1, PTL DEF IType

-----------------------------------------------------------------------------
(* The records *)

\* A call about to make a record has made the one before.
RecordInv ==
  /\ RecordsInOrder
  /\ \A w \in Writers : pc[w] = "record" => plan[w] \in audited
  /\ \A w \in Writers : pc[w] = "settle" => plan[w] \in revisions

LEMMA RecordInit == Init => RecordInv
BY WriterAssumption DEF Init, NoCall, RecordInv, RecordsInOrder

LEMMA RecordStep == IType /\ RecordInv /\ [Next]_vars => RecordInv'
<1> SUFFICES ASSUME IType, RecordInv, [Next]_vars PROVE RecordInv'
  OBVIOUS
<1> USE WriterAssumption
    DEF IType, TypeOK, RecordInv, RecordsInOrder, Goto, Succeed, disk, books, call, Outcomes
<1>1. ASSUME NEW w \in Writers, NEW p \in Plans, Begin(w, p) PROVE RecordInv'
  BY <1>1 DEF Begin
<1>2. ASSUME NEW w \in Writers, NEW n \in Notes, Probe(w, n) PROVE RecordInv'
  BY <1>2 DEF Probe
<1>3. ASSUME NEW w \in Writers, NEW n \in Notes, ReadHead(w, n) PROVE RecordInv'
  BY <1>3 DEF ReadHead
<1>4. ASSUME NEW w \in Writers, NEW n \in Notes, ReadNote(w, n) PROVE RecordInv'
  BY <1>4 DEF ReadNote
<1>5. ASSUME NEW w \in Writers, NEW n \in Notes, Stage(w, n) PROVE RecordInv'
  BY <1>5 DEF Stage
<1>6. ASSUME NEW w \in Writers, NEW n \in Notes, ReadPrior(w, n) PROVE RecordInv'
  BY <1>6 DEF ReadPrior
<1>7. ASSUME NEW w \in Writers, NEW n \in Notes, Rename(w, n) PROVE RecordInv'
  BY <1>7 DEF Rename
<1>8. ASSUME NEW w \in Writers, NEW n \in Notes, RenameFails(w, n) PROVE RecordInv'
  BY <1>8 DEF RenameFails
<1>9. ASSUME NEW w \in Writers, NEW n \in Notes, Restore(w, n) PROVE RecordInv'
  BY <1>9 DEF Restore
<1>10. ASSUME NEW w \in Writers, Probed(w) PROVE RecordInv'
  BY <1>10 DEF Probed
<1>11. ASSUME NEW w \in Writers, HeadKnown(w) PROVE RecordInv'
  BY <1>11 DEF HeadKnown
<1>12. ASSUME NEW w \in Writers, Replay(w) PROVE RecordInv'
  BY <1>12 DEF Replay
<1>13. ASSUME NEW w \in Writers, SnapshotTaken(w) PROVE RecordInv'
  BY <1>13 DEF SnapshotTaken
<1>14. ASSUME NEW w \in Writers, Check(w) PROVE RecordInv'
  BY <1>14 DEF Check
<1>15. ASSUME NEW w \in Writers, StageFails(w) PROVE RecordInv'
  BY <1>15 DEF StageFails
<1>16. ASSUME NEW w \in Writers, Staged(w) PROVE RecordInv'
  BY <1>16 DEF Staged
<1>17. ASSUME NEW w \in Writers, PriorsRead(w) PROVE RecordInv'
  BY <1>17 DEF PriorsRead
<1>18. ASSUME NEW w \in Writers, Renamed(w) PROVE RecordInv'
  BY <1>18 DEF Renamed
<1>19. ASSUME NEW w \in Writers, RolledBack(w) PROVE RecordInv'
  BY <1>19 DEF RolledBack
<1>20. ASSUME NEW w \in Writers, Audit(w) PROVE RecordInv'
  BY <1>20 DEF Audit
<1>21. ASSUME NEW w \in Writers, Record(w) PROVE RecordInv'
  BY <1>21 DEF Record
<1>22. ASSUME NEW w \in Writers, Settle(w) PROVE RecordInv'
  BY <1>22 DEF Settle
<1>23. ASSUME NEW w \in Writers, Return(w) PROVE RecordInv'
  BY <1>23 DEF Return
<1>24. ASSUME NEW p \in Plans, SettleRejected(p) PROVE RecordInv'
  BY <1>24 DEF SettleRejected
<1>25. ASSUME NEW n \in Notes, NEW e \in Edits, OwnerTypes(n, e) PROVE RecordInv'
  BY <1>25 DEF OwnerTypes
<1>26. CASE Crash
  BY <1>26 DEF Crash
<1>27. CASE UNCHANGED vars
  BY <1>27 DEF vars
<1> QED
  BY <1>1, <1>2, <1>3, <1>4, <1>5, <1>6, <1>7, <1>8, <1>9, <1>10, <1>11,
     <1>12, <1>13, <1>14, <1>15, <1>16, <1>17, <1>18, <1>19, <1>20, <1>21,
     <1>22, <1>23, <1>24, <1>25, <1>26, <1>27 DEF Next

\* No revision is recorded without an audit row and no Copilot plan is settled as
\* committed without a revision, whatever faults, crashes and overlapping calls
\* there are.
THEOREM RecordsStayInOrder == Spec => []RecordsInOrder
<1>1. Spec => []IType
  BY InitType, StepType, PTL DEF Spec
<1>2. Spec => []RecordInv
  BY <1>1, RecordInit, RecordStep, PTL DEF Spec
<1> QED BY <1>2, PTL DEF RecordInv

-----------------------------------------------------------------------------
(* The owner's edits *)

Planning  == {"check", "stage", "priors", "rename", "rollback"}
Writing   == {"stage", "priors", "rename", "rollback"}
Renaming  == {"rename", "rollback"}
NotYet    == {"idle", "gate", "head", "replay", "snapshot", "check", "stage", "priors"}

\* What a call has read, will write and would restore has every edit in it that was
\* not made under its hands.
KeepCall(w) ==
  /\ pc[w] \in NotYet => done[w] = {}
  /\ pc[w] \in Renaming => left[w] \cup done[w] \subseteq Changed(w)
  /\ \A n \in Readable :
       /\ pc[w] = "snapshot" /\ n \notin left[w] => typed[n] \subseteq snap[w][n]
       /\ pc[w] \in Planning => typed[n] \subseteq snap[w][n]
       /\ pc[w] \in Writing => typed[n] \subseteq Target(w)[n]
       /\ pc[w] = "priors" /\ n \in Changed(w) \ left[w] => typed[n] \subseteq prior[w][n]
       /\ pc[w] \in Renaming /\ n \in Changed(w) => typed[n] \subseteq prior[w][n]

KeepInv == EditsKept /\ \A w \in Writers : KeepCall(w)

LEMMA KeepInit == Init => KeepInv
BY DEF Init, NoCall, KeepInv, KeepCall, EditsKept, Planning, Writing, Renaming, NotYet,
       EmptyVault

\* A call is not affected by a step that leaves it and the edits alone.
LEMMA SameCall ==
  ASSUME NEW v \in Writers, KeepCall(v), typed' = typed, pc'[v] = pc[v],
         plan'[v] = plan[v], snap'[v] = snap[v], prior'[v] = prior[v],
         left'[v] = left[v], done'[v] = done[v]
  PROVE  KeepCall(v)'
BY DEF KeepCall, Target, Changed, Planning, Writing, Renaming, NotYet

LEMMA KeepStep == IType /\ KeepInv /\ [Next]_vars => KeepInv'
<1> SUFFICES ASSUME IType, KeepInv, [Next]_vars PROVE KeepInv'
  OBVIOUS
<1>t. /\ vault \in [Notes -> SUBSET Marks] /\ typed \in [Notes -> SUBSET Edits]
      /\ pc \in [Writers -> Steps \cup Outcomes]
      /\ plan \in [Writers -> Plans \cup {NoPlan}]
      /\ snap \in [Writers -> [Notes -> SUBSET Marks]]
      /\ prior \in [Writers -> [Notes -> SUBSET Marks]]
      /\ left \in [Writers -> SUBSET Notes] /\ done \in [Writers -> SUBSET Notes]
  BY DEF IType, TypeOK, Vaults
<1>r. /\ \A n \in Notes : \A read \in Reads(n) : n \in Readable => read = vault[n]
      /\ Readable \subseteq Notes
  BY ReadsOf DEF IType, Readable
<1>k. EditsKept /\ \A w \in Writers : KeepCall(w)
  BY DEF KeepInv
<1>s. Readable \subseteq Notes
  BY <1>r
<1> USE <1>t, <1>k, <1>s DEF Planning, Writing, Renaming, NotYet, Goto, Todo, Succeed, Outcomes
<1>1. ASSUME NEW w \in Writers, NEW p \in Plans, Begin(w, p) PROVE KeepInv'
  <2>1. EditsKept'
    BY <1>1 DEF Begin, EditsKept, disk, books, call
  <2>2. \A v \in Writers \ {w} : KeepCall(v)'
    BY <1>1, SameCall DEF Begin, disk, books, call
  <2>3. KeepCall(w)'
    BY <1>1 DEF Begin, KeepCall, disk, books, call
  <2> QED BY <2>1, <2>2, <2>3 DEF KeepInv
<1>2. ASSUME NEW w \in Writers, NEW n \in Notes, Probe(w, n) PROVE KeepInv'
  <2>1. EditsKept'
    BY <1>2 DEF Probe, EditsKept, disk, books, call
  <2>2. \A v \in Writers \ {w} : KeepCall(v)'
    BY <1>2, SameCall DEF Probe, disk, books, call
  <2>3. KeepCall(w)'
    BY <1>2 DEF Probe, KeepCall, disk, books, call
  <2> QED BY <2>1, <2>2, <2>3 DEF KeepInv
<1>3. ASSUME NEW w \in Writers, NEW n \in Notes, ReadHead(w, n) PROVE KeepInv'
  <2>1. EditsKept'
    BY <1>3 DEF ReadHead, EditsKept, disk, books, call
  <2>2. \A v \in Writers \ {w} : KeepCall(v)'
    BY <1>3, SameCall DEF ReadHead, disk, books, call
  <2>3. KeepCall(w)'
    BY <1>3, <1>r DEF ReadHead, KeepCall, disk, books, call
  <2> QED BY <2>1, <2>2, <2>3 DEF KeepInv
<1>4. ASSUME NEW w \in Writers, NEW n \in Notes, ReadNote(w, n) PROVE KeepInv'
  <2>1. EditsKept'
    BY <1>4 DEF ReadNote, EditsKept, disk, books, call
  <2>2. \A v \in Writers \ {w} : KeepCall(v)'
    BY <1>4, SameCall DEF ReadNote, disk, books, call
  <2>3. KeepCall(w)'
    BY <1>4, <1>r DEF ReadNote, KeepCall, EditsKept, disk, books, call
  <2> QED BY <2>1, <2>2, <2>3 DEF KeepInv
<1>5. ASSUME NEW w \in Writers, NEW n \in Notes, Stage(w, n) PROVE KeepInv'
  <2>1. EditsKept'
    BY <1>5 DEF Stage, EditsKept, disk, books, call
  <2>2. \A v \in Writers \ {w} : KeepCall(v)'
    BY <1>5, SameCall DEF Stage, disk, books, call
  <2>3. Target(w)' = Target(w) /\ Changed(w)' = Changed(w)
    BY <1>5 DEF Stage, Target, Changed, disk, books, call
  <2>4. KeepCall(w)'
    BY <1>5, <2>3 DEF Stage, KeepCall, disk, books, call
  <2> QED BY <2>1, <2>2, <2>4 DEF KeepInv
<1>6. ASSUME NEW w \in Writers, NEW n \in Notes, ReadPrior(w, n) PROVE KeepInv'
  <2>1. EditsKept'
    BY <1>6 DEF ReadPrior, EditsKept, disk, books, call
  <2>2. \A v \in Writers \ {w} : KeepCall(v)'
    BY <1>6, SameCall DEF ReadPrior, disk, books, call
  <2>3. Target(w)' = Target(w) /\ Changed(w)' = Changed(w)
    BY <1>6 DEF ReadPrior, Target, Changed, disk, books, call
  <2>4. KeepCall(w)'
    BY <1>6, <2>3, <1>r DEF ReadPrior, KeepCall, EditsKept, disk, books, call
  <2> QED BY <2>1, <2>2, <2>4 DEF KeepInv
<1>7. ASSUME NEW w \in Writers, NEW n \in Notes, Rename(w, n) PROVE KeepInv'
  <2>1. EditsKept'
    BY <1>7 DEF Rename, EditsKept, disk, books, call, KeepCall
  <2>2. \A v \in Writers \ {w} : KeepCall(v)'
    BY <1>7, SameCall DEF Rename, disk, books, call
  <2>3. Target(w)' = Target(w) /\ Changed(w)' = Changed(w)
    BY <1>7 DEF Rename, Target, Changed, disk, books, call
  <2>4. KeepCall(w)'
    BY <1>7, <2>3 DEF Rename, KeepCall, disk, books, call
  <2> QED BY <2>1, <2>2, <2>4 DEF KeepInv
<1>8. ASSUME NEW w \in Writers, NEW n \in Notes, RenameFails(w, n) PROVE KeepInv'
  <2>1. EditsKept'
    BY <1>8 DEF RenameFails, EditsKept, disk, books, call
  <2>2. \A v \in Writers \ {w} : KeepCall(v)'
    BY <1>8, SameCall DEF RenameFails, disk, books, call
  <2>3. Target(w)' = Target(w) /\ Changed(w)' = Changed(w)
    BY <1>8 DEF RenameFails, Target, Changed, disk, books, call
  <2>4. KeepCall(w)'
    BY <1>8, <2>3 DEF RenameFails, KeepCall, disk, books, call
  <2> QED BY <2>1, <2>2, <2>4 DEF KeepInv
<1>9. ASSUME NEW w \in Writers, NEW n \in Notes, Restore(w, n) PROVE KeepInv'
  <2>0. n \in Readable => typed[n] \subseteq prior[w][n]
    BY <1>9 DEF Restore, KeepCall
  <2>1. EditsKept'
    BY <1>9, <2>0 DEF Restore, EditsKept
  <2>2. \A v \in Writers \ {w} : KeepCall(v)'
    BY <1>9, SameCall DEF Restore, disk, books, call
  <2>3. Target(w)' = Target(w) /\ Changed(w)' = Changed(w)
    BY <1>9 DEF Restore, Target, Changed, disk, books, call
  <2>4. KeepCall(w)'
    BY <1>9, <2>3 DEF Restore, KeepCall, disk, books, call
  <2> QED BY <2>1, <2>2, <2>4 DEF KeepInv
<1>10. ASSUME NEW w \in Writers, Probed(w) PROVE KeepInv'
  <2>1. EditsKept'
    BY <1>10 DEF Probed, EditsKept, disk, books, call
  <2>2. \A v \in Writers \ {w} : KeepCall(v)'
    BY <1>10, SameCall DEF Probed, disk, books, call
  <2>3. KeepCall(w)'
    BY <1>10 DEF Probed, KeepCall, disk, books, call
  <2> QED BY <2>1, <2>2, <2>3 DEF KeepInv
<1>11. ASSUME NEW w \in Writers, HeadKnown(w) PROVE KeepInv'
  <2>1. EditsKept'
    BY <1>11 DEF HeadKnown, EditsKept, disk, books, call
  <2>2. \A v \in Writers \ {w} : KeepCall(v)'
    BY <1>11, SameCall DEF HeadKnown, disk, books, call
  <2>3. KeepCall(w)'
    BY <1>11 DEF HeadKnown, KeepCall, disk, books, call
  <2> QED BY <2>1, <2>2, <2>3 DEF KeepInv
<1>12. ASSUME NEW w \in Writers, Replay(w) PROVE KeepInv'
  <2>1. EditsKept'
    BY <1>12 DEF Replay, EditsKept, disk, books, call
  <2>2. \A v \in Writers \ {w} : KeepCall(v)'
    BY <1>12, SameCall DEF Replay, disk, books, call
  <2>3. KeepCall(w)'
    BY <1>12 DEF Replay, KeepCall, disk, books, call
  <2> QED BY <2>1, <2>2, <2>3 DEF KeepInv
<1>13. ASSUME NEW w \in Writers, SnapshotTaken(w) PROVE KeepInv'
  <2>1. EditsKept'
    BY <1>13 DEF SnapshotTaken, EditsKept, disk, books, call
  <2>2. \A v \in Writers \ {w} : KeepCall(v)'
    BY <1>13, SameCall DEF SnapshotTaken, disk, books, call
  <2>3. Target(w)' = Target(w) /\ Changed(w)' = Changed(w)
    BY <1>13 DEF SnapshotTaken, Target, Changed, disk, books, call
  <2>0. \A n \in Readable : typed[n] \subseteq snap[w][n]
    BY <1>13 DEF SnapshotTaken, KeepCall
  <2>4. KeepCall(w)'
    BY <1>13, <2>0, <2>3 DEF SnapshotTaken, KeepCall, disk, books, call
  <2> QED BY <2>1, <2>2, <2>4 DEF KeepInv
<1>14. ASSUME NEW w \in Writers, Check(w) PROVE KeepInv'
  <2>1. EditsKept'
    BY <1>14 DEF Check, EditsKept, disk
  <2>2. \A v \in Writers \ {w} : KeepCall(v)'
    BY <1>14, SameCall DEF Check, disk, books, call
  <2>3. Target(w)' = Target(w) /\ Changed(w)' = Changed(w)
    BY <1>14 DEF Check, Target, Changed, disk, books, call
  <2>4. Owned(w) => \A n \in Notes : snap[w][n] \subseteq Target(w)[n]
    BY DEF Owned, Changed
  <2>5. KeepCall(w)'
    BY <1>14, <2>3, <2>4 DEF Check, KeepCall, disk, books, call
  <2> QED BY <2>1, <2>2, <2>5 DEF KeepInv
<1>15. ASSUME NEW w \in Writers, StageFails(w) PROVE KeepInv'
  <2>1. EditsKept'
    BY <1>15 DEF StageFails, EditsKept, disk, books, call
  <2>2. \A v \in Writers \ {w} : KeepCall(v)'
    BY <1>15, SameCall DEF StageFails, disk, books, call
  <2>3. KeepCall(w)'
    BY <1>15 DEF StageFails, KeepCall, disk, books, call
  <2> QED BY <2>1, <2>2, <2>3 DEF KeepInv
<1>16. ASSUME NEW w \in Writers, Staged(w) PROVE KeepInv'
  <2>1. EditsKept'
    BY <1>16 DEF Staged, EditsKept, disk, books, call
  <2>2. \A v \in Writers \ {w} : KeepCall(v)'
    BY <1>16, SameCall DEF Staged, disk, books, call
  <2>3. Target(w)' = Target(w) /\ Changed(w)' = Changed(w)
    BY <1>16 DEF Staged, Target, Changed, disk, books, call
  <2>4. KeepCall(w)'
    BY <1>16, <2>3 DEF Staged, KeepCall, disk, books, call
  <2> QED BY <2>1, <2>2, <2>4 DEF KeepInv
<1>17. ASSUME NEW w \in Writers, PriorsRead(w) PROVE KeepInv'
  <2>1. EditsKept'
    BY <1>17 DEF PriorsRead, EditsKept, disk, books, call
  <2>2. \A v \in Writers \ {w} : KeepCall(v)'
    BY <1>17, SameCall DEF PriorsRead, disk, books, call
  <2>3. Target(w)' = Target(w) /\ Changed(w)' = Changed(w)
    BY <1>17 DEF PriorsRead, Target, Changed, disk, books, call
  <2>4. KeepCall(w)'
    BY <1>17, <2>3 DEF PriorsRead, KeepCall, disk, books, call
  <2> QED BY <2>1, <2>2, <2>4 DEF KeepInv
<1>18. ASSUME NEW w \in Writers, Renamed(w) PROVE KeepInv'
  <2>1. EditsKept'
    BY <1>18 DEF Renamed, EditsKept, disk, books, call
  <2>2. \A v \in Writers \ {w} : KeepCall(v)'
    BY <1>18, SameCall DEF Renamed, disk, books, call
  <2>3. KeepCall(w)'
    BY <1>18 DEF Renamed, KeepCall, disk, books, call
  <2> QED BY <2>1, <2>2, <2>3 DEF KeepInv
<1>19. ASSUME NEW w \in Writers, RolledBack(w) PROVE KeepInv'
  <2>1. EditsKept'
    BY <1>19 DEF RolledBack, EditsKept, disk, books, call
  <2>2. \A v \in Writers \ {w} : KeepCall(v)'
    BY <1>19, SameCall DEF RolledBack, disk, books, call
  <2>3. KeepCall(w)'
    BY <1>19 DEF RolledBack, KeepCall, disk, books, call
  <2> QED BY <2>1, <2>2, <2>3 DEF KeepInv
<1>20. ASSUME NEW w \in Writers, Audit(w) PROVE KeepInv'
  <2>1. EditsKept'
    BY <1>20 DEF Audit, EditsKept, disk, books, call
  <2>2. \A v \in Writers \ {w} : KeepCall(v)'
    BY <1>20, SameCall DEF Audit, disk, books, call
  <2>3. KeepCall(w)'
    BY <1>20 DEF Audit, KeepCall, disk, books, call
  <2> QED BY <2>1, <2>2, <2>3 DEF KeepInv
<1>21. ASSUME NEW w \in Writers, Record(w) PROVE KeepInv'
  <2>1. EditsKept'
    BY <1>21 DEF Record, EditsKept, disk, books, call
  <2>2. \A v \in Writers \ {w} : KeepCall(v)'
    BY <1>21, SameCall DEF Record, disk, books, call
  <2>3. KeepCall(w)'
    BY <1>21 DEF Record, KeepCall, disk, books, call
  <2> QED BY <2>1, <2>2, <2>3 DEF KeepInv
<1>22. ASSUME NEW w \in Writers, Settle(w) PROVE KeepInv'
  <2>1. EditsKept'
    BY <1>22 DEF Settle, EditsKept, disk, books, call
  <2>2. \A v \in Writers \ {w} : KeepCall(v)'
    BY <1>22, SameCall DEF Settle, disk, books, call
  <2>3. KeepCall(w)'
    BY <1>22 DEF Settle, KeepCall, disk, books, call
  <2> QED BY <2>1, <2>2, <2>3 DEF KeepInv
<1>23. ASSUME NEW w \in Writers, Return(w) PROVE KeepInv'
  <2>1. EditsKept'
    BY <1>23 DEF Return, EditsKept, disk, books, call
  <2>2. \A v \in Writers \ {w} : KeepCall(v)'
    BY <1>23, SameCall DEF Return, disk, books, call
  <2>3. KeepCall(w)'
    BY <1>23 DEF Return, KeepCall, disk, books, call
  <2> QED BY <2>1, <2>2, <2>3 DEF KeepInv
<1>24. ASSUME NEW p \in Plans, SettleRejected(p) PROVE KeepInv'
  BY <1>24, SameCall DEF SettleRejected, KeepInv, EditsKept, disk, books, call
<1>25. ASSUME NEW n \in Notes, NEW e \in Edits, OwnerTypes(n, e) PROVE KeepInv'
  <2>1. EditsKept'
    BY <1>25 DEF OwnerTypes, EditsKept
  <2>2. ASSUME NEW w \in Writers PROVE KeepCall(w)'
    <3>1. Target(w)' = Target(w) /\ Changed(w)' = Changed(w)
      BY <1>25 DEF OwnerTypes, Target, Changed, call
    <3>2. \A m \in Notes : typed'[m] = typed[m] \/ (m = n /\ ~Held(n))
      BY <1>25 DEF OwnerTypes
    <3>3. ~Held(n) => /\ pc[w] \notin Planning
                      /\ pc[w] = "snapshot" => n \in left[w]
      BY DEF Held
    <3> QED BY <1>25, <3>1, <3>2, <3>3 DEF OwnerTypes, KeepCall, call
  <2> QED BY <2>1, <2>2 DEF KeepInv
<1>26. CASE Crash
  BY <1>26 DEF Crash, KeepInv, KeepCall, EditsKept, disk, books
<1>27. CASE UNCHANGED vars
  BY <1>27, SameCall DEF vars, disk, call, KeepInv, EditsKept
<1> QED
  BY <1>1, <1>2, <1>3, <1>4, <1>5, <1>6, <1>7, <1>8, <1>9, <1>10, <1>11,
     <1>12, <1>13, <1>14, <1>15, <1>16, <1>17, <1>18, <1>19, <1>20, <1>21,
     <1>22, <1>23, <1>24, <1>25, <1>26, <1>27 DEF Next

\* No edit is ever lost from a note that can be read, whichever other notes cannot,
\* unless it is made under the hands of a call that has read the note: not by
\* overlapping calls, not by a create over a note the owner wrote, not by a rollback,
\* and not by a crash at any point of a commit.
THEOREM EditsAreKept == Spec => []EditsKept
<1>1. Spec => []IType
  BY InitType, StepType, PTL DEF Spec
<1>2. IType /\ KeepInv /\ [Next]_vars => KeepInv'
  BY KeepStep
<1>3. Spec => []KeepInv
  BY <1>1, <1>2, KeepInit, PTL DEF Spec
<1> QED BY <1>3, PTL DEF KeepInv

-----------------------------------------------------------------------------
(* One call at a time *)

Reading   == {"check", "stage", "priors"}
Alone     == \A v, w \in Writers : v = w

\* The plan is in every readable note it targets.
Whole(v, p) == \A n \in Targets(p) \cap Readable : p \in v[n]

\* With no other call beside it, a call knows the vault but for the owner's edits: it
\* is the snapshot until the first rename, then the target note by note, and the
\* snapshot again as it is rolled back.
EvidenceCall(w) ==
  /\ pc[w] \in NotYet => done[w] = {}
  /\ pc[w] \in Writing => Owned(w)
  /\ pc[w] \in Renaming => \A p \in audited : Whole(snap[w], p)
  /\ \A n \in Readable :
       /\ pc[w] = "snapshot" /\ n \notin left[w] => Grown(snap[w][n], vault[n])
       /\ pc[w] \in Reading => Grown(snap[w][n], vault[n])
       /\ pc[w] = "priors" /\ n \in Changed(w) \ left[w] => Grown(snap[w][n], prior[w][n])
       /\ pc[w] \in Renaming /\ n \in Changed(w) => Grown(snap[w][n], prior[w][n])
       /\ pc[w] \in Renaming /\ n \in done[w] => n \in Changed(w)
       /\ pc[w] = "rename" => /\ n \in left[w] <=> n \in Changed(w) \ done[w]
                              /\ n \in done[w] => Grown(Target(w)[n], vault[n])
                              /\ n \notin done[w] => Grown(snap[w][n], vault[n])
       /\ pc[w] = "rollback" => snap[w][n] \subseteq vault[n]
       /\ pc[w] = "audit" => Target(w)[n] \subseteq vault[n]

EvidenceInv ==
  /\ \A p \in audited : Whole(vault, p)
  /\ \A w \in Writers : EvidenceCall(w)

LEMMA EvidenceInit == Init => EvidenceInv
BY DEF Init, NoCall, EvidenceInv, EvidenceCall, Reading, Writing, Renaming, NotYet

LEMMA EvidenceStep ==
  ASSUME Alone
  PROVE  IType /\ EvidenceInv /\ [Next]_vars => EvidenceInv'
<1> SUFFICES ASSUME IType, EvidenceInv, [Next]_vars PROVE EvidenceInv'
  OBVIOUS
<1>t. /\ vault \in [Notes -> SUBSET Marks] /\ typed \in [Notes -> SUBSET Edits]
      /\ pc \in [Writers -> Steps \cup Outcomes]
      /\ plan \in [Writers -> Plans \cup {NoPlan}]
      /\ snap \in [Writers -> [Notes -> SUBSET Marks]]
      /\ prior \in [Writers -> [Notes -> SUBSET Marks]]
      /\ left \in [Writers -> SUBSET Notes] /\ done \in [Writers -> SUBSET Notes]
  BY DEF IType, TypeOK, Vaults
<1>r. /\ \A n \in Notes : \A read \in Reads(n) : n \in Readable => read = vault[n]
      /\ Readable \subseteq Notes
  BY ReadsOf DEF IType, Readable
<1>k. /\ \A p \in audited : Whole(vault, p)
      /\ \A w \in Writers : EvidenceCall(w)
      /\ \A v, w \in Writers : v = w
      /\ \A p \in Plans : Targets(p) \subseteq Notes
      /\ audited \subseteq Plans /\ Edits \cap Plans = {}
  BY WriterAssumption DEF EvidenceInv, Alone, Targets, IType, TypeOK
<1>s. Readable \subseteq Notes
  BY <1>r
<1> USE <1>t, <1>k, <1>s DEF Grown, Reading, Writing, Renaming, NotYet, Goto, Todo, Succeed, Outcomes
<1>1. ASSUME NEW w \in Writers, NEW p \in Plans, Begin(w, p) PROVE EvidenceInv'
  <2>1. \A q \in audited' : Whole(vault, q)'
    BY <1>1 DEF Begin, Whole, EvidenceCall, disk, books, call
  <2>2. EvidenceCall(w)'
    BY <1>1 DEF Begin, EvidenceCall, Whole, disk, books, call
  <2> QED BY <2>1, <2>2 DEF EvidenceInv
<1>2. ASSUME NEW w \in Writers, NEW n \in Notes, Probe(w, n) PROVE EvidenceInv'
  <2>1. \A p \in audited' : Whole(vault, p)'
    BY <1>2 DEF Probe, Whole, EvidenceCall, disk, books, call
  <2>2. EvidenceCall(w)'
    BY <1>2 DEF Probe, EvidenceCall, Whole, disk, books, call
  <2> QED BY <2>1, <2>2 DEF EvidenceInv
<1>3. ASSUME NEW w \in Writers, NEW n \in Notes, ReadHead(w, n) PROVE EvidenceInv'
  <2>1. \A p \in audited' : Whole(vault, p)'
    BY <1>3 DEF ReadHead, Whole, EvidenceCall, disk, books, call
  <2>2. EvidenceCall(w)'
    BY <1>3, <1>r DEF ReadHead, EvidenceCall, Whole, disk, books, call
  <2> QED BY <2>1, <2>2 DEF EvidenceInv
<1>4. ASSUME NEW w \in Writers, NEW n \in Notes, ReadNote(w, n) PROVE EvidenceInv'
  <2>1. \A p \in audited' : Whole(vault, p)'
    BY <1>4 DEF ReadNote, Whole, EvidenceCall, disk, books, call
  <2>2. EvidenceCall(w)'
    BY <1>4, <1>r DEF ReadNote, EvidenceCall, Whole, disk, books, call
  <2> QED BY <2>1, <2>2 DEF EvidenceInv
<1>5. ASSUME NEW w \in Writers, NEW n \in Notes, Stage(w, n) PROVE EvidenceInv'
  <2>3. Target(w)' = Target(w) /\ Changed(w)' = Changed(w) /\ Owned(w)' = Owned(w)
    BY <1>5 DEF Stage, Target, Changed, Owned, disk, books, call
  <2>1. \A p \in audited' : Whole(vault, p)'
    BY <1>5, <2>3 DEF Stage, Whole, EvidenceCall, disk, books, call
  <2>2. EvidenceCall(w)'
    BY <1>5, <2>3 DEF Stage, EvidenceCall, Whole, disk, books, call
  <2> QED BY <2>1, <2>2 DEF EvidenceInv
<1>6. ASSUME NEW w \in Writers, NEW n \in Notes, ReadPrior(w, n) PROVE EvidenceInv'
  <2>3. Target(w)' = Target(w) /\ Changed(w)' = Changed(w) /\ Owned(w)' = Owned(w)
    BY <1>6 DEF ReadPrior, Target, Changed, Owned, disk, books, call
  <2>1. \A p \in audited' : Whole(vault, p)'
    BY <1>6, <2>3 DEF ReadPrior, Whole, EvidenceCall, disk, books, call
  <2>2. EvidenceCall(w)'
    BY <1>6, <2>3, <1>r DEF ReadPrior, EvidenceCall, Whole, disk, books, call
  <2> QED BY <2>1, <2>2 DEF EvidenceInv
<1>7. ASSUME NEW w \in Writers, NEW n \in Notes, Rename(w, n) PROVE EvidenceInv'
  <2>3. Target(w)' = Target(w) /\ Changed(w)' = Changed(w) /\ Owned(w)' = Owned(w)
    BY <1>7 DEF Rename, Target, Changed, Owned, disk, books, call
  <2>4. Owned(w) => \A m \in Notes : snap[w][m] \subseteq Target(w)[m]
    BY DEF Owned, Changed
  <2>1. \A p \in audited' : Whole(vault, p)'
    BY <1>7, <2>3, <2>4 DEF Rename, Whole, EvidenceCall, disk, books, call
  <2>2. EvidenceCall(w)'
    BY <1>7, <2>3, <2>4 DEF Rename, EvidenceCall, Whole, disk, books, call
  <2> QED BY <2>1, <2>2 DEF EvidenceInv
<1>8. ASSUME NEW w \in Writers, NEW n \in Notes, RenameFails(w, n) PROVE EvidenceInv'
  <2>3. Target(w)' = Target(w) /\ Changed(w)' = Changed(w) /\ Owned(w)' = Owned(w)
    BY <1>8 DEF RenameFails, Target, Changed, Owned, disk, books, call
  <2>4. Owned(w) => \A m \in Notes : snap[w][m] \subseteq Target(w)[m]
    BY DEF Owned, Changed
  <2>1. \A p \in audited' : Whole(vault, p)'
    BY <1>8, <2>3 DEF RenameFails, Whole, EvidenceCall, disk, books, call
  <2>2. EvidenceCall(w)'
    BY <1>8, <2>3, <2>4 DEF RenameFails, EvidenceCall, Whole, disk, books, call
  <2> QED BY <2>1, <2>2 DEF EvidenceInv
<1>9. ASSUME NEW w \in Writers, NEW n \in Notes, Restore(w, n) PROVE EvidenceInv'
  <2>3. Target(w)' = Target(w) /\ Changed(w)' = Changed(w) /\ Owned(w)' = Owned(w)
    BY <1>9 DEF Restore, Target, Changed, Owned, disk, books, call
  <2>4. Owned(w) => \A m \in Notes : snap[w][m] \subseteq Target(w)[m]
    BY DEF Owned, Changed
  <2>5. \A p \in audited : Whole(snap[w], p)
    BY <1>9 DEF Restore, EvidenceCall
  <2>6. n \in Readable => snap[w][n] \subseteq prior[w][n]
    BY <1>9 DEF Restore, EvidenceCall
  <2>7. \A m \in Readable : vault'[m] = vault[m] \/ snap[w][m] \subseteq vault'[m]
    BY <1>9, <2>6 DEF Restore
  <2>8. audited' = audited
    BY <1>9 DEF Restore, books
  <2>1. \A p \in audited' : Whole(vault, p)'
    BY <2>5, <2>7, <2>8 DEF Whole
  <2>2. EvidenceCall(w)'
    BY <1>9, <2>3, <2>4 DEF Restore, EvidenceCall, Whole, disk, books, call
  <2> QED BY <2>1, <2>2 DEF EvidenceInv
<1>10. ASSUME NEW w \in Writers, Probed(w) PROVE EvidenceInv'
  <2>1. \A p \in audited' : Whole(vault, p)'
    BY <1>10 DEF Probed, Whole, EvidenceCall, disk, books, call
  <2>2. EvidenceCall(w)'
    BY <1>10 DEF Probed, EvidenceCall, Whole, disk, books, call
  <2> QED BY <2>1, <2>2 DEF EvidenceInv
<1>11. ASSUME NEW w \in Writers, HeadKnown(w) PROVE EvidenceInv'
  <2>1. \A p \in audited' : Whole(vault, p)'
    BY <1>11 DEF HeadKnown, Whole, EvidenceCall, disk, books, call
  <2>2. EvidenceCall(w)'
    BY <1>11 DEF HeadKnown, EvidenceCall, Whole, disk, books, call
  <2> QED BY <2>1, <2>2 DEF EvidenceInv
<1>12. ASSUME NEW w \in Writers, Replay(w) PROVE EvidenceInv'
  <2>1. \A p \in audited' : Whole(vault, p)'
    BY <1>12 DEF Replay, Whole, EvidenceCall, disk, books, call
  <2>2. EvidenceCall(w)'
    BY <1>12 DEF Replay, EvidenceCall, Whole, disk, books, call
  <2> QED BY <2>1, <2>2 DEF EvidenceInv
<1>13. ASSUME NEW w \in Writers, SnapshotTaken(w) PROVE EvidenceInv'
  <2>3. Target(w)' = Target(w) /\ Changed(w)' = Changed(w) /\ Owned(w)' = Owned(w)
    BY <1>13 DEF SnapshotTaken, Target, Changed, Owned, disk, books, call
  <2>1. \A p \in audited' : Whole(vault, p)'
    BY <1>13, <2>3 DEF SnapshotTaken, Whole, EvidenceCall, disk, books, call
  <2>2. EvidenceCall(w)'
    BY <1>13, <2>3 DEF SnapshotTaken, EvidenceCall, Whole, disk, books, call
  <2> QED BY <2>1, <2>2 DEF EvidenceInv
<1>14. ASSUME NEW w \in Writers, Check(w) PROVE EvidenceInv'
  <2>3. Target(w)' = Target(w) /\ Changed(w)' = Changed(w) /\ Owned(w)' = Owned(w)
    BY <1>14 DEF Check, Target, Changed, Owned, disk, books, call
  <2>4. Changed(w) = {} => \A n \in Notes : snap[w][n] = Target(w)[n]
    BY DEF Changed
  <2>1. \A p \in audited' : Whole(vault, p)'
    BY <1>14, <2>3, <2>4 DEF Check, Whole, EvidenceCall, disk, books, call
  <2>2. EvidenceCall(w)'
    BY <1>14, <2>3, <2>4 DEF Check, EvidenceCall, Whole, disk, books, call
  <2> QED BY <2>1, <2>2 DEF EvidenceInv
<1>15. ASSUME NEW w \in Writers, StageFails(w) PROVE EvidenceInv'
  <2>3. Target(w)' = Target(w) /\ Changed(w)' = Changed(w) /\ Owned(w)' = Owned(w)
    BY <1>15 DEF StageFails, Target, Changed, Owned, disk, books, call
  <2>1. \A p \in audited' : Whole(vault, p)'
    BY <1>15, <2>3 DEF StageFails, Whole, EvidenceCall, disk, books, call
  <2>2. EvidenceCall(w)'
    BY <1>15, <2>3 DEF StageFails, EvidenceCall, Whole, disk, books, call
  <2> QED BY <2>1, <2>2 DEF EvidenceInv
<1>16. ASSUME NEW w \in Writers, Staged(w) PROVE EvidenceInv'
  <2>3. Target(w)' = Target(w) /\ Changed(w)' = Changed(w) /\ Owned(w)' = Owned(w)
    BY <1>16 DEF Staged, Target, Changed, Owned, disk, books, call
  <2>1. \A p \in audited' : Whole(vault, p)'
    BY <1>16, <2>3 DEF Staged, Whole, EvidenceCall, disk, books, call
  <2>2. EvidenceCall(w)'
    BY <1>16, <2>3 DEF Staged, EvidenceCall, Whole, disk, books, call
  <2> QED BY <2>1, <2>2 DEF EvidenceInv
<1>17. ASSUME NEW w \in Writers, PriorsRead(w) PROVE EvidenceInv'
  <2>3. Target(w)' = Target(w) /\ Changed(w)' = Changed(w) /\ Owned(w)' = Owned(w)
    BY <1>17 DEF PriorsRead, Target, Changed, Owned, disk, books, call
  <2>1. \A p \in audited' : Whole(vault, p)'
    BY <1>17, <2>3 DEF PriorsRead, Whole, EvidenceCall, disk, books, call
  <2>2. EvidenceCall(w)'
    BY <1>17, <2>3 DEF PriorsRead, EvidenceCall, Whole, disk, books, call
  <2> QED BY <2>1, <2>2 DEF EvidenceInv
<1>18. ASSUME NEW w \in Writers, Renamed(w) PROVE EvidenceInv'
  <2>3. Target(w)' = Target(w) /\ Changed(w)' = Changed(w) /\ Owned(w)' = Owned(w)
    BY <1>18 DEF Renamed, Target, Changed, Owned, disk, books, call
  <2>4. \A n \in Notes \ Changed(w) : snap[w][n] = Target(w)[n]
    BY DEF Changed
  <2>1. \A p \in audited' : Whole(vault, p)'
    BY <1>18, <2>3, <2>4 DEF Renamed, Whole, EvidenceCall, disk, books, call
  <2>2. EvidenceCall(w)'
    BY <1>18, <2>3, <2>4 DEF Renamed, EvidenceCall, Whole, disk, books, call
  <2> QED BY <2>1, <2>2 DEF EvidenceInv
<1>19. ASSUME NEW w \in Writers, RolledBack(w) PROVE EvidenceInv'
  <2>3. Target(w)' = Target(w) /\ Changed(w)' = Changed(w) /\ Owned(w)' = Owned(w)
    BY <1>19 DEF RolledBack, Target, Changed, Owned, disk, books, call
  <2>1. \A p \in audited' : Whole(vault, p)'
    BY <1>19, <2>3 DEF RolledBack, Whole, EvidenceCall, disk, books, call
  <2>2. EvidenceCall(w)'
    BY <1>19, <2>3 DEF RolledBack, EvidenceCall, Whole, disk, books, call
  <2> QED BY <2>1, <2>2 DEF EvidenceInv
<1>20. ASSUME NEW w \in Writers, Audit(w) PROVE EvidenceInv'
  <2>3. plan[w] \in Plans /\ \A n \in Readable : Target(w)[n] \subseteq vault[n]
    BY <1>20 DEF Audit, EvidenceCall, IType, Planned
  <2>4. Whole(vault, plan[w])
    BY <2>3 DEF Whole, Targets, Target, Projected
  <2>5. audited' \subseteq audited \cup {plan[w]} /\ vault' = vault
    BY <1>20 DEF Audit, disk
  <2>1. \A p \in audited' : Whole(vault, p)'
    BY <2>4, <2>5 DEF Whole
  <2>2. EvidenceCall(w)'
    BY <1>20, <2>3, <2>4 DEF Audit, EvidenceCall, Whole, disk, books, call
  <2> QED BY <2>1, <2>2 DEF EvidenceInv
<1>21. ASSUME NEW w \in Writers, Record(w) PROVE EvidenceInv'
  <2>1. \A p \in audited' : Whole(vault, p)'
    BY <1>21 DEF Record, Whole, EvidenceCall, disk, books, call
  <2>2. EvidenceCall(w)'
    BY <1>21 DEF Record, EvidenceCall, Whole, disk, books, call
  <2> QED BY <2>1, <2>2 DEF EvidenceInv
<1>22. ASSUME NEW w \in Writers, Settle(w) PROVE EvidenceInv'
  <2>1. \A p \in audited' : Whole(vault, p)'
    BY <1>22 DEF Settle, Whole, EvidenceCall, disk, books, call
  <2>2. EvidenceCall(w)'
    BY <1>22 DEF Settle, EvidenceCall, Whole, disk, books, call
  <2> QED BY <2>1, <2>2 DEF EvidenceInv
<1>23. ASSUME NEW w \in Writers, Return(w) PROVE EvidenceInv'
  <2>1. \A p \in audited' : Whole(vault, p)'
    BY <1>23 DEF Return, Whole, EvidenceCall, disk, books, call
  <2>2. EvidenceCall(w)'
    BY <1>23 DEF Return, EvidenceCall, Whole, disk, books, call
  <2> QED BY <2>1, <2>2 DEF EvidenceInv
<1>24. ASSUME NEW p \in Plans, SettleRejected(p) PROVE EvidenceInv'
  BY <1>24 DEF SettleRejected, EvidenceInv, EvidenceCall, Whole, Target, Changed, Owned, disk, call
<1>25. ASSUME NEW n \in Notes, NEW e \in Edits, OwnerTypes(n, e) PROVE EvidenceInv'
  <2>1. \A m \in Notes : Grown(vault[m], vault'[m])
    BY <1>25 DEF OwnerTypes
  <2>2. \A p \in audited' : Whole(vault, p)'
    BY <2>1, <1>25 DEF OwnerTypes, Whole, books
  <2>3. ASSUME NEW w \in Writers PROVE EvidenceCall(w)'
    <3>1. /\ Target(w)' = Target(w) /\ Changed(w)' = Changed(w) /\ Owned(w)' = Owned(w)
          /\ audited' = audited /\ pc' = pc /\ UNCHANGED call
      BY <1>25 DEF OwnerTypes, Target, Changed, Owned, books, call
    <3> QED BY <2>1, <3>1 DEF EvidenceCall, Whole, call
  <2> QED BY <2>2, <2>3 DEF EvidenceInv
<1>26. CASE Crash
  BY <1>26 DEF Crash, EvidenceInv, EvidenceCall, Whole, disk, books
<1>27. CASE UNCHANGED vars
  BY <1>27 DEF vars, EvidenceInv, EvidenceCall, Whole, Target, Changed, Owned, disk, books, call
<1> QED
  BY <1>1, <1>2, <1>3, <1>4, <1>5, <1>6, <1>7, <1>8, <1>9, <1>10, <1>11,
     <1>12, <1>13, <1>14, <1>15, <1>16, <1>17, <1>18, <1>19, <1>20, <1>21,
     <1>22, <1>23, <1>24, <1>25, <1>26, <1>27 DEF Next

\* When calls do not overlap, a record of a commit is the proof of it: whatever
\* edits during it, crashes between two renames, failed renames, restores or records,
\* and retries there were, the plan is in every note of it that can be read, and
\* stays there.
THEOREM EvidenceStaysTruthful == ASSUME Alone PROVE Spec => []EvidenceIsTruthful
<1>1. Spec => []IType
  BY InitType, StepType, PTL DEF Spec
<1>2. IType /\ EvidenceInv /\ [Next]_vars => EvidenceInv'
  BY EvidenceStep
<1>3. Spec => []EvidenceInv
  BY <1>1, <1>2, EvidenceInit, PTL DEF Spec
<1>4. RecordsInOrder /\ EvidenceInv => EvidenceIsTruthful
  BY DEF RecordsInOrder, EvidenceInv, Whole, EvidenceIsTruthful
<1> QED BY <1>3, <1>4, RecordsStayInOrder, PTL

Based == {"replay", "snapshot", "check", "stage", "priors", "commit_failed"}

\* The base a call resolved is the vault until its first rename, and the notes a
\* rollback has restored, or never renamed, are as the base has them, but for edits.
FailureCall(w) ==
  /\ \A n \in Readable :
       /\ pc[w] = "head" /\ n \notin left[w] => Grown(base[w][n], vault[n])
       /\ pc[w] \in Based /\ plan[w] \notin Pinned => Grown(base[w][n], vault[n])
       /\ pc[w] \in Renaming => base[w][n] = snap[w][n]
       /\ pc[w] = "rollback" /\ n \notin done[w] => Grown(snap[w][n], vault[n])
  /\ pc[w] \in Writing => base[w] = snap[w]

FailureInv == \A w \in Writers : FailureCall(w)

LEMMA FailureStep ==
  ASSUME Alone, "restore" \notin Faults
  PROVE  IType /\ EvidenceInv /\ FailureInv /\ [Next]_vars => FailureInv'
<1> SUFFICES ASSUME IType, EvidenceInv, FailureInv, [Next]_vars PROVE FailureInv'
  OBVIOUS
<1>t. /\ vault \in [Notes -> SUBSET Marks]
      /\ pc \in [Writers -> Steps \cup Outcomes]
      /\ plan \in [Writers -> Plans \cup {NoPlan}]
      /\ base \in [Writers -> [Notes -> SUBSET Marks]]
      /\ snap \in [Writers -> [Notes -> SUBSET Marks]]
      /\ prior \in [Writers -> [Notes -> SUBSET Marks]]
      /\ left \in [Writers -> SUBSET Notes] /\ done \in [Writers -> SUBSET Notes]
  BY DEF IType, TypeOK, Vaults
<1>r. /\ \A n \in Notes : \A read \in Reads(n) : n \in Readable => read = vault[n]
      /\ Readable \subseteq Notes
  BY ReadsOf DEF IType, Readable
<1>k. /\ \A w \in Writers : EvidenceCall(w) /\ FailureCall(w)
      /\ \A v, w \in Writers : v = w
      /\ "restore" \notin Faults
  BY DEF EvidenceInv, FailureInv, Alone
<1>s. Readable \subseteq Notes
  BY <1>r
<1> USE <1>t, <1>k, <1>s DEF Based, Grown, Reading, Writing, Renaming, NotYet, Goto, Todo, Succeed, Outcomes
<1>1. ASSUME NEW w \in Writers, NEW p \in Plans, Begin(w, p) PROVE FailureInv'
  <2>1. FailureCall(w)'
    BY <1>1 DEF Begin, FailureCall, EvidenceCall, disk, books, call
  <2> QED BY <2>1 DEF FailureInv
<1>2. ASSUME NEW w \in Writers, NEW n \in Notes, Probe(w, n) PROVE FailureInv'
  <2>1. FailureCall(w)'
    BY <1>2 DEF Probe, FailureCall, EvidenceCall, disk, books, call
  <2> QED BY <2>1 DEF FailureInv
<1>3. ASSUME NEW w \in Writers, NEW n \in Notes, ReadHead(w, n) PROVE FailureInv'
  <2>1. FailureCall(w)'
    BY <1>3, <1>r DEF ReadHead, FailureCall, EvidenceCall, disk, books, call
  <2> QED BY <2>1 DEF FailureInv
<1>4. ASSUME NEW w \in Writers, NEW n \in Notes, ReadNote(w, n) PROVE FailureInv'
  <2>1. FailureCall(w)'
    BY <1>4, <1>r DEF ReadNote, FailureCall, EvidenceCall, disk, books, call
  <2> QED BY <2>1 DEF FailureInv
<1>5. ASSUME NEW w \in Writers, NEW n \in Notes, Stage(w, n) PROVE FailureInv'
  <2>1. FailureCall(w)'
    BY <1>5 DEF Stage, FailureCall, EvidenceCall, disk, books, call
  <2> QED BY <2>1 DEF FailureInv
<1>6. ASSUME NEW w \in Writers, NEW n \in Notes, ReadPrior(w, n) PROVE FailureInv'
  <2>1. FailureCall(w)'
    BY <1>6, <1>r DEF ReadPrior, FailureCall, EvidenceCall, disk, books, call
  <2> QED BY <2>1 DEF FailureInv
<1>7. ASSUME NEW w \in Writers, NEW n \in Notes, Rename(w, n) PROVE FailureInv'
  <2>1. FailureCall(w)'
    BY <1>7 DEF Rename, FailureCall, EvidenceCall, disk, books, call
  <2> QED BY <2>1 DEF FailureInv
<1>8. ASSUME NEW w \in Writers, NEW n \in Notes, RenameFails(w, n) PROVE FailureInv'
  <2>1. FailureCall(w)'
    BY <1>8 DEF RenameFails, FailureCall, EvidenceCall, disk, books, call
  <2> QED BY <2>1 DEF FailureInv
<1>9. ASSUME NEW w \in Writers, NEW n \in Notes, Restore(w, n) PROVE FailureInv'
  <2>1. FailureCall(w)'
    BY <1>9 DEF Restore, FailureCall, EvidenceCall, disk, books, call
  <2> QED BY <2>1 DEF FailureInv
<1>10. ASSUME NEW w \in Writers, Probed(w) PROVE FailureInv'
  <2>1. FailureCall(w)'
    BY <1>10 DEF Probed, FailureCall, EvidenceCall, disk, books, call
  <2> QED BY <2>1 DEF FailureInv
<1>11. ASSUME NEW w \in Writers, HeadKnown(w) PROVE FailureInv'
  <2>1. FailureCall(w)'
    BY <1>11 DEF HeadKnown, FailureCall, EvidenceCall, disk, books, call
  <2> QED BY <2>1 DEF FailureInv
<1>12. ASSUME NEW w \in Writers, Replay(w) PROVE FailureInv'
  <2>1. FailureCall(w)'
    BY <1>12 DEF Replay, FailureCall, EvidenceCall, disk, books, call
  <2> QED BY <2>1 DEF FailureInv
<1>13. ASSUME NEW w \in Writers, SnapshotTaken(w) PROVE FailureInv'
  <2>1. FailureCall(w)'
    BY <1>13 DEF SnapshotTaken, FailureCall, EvidenceCall, disk, books, call
  <2> QED BY <2>1 DEF FailureInv
<1>14. ASSUME NEW w \in Writers, Check(w) PROVE FailureInv'
  <2>1. FailureCall(w)'
    BY <1>14 DEF Check, FailureCall, EvidenceCall, disk, books, call
  <2> QED BY <2>1 DEF FailureInv
<1>15. ASSUME NEW w \in Writers, StageFails(w) PROVE FailureInv'
  <2>1. FailureCall(w)'
    BY <1>15 DEF StageFails, FailureCall, EvidenceCall, disk, books, call
  <2> QED BY <2>1 DEF FailureInv
<1>16. ASSUME NEW w \in Writers, Staged(w) PROVE FailureInv'
  <2>1. FailureCall(w)'
    BY <1>16 DEF Staged, FailureCall, EvidenceCall, disk, books, call
  <2> QED BY <2>1 DEF FailureInv
<1>17. ASSUME NEW w \in Writers, PriorsRead(w) PROVE FailureInv'
  <2>1. FailureCall(w)'
    BY <1>17 DEF PriorsRead, FailureCall, EvidenceCall, disk, books, call
  <2> QED BY <2>1 DEF FailureInv
<1>18. ASSUME NEW w \in Writers, Renamed(w) PROVE FailureInv'
  <2>1. FailureCall(w)'
    BY <1>18 DEF Renamed, FailureCall, EvidenceCall, disk, books, call
  <2> QED BY <2>1 DEF FailureInv
<1>19. ASSUME NEW w \in Writers, RolledBack(w) PROVE FailureInv'
  <2>1. FailureCall(w)'
    BY <1>19 DEF RolledBack, FailureCall, EvidenceCall, disk, books, call
  <2> QED BY <2>1 DEF FailureInv
<1>20. ASSUME NEW w \in Writers, Audit(w) PROVE FailureInv'
  <2>1. FailureCall(w)'
    BY <1>20 DEF Audit, FailureCall, EvidenceCall, disk, books, call
  <2> QED BY <2>1 DEF FailureInv
<1>21. ASSUME NEW w \in Writers, Record(w) PROVE FailureInv'
  <2>1. FailureCall(w)'
    BY <1>21 DEF Record, FailureCall, EvidenceCall, disk, books, call
  <2> QED BY <2>1 DEF FailureInv
<1>22. ASSUME NEW w \in Writers, Settle(w) PROVE FailureInv'
  <2>1. FailureCall(w)'
    BY <1>22 DEF Settle, FailureCall, EvidenceCall, disk, books, call
  <2> QED BY <2>1 DEF FailureInv
<1>23. ASSUME NEW w \in Writers, Return(w) PROVE FailureInv'
  <2>1. FailureCall(w)'
    BY <1>23 DEF Return, FailureCall, EvidenceCall, disk, books, call
  <2> QED BY <2>1 DEF FailureInv
<1>24. ASSUME NEW p \in Plans, SettleRejected(p) PROVE FailureInv'
  BY <1>24 DEF SettleRejected, FailureInv, FailureCall, disk, call
<1>25. ASSUME NEW n \in Notes, NEW e \in Edits, OwnerTypes(n, e) PROVE FailureInv'
  <2>1. \A m \in Notes : Grown(vault[m], vault'[m])
    BY <1>25 DEF OwnerTypes
  <2> QED BY <2>1, <1>25 DEF OwnerTypes, FailureInv, FailureCall, call
<1>26. CASE Crash
  BY <1>26 DEF Crash, FailureInv, FailureCall, disk
<1>27. CASE UNCHANGED vars
  BY <1>27 DEF vars, FailureInv, FailureCall, disk, call
<1> QED
  BY <1>1, <1>2, <1>3, <1>4, <1>5, <1>6, <1>7, <1>8, <1>9, <1>10, <1>11,
     <1>12, <1>13, <1>14, <1>15, <1>16, <1>17, <1>18, <1>19, <1>20, <1>21,
     <1>22, <1>23, <1>24, <1>25, <1>26, <1>27 DEF Next

\* A commit that fails leaves every note that can be read as it was in the revision
\* it was made against, but for edits, at whichever of its renames it failed, if no
\* other call is beside it and restoring a file does not fail as well.
THEOREM FailuresRestore ==
  ASSUME Alone, "restore" \notin Faults
  PROVE  Spec => []FailureRestores
<1>1. Spec => []IType
  BY InitType, StepType, PTL DEF Spec
<1>2. IType /\ EvidenceInv /\ [Next]_vars => EvidenceInv'
  BY EvidenceStep
<1>3. Spec => []EvidenceInv
  BY <1>1, <1>2, EvidenceInit, PTL DEF Spec
<1>4. Init => FailureInv
  BY DEF Init, NoCall, FailureInv, FailureCall, Based, Renaming, Writing
<1>5. IType /\ EvidenceInv /\ FailureInv /\ [Next]_vars => FailureInv'
  BY FailureStep
<1>6. Spec => []FailureInv
  BY <1>1, <1>3, <1>4, <1>5, PTL DEF Spec
<1>7. IType /\ FailureInv => FailureRestores
  BY DEF IType, TypeOK, Vaults, FailureInv, FailureCall, Based, FailureRestores
<1> QED BY <1>1, <1>6, <1>7, PTL
=============================================================================
