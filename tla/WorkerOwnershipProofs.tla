----------------------- MODULE WorkerOwnershipProofs -----------------------
(***************************************************************************)
(* Proofs about WorkerOwnership, for any number of processes, launches and *)
(* faults.  What the supervisor is sure of, whatever overlaps, is Orderly; *)
(* what a worker may believe of the lock file it made is Named.            *)
(***************************************************************************)
EXTENDS WorkerOwnership, TLAPS

\* An exit is heard of a process that is gone; a worker nobody asked to stop is the
\* child of an app that is up; a restart waits only when the child is gone.
Orderly ==
  /\ \A w \in exits : ~Live(w)
  /\ main = "quitting" => stopped
  /\ timer => /\ main = "up" /\ ~stopped /\ child \notin exits
               /\ \A w \in Pids : w = child => ~Live(w)
  /\ \A w \in Pids : Live(w) /\ w \notin told => main = "up" /\ ~stopped /\ w = child

\* The lock is what the progress of its maker says, unless the file was removed.
Named ==
  /\ \A w \in Pids : phase[w] = "name" => w \in robbed \/ lock = <<w, FALSE>>
  /\ \A w \in held : phase[w] \in {"boot", "connect", "ready", "hung", "closing"}
  /\ LockIsOwn

IInv == TypeOK /\ Orderly /\ Named

-----------------------------------------------------------------------------
(* Type correctness *)

LEMMA InitInv == Init => IInv
<1> SUFFICES ASSUME Init PROVE IInv
  OBVIOUS
<1>1. lock \in (Pids \X BOOLEAN) \cup {NoLock} /\ phase \in [Pids -> Phases]
  BY DEF Init, Phases
<1>2. crashes \in 0..Threshold /\ crashes < Threshold /\ launches \in 0..MaxLaunches /\ faults \in 0..MaxFaults
  BY OwnershipAssumption DEF Init
<1>3. \A w \in Pids : phase[w] = "none"
  BY DEF Init
<1>4. TypeOK
  BY <1>1, <1>2 DEF Init, TypeOK
<1>5. Orderly
  BY <1>3 DEF Init, Orderly, Live
<1>6. Named
  BY <1>3 DEF Init, Named, LockIsOwn
<1> QED BY <1>4, <1>5, <1>6 DEF IInv

LEMMA FaultType == faults \in 0..MaxFaults /\ Fault => faults' \in 0..MaxFaults
BY OwnershipAssumption DEF Fault

\* A step of a process, a death included, keeps the types.
LEMMA TypeWork ==
  ASSUME TypeOK, NEW w \in Pids, Work(w) \/ SpineFails(w) \/ Commit(w) \/ Committed(w) \/ Dies(w)
  PROVE  TypeOK'
<1>1. CASE Open(w)
  <2>1. phase' \in [Pids -> Phases] /\ <<w, FALSE>> \in Pids \X BOOLEAN
    BY <1>1 DEF Open, TypeOK, Goto, Phases
  <2>2. lock' \in (Pids \X BOOLEAN) \cup {NoLock}
    BY <1>1, <2>1 DEF Open, TypeOK
  <2>3. faults' \in 0..MaxFaults
    BY <1>1, FaultType DEF Open, TypeOK
  <2> QED BY <1>1, <2>1, <2>2, <2>3 DEF Open, TypeOK, supervisor
<1>2. CASE ReadHolder(w)
  BY <1>2, OwnershipAssumption DEF ReadHolder, TypeOK, Goto, Phases, supervisor, file
<1>3. CASE Unlink(w)
  BY <1>3, OwnershipAssumption DEF Unlink, TypeOK, Goto, Phases, supervisor
<1>4. CASE WriteHolder(w)
  <2>1. phase' \in [Pids -> Phases] /\ <<w, TRUE>> \in Pids \X BOOLEAN
    BY <1>4 DEF WriteHolder, TypeOK, Goto, Phases
  <2>2. lock' \in (Pids \X BOOLEAN) \cup {NoLock}
    BY <1>4, <2>1 DEF WriteHolder, TypeOK
  <2>3. faults' \in 0..MaxFaults
    BY <1>4, FaultType DEF WriteHolder, TypeOK
  <2> QED BY <1>4, <2>1, <2>2, <2>3 DEF WriteHolder, TypeOK, supervisor
<1>5. CASE Boot(w)
  BY <1>5, OwnershipAssumption DEF Boot, TypeOK, Goto, Fault, Phases, supervisor, file
<1>6. CASE Stop(w)
  BY <1>6, OwnershipAssumption DEF Stop, Gone, TypeOK, Goto, Phases, supervisor
<1>7. CASE Closed(w)
  BY <1>7, OwnershipAssumption DEF Closed, Gone, TypeOK, Goto, Phases, supervisor
<1>8. CASE Commit(w) \/ Committed(w) \/ SpineFails(w)
  BY <1>8, OwnershipAssumption DEF Commit, Committed, SpineFails, Fault, TypeOK, supervisor
<1>10. CASE Connect(w)
  BY <1>10, OwnershipAssumption DEF Connect, TypeOK, Goto, Phases, supervisor
<1>9. CASE Dies(w)
  BY <1>9, OwnershipAssumption DEF Dies, Gone, Fault, TypeOK, Goto, Phases, supervisor
<1> QED BY <1>1, <1>2, <1>3, <1>4, <1>5, <1>6, <1>7, <1>8, <1>9, <1>10 DEF Work

LEMMA TypeStep == TypeOK /\ [Next]_vars => TypeOK'
<1> SUFFICES ASSUME TypeOK, [Next]_vars PROVE TypeOK'
  OBVIOUS
<1>1. ASSUME NEW w \in Pids, Work(w) \/ SpineFails(w) \/ Commit(w) \/ Committed(w) \/ Dies(w) PROVE TypeOK'
  BY <1>1, TypeWork
<1>2. CASE Launch
  <2>1. PICK w \in Pids : Fork(w)
    BY <1>2 DEF Launch
  <2>2. phase' \in [Pids -> Phases] /\ child' \in Pids /\ sup' = "starting"
    BY <2>1 DEF Fork, TypeOK, Goto, Phases
  <2>3. launches' \in 0..MaxLaunches /\ crashes' \in 0..Threshold /\ crashes' < Threshold
    BY <1>2, OwnershipAssumption DEF Launch, TypeOK
  <2> QED BY <1>2, <2>2, <2>3 DEF Launch, TypeOK, file
<1>3. CASE Hear
  BY <1>3, OwnershipAssumption DEF Hear, TypeOK, file
<1>4. ASSUME NEW w \in Pids, HearExit(w) PROVE TypeOK'
  <2>1. crashes' \in 0..Threshold /\ (stopped' \/ crashes' < Threshold)
    <3>1. CASE UNCHANGED supervisor
      BY <3>1 DEF TypeOK, supervisor
    <3>2. CASE ~stopped /\ crashes' = crashes + 1 /\ (stopped' \/ crashes' < Threshold)
      BY <3>2, OwnershipAssumption DEF TypeOK
    <3> QED BY <1>4, <3>1, <3>2 DEF HearExit
  <2> QED BY <1>4, <2>1 DEF HearExit, TypeOK, file, supervisor
<1>5. CASE Forget
  BY <1>5, OwnershipAssumption DEF Forget, TypeOK, file
<1>6. CASE Restart
  BY <1>6, OwnershipAssumption DEF Restart, Fork, TypeOK, Goto, Phases, file
<1>7. CASE Quit
  BY <1>7, OwnershipAssumption DEF Quit, TypeOK, file
<1>8. CASE MainGone
  <2>1. faults' \in 0..MaxFaults
    BY <1>8, FaultType DEF MainGone, TypeOK
  <2> QED BY <1>8, <2>1 DEF MainGone, TypeOK, file
<1>9. CASE UNCHANGED vars
  BY <1>9 DEF TypeOK, vars, file, supervisor
<1> QED BY <1>1, <1>2, <1>3, <1>4, <1>5, <1>6, <1>7, <1>8, <1>9 DEF Next, Supervise

-----------------------------------------------------------------------------
(* The supervisor's order *)

\* A process that forks is the new child; nothing else comes to life.
LEMMA ForkFacts ==
  ASSUME TypeOK, NEW w \in Pids, Fork(w)
  PROVE  /\ child' = w /\ w \notin exits
         /\ \A v \in Pids \ {w} : phase'[v] = phase[v]
         /\ phase'[w] = "forked" /\ ~Live(w)
BY DEF Fork, Goto, TypeOK

\* A process that works or dies does not touch the others or the supervisor; when it
\* is gone, it is gone from every set.
LEMMA WorkFacts ==
  ASSUME TypeOK, NEW w \in Pids, Work(w) \/ Dies(w)
  PROVE  /\ \A v \in Pids \ {w} : phase'[v] = phase[v]
         /\ Live(w) /\ UNCHANGED supervisor
         /\ exits' = exits \/ (exits' = exits \cup {w} /\ phase'[w] = "none")
         /\ told' = IF phase'[w] = "none" THEN told \ {w} ELSE told
<1>1. CASE Open(w) \/ ReadHolder(w) \/ Unlink(w) \/ WriteHolder(w) \/ Boot(w) \/ Connect(w)
  BY <1>1 DEF Open, ReadHolder, Unlink, WriteHolder, Boot, Connect, Goto, Live, TypeOK, supervisor
<1>2. CASE Stop(w) \/ Closed(w) \/ Dies(w)
  BY <1>2 DEF Stop, Closed, Dies, Gone, Goto, Live, TypeOK, supervisor
<1> QED BY <1>1, <1>2 DEF Work

LEMMA OrderlyStep == TypeOK /\ Orderly /\ [Next]_vars => Orderly'
<1> SUFFICES ASSUME TypeOK, Orderly, [Next]_vars PROVE Orderly'
  OBVIOUS
<1>1. ASSUME NEW w \in Pids, Work(w) \/ SpineFails(w) \/ Commit(w) \/ Committed(w) \/ Dies(w) PROVE Orderly'
  <2>1. CASE Work(w) \/ Dies(w)
    BY <2>1, WorkFacts DEF Orderly, Live, TypeOK, supervisor
  <2>2. CASE Commit(w) \/ Committed(w) \/ SpineFails(w)
    BY <2>2 DEF Commit, Committed, SpineFails, Orderly, Live, supervisor
  <2> QED BY <1>1, <2>1, <2>2
<1>2. CASE Launch
  <2>1. PICK w \in Pids : Fork(w)
    BY <1>2 DEF Launch
  <2> QED BY <1>2, <2>1, ForkFacts DEF Launch, Orderly, Live, TypeOK
<1>3. CASE Hear
  BY <1>3 DEF Hear, Orderly, Live
<1>4. ASSUME NEW w \in Pids, HearExit(w) PROVE Orderly'
  <2>1. ~Live(w) /\ UNCHANGED <<phase, told>> /\ exits' \subseteq exits
    BY <1>4 DEF HearExit, Orderly
  <2>2. CASE UNCHANGED supervisor
    BY <2>1, <2>2 DEF Orderly, Live, supervisor
  <2>3. CASE ~stopped /\ w = child /\ UNCHANGED main /\ (stopped' \/ child' = child)
             /\ (timer' = timer \/ (timer' /\ ~stopped' /\ child' = child))
    <3>1. main = "up"
      BY <1>4, <2>3 DEF HearExit, Orderly, TypeOK
    <3>2. ~timer
      BY <1>4, <2>3 DEF HearExit, Orderly
    <3>3. \A v \in Pids : Live(v) => v \in told
      BY <2>1, <2>3 DEF Orderly
    <3> QED BY <1>4, <2>1, <2>3, <3>1, <3>2, <3>3 DEF HearExit, Orderly, Live
  <2> QED BY <1>4, <2>2, <2>3 DEF HearExit
<1>5. CASE Forget
  BY <1>5 DEF Forget, Orderly, Live
<1>6. CASE Restart
  <2>1. PICK w \in Pids : Fork(w)
    BY <1>6 DEF Restart
  <2> QED BY <1>6, <2>1, ForkFacts DEF Restart, Orderly, Live, TypeOK
<1>7. CASE Quit
  BY <1>7 DEF Quit, Orderly, Live
<1>8. CASE MainGone
  BY <1>8 DEF MainGone, Orderly, Live
<1>9. CASE UNCHANGED vars
  BY <1>9 DEF Orderly, Live, vars, supervisor
<1> QED BY <1>1, <1>2, <1>3, <1>4, <1>5, <1>6, <1>7, <1>8, <1>9 DEF Next, Supervise

-----------------------------------------------------------------------------
(* The lock file *)

\* A process makes the file where there is none, names itself in what it made, gives
\* back only its own, and is noted as the robber of whoever had the file it removes.
LEMMA NamedStep == TypeOK /\ Named /\ [Next]_vars => Named'
<1> SUFFICES ASSUME TypeOK, Named, [Next]_vars PROVE Named'
  OBVIOUS
<1>n. \A w \in Pids, b \in BOOLEAN : NoLock # <<w, b>>
  BY OwnershipAssumption
<1>h. held \subseteq Pids /\ robbed \subseteq Pids /\ phase \in [Pids -> Phases]
  BY DEF TypeOK
<1> USE DEF Named, LockIsOwn, Goto, supervisor
<1>1. ASSUME NEW w \in Pids, Open(w) PROVE Named'
  BY <1>1, <1>n, <1>h DEF Open
<1>2. ASSUME NEW w \in Pids, ReadHolder(w) PROVE Named'
  BY <1>2, <1>h DEF ReadHolder, file
<1>3. ASSUME NEW w \in Pids, Unlink(w) PROVE Named'
  <2>1. \A v \in Pids : v \in robbed => v \in robbed'
    BY <1>3 DEF Unlink
  <2>2. \A v \in held : v \notin robbed' => lock # <<v, TRUE>>
    BY <1>3, <1>h DEF Unlink
  <2>3. \A v \in Pids : phase[v] = "name" /\ v \notin robbed' => lock # <<v, FALSE>>
    BY <1>3 DEF Unlink
  <2>4. held' = held /\ phase'[w] = "again" /\ phase[w] = "stale"
        /\ \A v \in Pids \ {w} : phase'[v] = phase[v]
    BY <1>3, <1>h DEF Unlink
  <2> QED BY <2>1, <2>2, <2>3, <2>4, <1>h
<1>4. ASSUME NEW w \in Pids, WriteHolder(w) PROVE Named'
  <2>1. phase[w] = "name" /\ phase'[w] = "boot" /\ robbed' = robbed
        /\ \A v \in Pids \ {w} : phase'[v] = phase[v]
    BY <1>4, <1>h DEF WriteHolder
  <2>2. \/ held' = held /\ lock' = lock
        \/ held' = held \cup {w} /\ lock' = IF lock = <<w, FALSE>> THEN <<w, TRUE>> ELSE lock
    BY <1>4 DEF WriteHolder
  <2>3. ASSUME NEW v \in Pids, phase'[v] = "name" PROVE v \in robbed' \/ lock' = <<v, FALSE>>
    <3>1. v # w /\ phase[v] = "name" /\ <<v, FALSE>> # <<w, FALSE>>
      BY ONLY <2>1, <2>3
    <3>2. v \in robbed \/ lock = <<v, FALSE>>
      BY <3>1
    <3> QED BY ONLY <2>1, <2>2, <3>1, <3>2
  <2>4. ASSUME NEW v \in held', phase'[v] # "closing", v \notin robbed' PROVE lock' = <<v, TRUE>>
    <3>1. CASE v = w
      <4>1. w \notin held /\ lock = <<w, FALSE>>
        BY <3>1, <2>1, <2>4
      <4> QED BY ONLY <2>2, <2>4, <3>1, <4>1
    <3>2. CASE v # w
      <4>1. v \in held /\ lock = <<v, TRUE>>
        BY <3>2, <2>1, <2>2, <2>4, <1>h
      <4>2. <<v, TRUE>> # <<w, FALSE>>
        BY ONLY <3>2
      <4> QED BY ONLY <2>2, <4>1, <4>2
    <3> QED BY <3>1, <3>2
  <2>5. \A v \in held' : phase'[v] \in {"boot", "connect", "ready", "hung", "closing"}
    BY <2>1, <2>2, <1>h
  <2> QED BY <2>3, <2>4, <2>5
<1>5. ASSUME NEW w \in Pids, Boot(w) \/ Connect(w) PROVE Named'
  BY <1>5, <1>h DEF Boot, Connect, file
<1>6. ASSUME NEW w \in Pids, Stop(w) PROVE Named'
  <2>1. CASE Gone(w) /\ UNCHANGED lock
    BY <2>1, <1>h DEF Gone
  <2>2. CASE /\ phase' = [phase EXCEPT ![w] = "closing"] /\ UNCHANGED <<held, robbed>>
             /\ lock' = IF w \in held /\ lock = <<w, TRUE>> THEN NoLock ELSE lock
    <3>1. ASSUME NEW v \in Pids, v # w, lock \in {<<v, TRUE>>, <<v, FALSE>>} PROVE lock' = lock
      <4>1. <<v, TRUE>> # <<w, TRUE>> /\ <<v, FALSE>> # <<w, TRUE>>
        BY ONLY <3>1
      <4> QED BY ONLY <2>2, <3>1, <4>1
    <3>2. phase'[w] = "closing" /\ \A v \in Pids \ {w} : phase'[v] = phase[v]
      BY ONLY <2>2, <1>h
    <3> QED BY <2>2, <3>1, <3>2, <1>h
  <2> QED BY <1>6, <2>1, <2>2 DEF Stop
<1>7. ASSUME NEW w \in Pids, Closed(w) \/ Dies(w) PROVE Named'
  BY <1>7, <1>h DEF Closed, Dies, Gone
<1>8. ASSUME NEW w \in Pids, Commit(w) \/ Committed(w) \/ SpineFails(w) PROVE Named'
  BY <1>8 DEF Commit, Committed, SpineFails
\* The process that is forked holds nothing.
<1>9. ASSUME NEW w \in Pids, Fork(w), UNCHANGED file PROVE Named'
  BY <1>9, <1>h, ForkFacts DEF file, Live
<1>10. CASE Launch \/ Restart
  <2>1. PICK w \in Pids : Fork(w)
    BY <1>10 DEF Launch, Restart
  <2> QED BY <1>9, <1>10, <2>1 DEF Launch, Restart
<1>11. CASE Hear \/ Forget \/ Quit \/ MainGone \/ \E w \in Pids : HearExit(w)
  BY <1>11 DEF Hear, Forget, Quit, MainGone, HearExit, file
<1>12. CASE UNCHANGED vars
  BY <1>12 DEF vars, file
<1> QED BY <1>1, <1>2, <1>3, <1>4, <1>5, <1>6, <1>7, <1>8, <1>10, <1>11, <1>12
        DEF Next, Supervise, Work

LEMMA Inductive == Spec => []IInv
<1>1. Init => IInv
  BY InitInv
<1>2. IInv /\ [Next]_vars => IInv'
  BY TypeStep, OrderlyStep, NamedStep DEF IInv
<1> QED BY <1>1, <1>2, PTL DEF Spec

-----------------------------------------------------------------------------
(* Theorems *)

\* Every state of the app, its workers and the lock is well typed, and a supervisor
\* that has not given up has counted fewer crashes than its threshold.
THEOREM OwnershipTyped == Spec => []TypeOK
BY Inductive, PTL DEF IInv

\* However often the app is opened, even over a worker it left, at most one worker has
\* not been asked to stop.
THEOREM OneStandingWorker == Spec => []OneStanding
<1>1. IInv => OneStanding
  BY DEF IInv, Orderly, OneStanding
<1> QED BY <1>1, Inductive, PTL

\* However launches overlap, a worker that believes to hold the lock is named by it until
\* it closes, unless the file was removed under it as a stale one.
THEOREM LockNamesItsHolder == Spec => []LockIsOwn
<1>1. IInv => LockIsOwn
  BY DEF IInv, Named
<1> QED BY <1>1, Inductive, PTL

\* Two workers are past the fence with a commit only when one of them is closing, which
\* gives the lock back before it stops committing, or was robbed of its file.
THEOREM OneWriterButForTwoCases == Spec => []OneWriter
<1>1. IInv => OneWriter
  <2> SUFFICES ASSUME IInv, NEW v \in commits, NEW w \in commits, {v, w} \cap robbed = {},
                      phase[v] # "closing", phase[w] # "closing"
               PROVE  v = w
    BY DEF OneWriter
  <2>1. lock = <<v, TRUE>> /\ lock = <<w, TRUE>>
    BY DEF IInv, TypeOK, Named, LockIsOwn
  <2> QED BY <2>1
<1> QED BY <1>1, Inductive, PTL
=============================================================================
