------------------------- MODULE ToolGatewayProofs -------------------------
(* What the Tool Gateway guarantees for every number of dispatchers,          *)
(* envelopes and objects, and every bound; and what the writes that are       *)
(* proposed, decided, sent and drained through it keep of their intent.       *)
EXTENDS ExternalWrites, TLAPS

\* A dispatcher that is not idle has an envelope, and one that checks the
\* authorship of a row has read one of its own object.
Occupied ==
  \A d \in Dispatchers :
    /\ pc[d] # "idle" => env[d] \in Envelopes
    /\ pc[d] = "author" => seen[d] \in CommittedRows

IType == TypeOK /\ Occupied

\* Sequences of vendor objects: a first one, one replaced, one appended.
LEMMA VendorSeq ==
  ASSUME NEW S, NEW x \in S, NEW s \in Seq(S)
  PROVE  /\ <<>> \in Seq(S) /\ <<x>> \in Seq(S) /\ Len(<<x>>) = 1
         /\ Append(s, x) \in Seq(S) /\ Append(s, x) # <<>>
         /\ s = <<>> => Append(s, x) = <<x>>
         /\ s # <<>> => /\ [s EXCEPT ![1] = x] \in Seq(S)
                        /\ [s EXCEPT ![1] = x] # <<>>
                        /\ Len([s EXCEPT ![1] = x]) = Len(s)
<1>1. /\ <<>> \in Seq(S) /\ <<x>> \in Seq(S) /\ Len(<<x>>) = 1
      /\ Append(s, x) \in Seq(S) /\ Append(s, x) # <<>>
  <2>1. Append(s, x) \in Seq(S) /\ Len(Append(s, x)) = Len(s) + 1 /\ Len(s) \in Nat
    OBVIOUS
  <2>2. Len(<<>>) = 0
    OBVIOUS
  <2> QED BY <2>1, <2>2
<1>2. ASSUME s = <<>> PROVE Append(s, x) = <<x>>
  <2>1. Len(s) = 0 /\ Len(Append(s, x)) = 1 /\ Append(s, x)[1] = x
    BY <1>2
  <2> QED BY <2>1
<1>3. ASSUME s # <<>> PROVE /\ [s EXCEPT ![1] = x] \in Seq(S)
                           /\ [s EXCEPT ![1] = x] # <<>>
                           /\ Len([s EXCEPT ![1] = x]) = Len(s)
  <2> DEFINE t == [s EXCEPT ![1] = x]
  <2>1. Len(s) \in Nat /\ Len(s) # 0 /\ DOMAIN s = 1..Len(s)
    BY <1>3
  <2>2. t \in [1..Len(s) -> S]
    BY <2>1
  <2>3. t \in Seq(S) /\ Len(t) = Len(s)
    BY <2>1, <2>2
  <2> QED BY <2>1, <2>3
<1> QED BY <1>1, <1>2, <1>3

LEMMA InitType == Init => IType
<1> SUFFICES ASSUME Init PROVE IType
  OBVIOUS
<1>v. vendor \in [Objects -> {<<>>, <<[content |-> Foreign, at |-> 0]>>}]
  BY DEF Init
<1> USE GatewayAssumption DEF Init
<1>1. vendor \in [Objects -> Seq(VendorObjects)]
  <2>1. [content |-> Foreign, at |-> 0] \in VendorObjects
    BY DEF VendorObjects, Time
  <2>2. ASSUME NEW o \in Objects PROVE vendor[o] \in Seq(VendorObjects)
    <3> DEFINE x == [content |-> Foreign, at |-> 0]
    <3>1. vendor[o] \in {<<>>, <<x>>}
      BY ONLY <1>v, <2>2
    <3>2. x \in VendorObjects /\ <<>> \in Seq(VendorObjects)
      BY ONLY <2>1, VendorSeq
    <3>3. <<x>> \in Seq(VendorObjects)
      BY ONLY <3>2, VendorSeq
    <3> QED BY ONLY <3>1, <3>2, <3>3
  <2> QED BY ONLY <1>v, <2>2
<1>2. now \in Time /\ 0 \in 0..MaxCrashes
  BY DEF Time
<1> QED BY <1>1, <1>2 DEF IType, TypeOK, Occupied, Steps, Rows, Fresh

LEMMA StepType == IType /\ [Next]_vars => IType'
<1> SUFFICES ASSUME IType, [Next]_vars PROVE IType'
  OBVIOUS
<1>s. [Next]_vars
  OBVIOUS
<1> USE GatewayAssumption DEF IType, TypeOK, Occupied, Steps, Statuses, Goto, Return,
        local, store, outside, consent, counters
<1>a. \A d \in Dispatchers : pc[d] # "idle" => Obj(d) \in Objects
  BY DEF Obj
<1>b. \A e \in Envelopes : ObjectOf[e] \in Objects /\ Committed(e, now) \in Rows
  BY DEF Committed, CommittedRows, Rows
<1>c. \A e \in Envelopes : [content |-> e, at |-> now] \in VendorObjects
  BY DEF VendorObjects
<1>d. \A code \in FaultCodes : Disposition(code) \in Statuses
  BY DEF Disposition
<1>e. NoRow \in Rows /\ Reserved \in Rows
  BY DEF Rows
<1>1. ASSUME NEW d \in Dispatchers, CheckApproval(d) PROVE IType'
  <2>1. env[d] \in Envelopes /\ pending' \subseteq Envelopes
    BY <1>1 DEF CheckApproval
  <2>2. pc' \in [Dispatchers -> Steps] /\ outcome' \in [Dispatchers -> Statuses \cup {"none"}]
    BY <1>1 DEF CheckApproval
  <2>3. Occupied'
    BY <2>1, <1>1 DEF CheckApproval
  <2> QED BY <2>1, <2>2, <2>3, <1>1 DEF CheckApproval
<1>2. ASSUME NEW d \in Dispatchers, ResolveCredential(d) PROVE IType'
  BY <1>2 DEF ResolveCredential
<1>3. ASSUME NEW d \in Dispatchers, LookupLedger(d) PROVE IType'
  BY <1>3 DEF LookupLedger, LookupFault
<1>4. ASSUME NEW d \in Dispatchers, LookupKey(d) PROVE IType'
  BY <1>4 DEF LookupKey, LookupFault
<1>5. ASSUME NEW d \in Dispatchers, LookupObject(d) PROVE IType'
  <2>1. Obj(d) \in Objects /\ row[Obj(d)] \in Rows
    BY <1>a, <1>5 DEF LookupObject
  <2>2. IsCommitted(row[Obj(d)]) => row[Obj(d)] \in CommittedRows
    BY <2>1 DEF IsCommitted, Rows, NoRow, Reserved
  <2>3. seen' \in [Dispatchers -> {NoRow} \cup CommittedRows]
    BY <2>2, <1>5 DEF LookupObject
  <2>4. pc' \in [Dispatchers -> Steps] /\ outcome' \in [Dispatchers -> Statuses \cup {"none"}]
    BY <1>5 DEF LookupObject, LookupFault
  <2>5. Occupied'
    BY <2>2, <1>5 DEF LookupObject, LookupFault
  <2> QED BY <2>3, <2>4, <2>5, <1>5 DEF LookupObject
<1>6. ASSUME NEW d \in Dispatchers, CheckAuthor(d) PROVE IType'
  BY <1>6 DEF CheckAuthor
<1>7. ASSUME NEW d \in Dispatchers, Update(d) PROVE IType'
  <2>1. env[d] \in Envelopes /\ Obj(d) \in Objects
    BY <1>a, <1>7 DEF Update
  <2>2. vendor[Obj(d)] \in Seq(VendorObjects) /\ [content |-> env[d], at |-> now] \in VendorObjects
    BY <1>c, <2>1
  <2>3. vendor[Obj(d)] # <<>>
          => [vendor[Obj(d)] EXCEPT ![1] = [content |-> env[d], at |-> now]] \in Seq(VendorObjects)
    BY <2>2, VendorSeq
  <2>4. vendor' \in [Objects -> Seq(VendorObjects)]
    <3>1. \/ vendor' = vendor
          \/ /\ vendor[Obj(d)] # <<>>
             /\ vendor' = [vendor EXCEPT ![Obj(d)][1] = [content |-> env[d], at |-> now]]
      BY ONLY <1>7 DEF Update, outside, Land
    <3> QED BY <2>1, <2>3, <3>1
  <2>7. landed' \subseteq Envelopes /\ late' = late /\ lost' = lost
    <3>1. landed' \in {landed, landed \cup {env[d]}} /\ late' = late /\ lost' = lost
      BY ONLY <1>7 DEF Update, outside, Land
    <3> QED BY <2>1, <3>1
  <2>5. pc' \in [Dispatchers -> Steps] /\ outcome' \in [Dispatchers -> Statuses \cup {"none"}]
    <3>1. CASE /\ pc' = [pc EXCEPT ![d] = "recordLedger"]
               /\ outcome' = [outcome EXCEPT ![d] = "updated"]
      BY <3>1
    <3>2. CASE \E code \in FaultCodes : Return(d, Disposition(code))
      BY <1>d, <3>2
    <3> QED BY ONLY <1>7, <3>1, <3>2 DEF Update, Goto
  <2>6. Occupied'
    BY <1>7 DEF Update
  <2> QED BY <2>4, <2>5, <2>6, <2>7, <1>7 DEF Update
<1>8. ASSUME NEW d \in Dispatchers, Probe(d) PROVE IType'
  BY <1>d, <1>8 DEF Probe
<1>9. ASSUME NEW d \in Dispatchers, Adopt(d) PROVE IType'
  <2>1. Obj(d) \in Objects /\ Committed(env[d], now) \in Rows
    BY <1>a, <1>b, <1>9 DEF Adopt
  <2>2. row' \in [Objects -> Rows] /\ ledger' \subseteq Envelopes
    <3>1. row' \in {row, [row EXCEPT ![Obj(d)] = Committed(env[d], now)]} /\ ledger' = ledger
      BY ONLY <1>9 DEF Adopt, Written, store
    <3>2. row \in [Objects -> Rows] /\ ledger \subseteq Envelopes
      OBVIOUS
    <3> QED BY ONLY <2>1, <3>1, <3>2
  <2>3. pc' \in [Dispatchers -> Steps] /\ outcome' \in [Dispatchers -> Statuses \cup {"none"}]
    BY <1>9 DEF Adopt
  <2>4. Occupied'
    BY <1>9 DEF Adopt
  <2> QED BY <2>2, <2>3, <2>4, <1>9 DEF Adopt
<1>10. ASSUME NEW d \in Dispatchers, Reserve(d) PROVE IType'
  <2>1. row' \in [Objects -> Rows] /\ ledger' = ledger
    <3>1. row' \in {row, [row EXCEPT ![Obj(d)] = Reserved]} /\ ledger' = ledger
      BY ONLY <1>10 DEF Reserve
    <3>2. row \in [Objects -> Rows] /\ Reserved \in Rows
      BY <1>e
    <3> QED BY ONLY <3>1, <3>2
  <2>2. pc' \in [Dispatchers -> Steps] /\ outcome' \in [Dispatchers -> Statuses \cup {"none"}]
    BY <1>10 DEF Reserve
  <2>3. Occupied'
    BY <1>10 DEF Reserve
  <2> QED BY <2>1, <2>2, <2>3, <1>10 DEF Reserve
<1>11. ASSUME NEW d \in Dispatchers, Create(d) PROVE IType'
  <2>1. env[d] \in Envelopes /\ ObjectOf[env[d]] \in Objects
    BY <1>b, <1>11 DEF Create
  <2>2. vendor' \in [Objects -> Seq(VendorObjects)] /\ landed' \subseteq Envelopes
        /\ late' \subseteq Envelopes /\ lost' \subseteq Objects
    <3>1. Append(vendor[ObjectOf[env[d]]], [content |-> env[d], at |-> now]) \in Seq(VendorObjects)
      BY <1>c, <2>1, VendorSeq
    <3>2. \/ outside' = outside
          \/ /\ lost' \in {lost, lost \cup {Obj(d)}}
             /\ \/ VendorCreates(env[d]) /\ late' = late
                \/ late' = late \cup {env[d]} /\ vendor' = vendor /\ landed' = landed
      BY ONLY <1>11 DEF Create, outside
    <3>3. \/ vendor' = vendor /\ landed' = landed
          \/ /\ vendor' = [vendor EXCEPT ![ObjectOf[env[d]]] =
                              Append(@, [content |-> env[d], at |-> now])]
             /\ landed' = landed \cup {env[d]}
      BY ONLY <3>2 DEF outside, VendorCreates
    <3>4. late' \in {late, late \cup {env[d]}} /\ lost' \in {lost, lost \cup {Obj(d)}}
      BY ONLY <3>2 DEF outside
    <3>5. /\ vendor \in [Objects -> Seq(VendorObjects)]
          /\ landed \subseteq Envelopes /\ late \subseteq Envelopes /\ lost \subseteq Objects
      BY ONLY IType DEF IType, TypeOK
    <3> QED BY ONLY <2>1, <3>1, <3>3, <3>4, <3>5 DEF Obj
  <2>3. pc' \in [Dispatchers -> Steps] /\ outcome' \in [Dispatchers -> Statuses \cup {"none"}]
    <3>1. \/ pc' = [pc EXCEPT ![d] = "recordLedger"] /\ outcome' = [outcome EXCEPT ![d] = "created"]
          \/ \E code \in FaultCodes :
               /\ pc' = [pc EXCEPT ![d] = "release"]
               /\ outcome' = [outcome EXCEPT ![d] = Disposition(code)]
      BY ONLY <1>11 DEF Create, Goto
    <3>2. pc \in [Dispatchers -> Steps] /\ outcome \in [Dispatchers -> Statuses \cup {"none"}]
      OBVIOUS
    <3> QED BY ONLY <1>d, <3>1, <3>2 DEF Steps, Statuses
  <2>4. Occupied'
    BY <1>11 DEF Create
  <2> QED BY <2>2, <2>3, <2>4, <1>11 DEF Create
<1>12. ASSUME NEW d \in Dispatchers, Release(d) PROVE IType'
  <2>1. row' \in [Objects -> Rows] /\ ledger' \subseteq Envelopes
    <3>1. /\ \/ row' = row
             \/ row' = [row EXCEPT ![Obj(d)] = IF @ = Reserved THEN NoRow ELSE @]
          /\ ledger' = ledger
      BY ONLY <1>12 DEF Release, Written, store
    <3>2. row \in [Objects -> Rows] /\ ledger \subseteq Envelopes /\ NoRow \in Rows
      BY DEF Rows
    <3> QED BY ONLY <3>1, <3>2
  <2>2. pc' \in [Dispatchers -> Steps] /\ Occupied'
    BY <1>12 DEF Release
  <2> QED BY <2>1, <2>2, <1>12 DEF Release
<1>13. ASSUME NEW d \in Dispatchers, RecordLedger(d) PROVE IType'
  BY <1>13 DEF RecordLedger, Written
<1>14. ASSUME NEW d \in Dispatchers, PutRow(d) PROVE IType'
  <2>1. Obj(d) \in Objects /\ Committed(env[d], now) \in Rows
    BY <1>a, <1>b, <1>14 DEF PutRow
  <2>2. row' \in [Objects -> Rows] /\ ledger' \subseteq Envelopes
    <3>1. row' \in {row, [row EXCEPT ![Obj(d)] = Committed(env[d], now)]} /\ ledger' = ledger
      BY ONLY <1>14 DEF PutRow, Written, store
    <3>2. row \in [Objects -> Rows] /\ ledger \subseteq Envelopes
      OBVIOUS
    <3> QED BY ONLY <2>1, <3>1, <3>2
  <2>3. pc' \in [Dispatchers -> Steps] /\ Occupied'
    BY <1>14 DEF PutRow
  <2> QED BY <2>2, <2>3, <1>14 DEF PutRow
<1>15. ASSUME NEW d \in Dispatchers, Collect(d) PROVE IType'
  BY <1>15 DEF Collect, Fresh
<1>16. ASSUME NEW d \in Dispatchers, NEW e \in Envelopes, NEW at \in {Fresh} \cup 0..now,
              Start(d, e, at)
       PROVE IType'
  BY <1>16 DEF Start, Time
<1>17. ASSUME NEW e \in Envelopes, Approve(e) PROVE IType'
  BY <1>17 DEF Approve
<1>18. ASSUME NEW e \in Envelopes, LateArrival(e) PROVE IType'
  <2>1. Append(vendor[ObjectOf[e]], [content |-> e, at |-> now]) \in Seq(VendorObjects)
    BY <1>b, <1>c, VendorSeq
  <2>2. vendor' \in [Objects -> Seq(VendorObjects)] /\ landed' \subseteq Envelopes
        /\ late' \subseteq Envelopes
    <3>1. /\ vendor' \in {vendor, [vendor EXCEPT ![ObjectOf[e]] =
                                    Append(@, [content |-> e, at |-> now])]}
          /\ landed' \subseteq landed \cup {e} /\ late' \subseteq late
      BY ONLY <1>18 DEF LateArrival, VendorCreates
    <3>2. /\ vendor \in [Objects -> Seq(VendorObjects)] /\ landed \subseteq Envelopes
          /\ late \subseteq Envelopes
      OBVIOUS
    <3> QED BY ONLY <2>1, <3>1, <3>2, <1>18
  <2> QED BY <2>2, <1>18 DEF LateArrival
<1>19. CASE Tick
  BY <1>19 DEF Tick, Time
<1>20. CASE Crash
  BY <1>20 DEF Crash
<1>21. CASE UNCHANGED vars
  BY <1>21 DEF vars
<1> QED
  BY ONLY <1>s, <1>1, <1>2, <1>3, <1>4, <1>5, <1>6, <1>7, <1>8, <1>9, <1>10, <1>11, <1>12, <1>13,
     <1>14, <1>15, <1>16, <1>17, <1>18, <1>19, <1>20, <1>21 DEF Next, Dispatch

\* Every variable of the gateway keeps its type.
THEOREM TypeCorrect == Spec => []TypeOK
<1>1. IType => TypeOK
  BY DEF IType
<1> QED
  BY InitType, StepType, <1>1, PTL DEF Spec

-----------------------------------------------------------------------------
(* One creator per object. *)

\* OneCreator is not inductive: what keeps a second dispatch out is the row, so
\* whoever is past the reservation of an object has a row of it.
CreatorsHold == \A d \in Dispatchers : Creating(d) => row[Obj(d)] # NoRow
CreatorInv   == IType /\ OneCreator /\ CreatorsHold

\* A step that lets nobody past a reservation and drops no row.
Quiet ==
  /\ \A d \in Dispatchers : Creating(d)' => Creating(d) /\ env'[d] = env[d]
  /\ \A o \in Objects : row'[o] = NoRow => row[o] = NoRow

\* Creating is only about occupied dispatchers, whose object is an object.
LEMMA CreatingObject ==
  ASSUME IType, NEW d \in Dispatchers, Creating(d)
  PROVE  env[d] \in Envelopes /\ Obj(d) \in Objects
BY GatewayAssumption DEF IType, Occupied, Creating, Obj

LEMMA QuietStep ==
  ASSUME IType, OneCreator, CreatorsHold, Quiet
  PROVE  OneCreator' /\ CreatorsHold'
<1>1. \A d \in Dispatchers : Creating(d)' => /\ Creating(d) /\ Obj(d)' = Obj(d)
                                            /\ Obj(d) \in Objects
  BY CreatingObject DEF Quiet, Obj
<1>2. OneCreator'
  BY <1>1 DEF OneCreator
<1>3. CreatorsHold'
  BY <1>1 DEF CreatorsHold, Quiet
<1> QED BY <1>2, <1>3

LEMMA StepCreators == CreatorInv /\ [Next]_vars => OneCreator' /\ CreatorsHold'
<1> SUFFICES ASSUME CreatorInv, [Next]_vars PROVE OneCreator' /\ CreatorsHold'
  OBVIOUS
<1>t. IType /\ OneCreator /\ CreatorsHold
  BY DEF CreatorInv
<1>p. /\ pc \in [Dispatchers -> Steps] /\ outcome \in [Dispatchers -> Statuses \cup {"none"}]
      /\ env \in [Dispatchers -> Envelopes \cup {NoEnv}] /\ row \in [Objects -> Rows]
  BY <1>t DEF IType, TypeOK
<1>o. \A d \in Dispatchers : pc[d] # "idle" => env[d] \in Envelopes /\ Obj(d) \in Objects
  BY <1>t, GatewayAssumption DEF IType, Occupied, Obj
<1>q. Quiet => OneCreator' /\ CreatorsHold'
  BY <1>t, QuietStep
<1>c. \A e, t : Committed(e, t) # NoRow
  BY DEF Committed, NoRow
<1> USE <1>p DEF Goto, Return, Creating, Quiet, store
<1>1. ASSUME NEW d \in Dispatchers, CheckApproval(d) PROVE Quiet
  BY <1>1 DEF CheckApproval
<1>2. ASSUME NEW d \in Dispatchers, ResolveCredential(d) PROVE Quiet
  BY <1>2 DEF ResolveCredential
<1>3. ASSUME NEW d \in Dispatchers, LookupLedger(d) PROVE Quiet
  BY <1>3 DEF LookupLedger, LookupFault
<1>4. ASSUME NEW d \in Dispatchers, LookupKey(d) PROVE Quiet
  BY <1>4 DEF LookupKey, LookupFault
<1>5. ASSUME NEW d \in Dispatchers, LookupObject(d) PROVE Quiet
  BY <1>5 DEF LookupObject, LookupFault
<1>6. ASSUME NEW d \in Dispatchers, CheckAuthor(d) PROVE Quiet
  BY <1>6 DEF CheckAuthor
<1>7. ASSUME NEW d \in Dispatchers, Update(d) PROVE Quiet
  BY <1>7 DEF Update
<1>8. ASSUME NEW d \in Dispatchers, Probe(d) PROVE Quiet
  BY <1>8 DEF Probe
<1>9. ASSUME NEW d \in Dispatchers, Adopt(d) PROVE Quiet
  <2>1. row' \in {row, [row EXCEPT ![Obj(d)] = Committed(env[d], now)]}
    BY ONLY <1>9 DEF Adopt, Written, store
  <2> QED BY <2>1, <1>c, <1>9 DEF Adopt
<1>11. ASSUME NEW d \in Dispatchers, Create(d) PROVE Quiet
  BY <1>11 DEF Create
<1>13. ASSUME NEW d \in Dispatchers, RecordLedger(d) PROVE Quiet
  BY <1>13 DEF RecordLedger, Written
<1>14. ASSUME NEW d \in Dispatchers, PutRow(d) PROVE Quiet
  <2>1. row' \in {row, [row EXCEPT ![Obj(d)] = Committed(env[d], now)]}
    BY ONLY <1>14 DEF PutRow, Written, store
  <2> QED BY <2>1, <1>c, <1>14 DEF PutRow
<1>15. ASSUME NEW d \in Dispatchers, Collect(d) PROVE Quiet
  BY <1>15 DEF Collect
<1>16. ASSUME NEW d \in Dispatchers, NEW e \in Envelopes, NEW at \in {Fresh} \cup 0..now,
              Start(d, e, at)
       PROVE Quiet
  BY <1>16 DEF Start
<1>17. ASSUME NEW e \in Envelopes, Approve(e) PROVE Quiet
  <2>1. pc' = pc /\ env' = env /\ outcome' = outcome /\ row' = row
    BY ONLY <1>17 DEF Approve, local, store
  <2> QED BY <2>1
<1>18. ASSUME NEW e \in Envelopes, LateArrival(e) PROVE Quiet
  <2>1. pc' = pc /\ env' = env /\ outcome' = outcome /\ row' = row
    BY ONLY <1>18 DEF LateArrival, local, store
  <2> QED BY <2>1
<1>19. ASSUME Tick PROVE Quiet
  <2>1. pc' = pc /\ env' = env /\ outcome' = outcome /\ row' = row
    BY ONLY <1>19 DEF Tick, local, store
  <2> QED BY <2>1
<1>20. ASSUME Crash PROVE Quiet
  BY <1>20 DEF Crash
<1>21. ASSUME UNCHANGED vars PROVE Quiet
  BY <1>21 DEF vars, local
\* The winner of a reservation found no row, so nobody else was creating there.
<1>10. ASSUME NEW d \in Dispatchers, Reserve(d) PROVE OneCreator' /\ CreatorsHold'
  <2>1. CASE row[Obj(d)] = NoRow /\ row' = [row EXCEPT ![Obj(d)] = Reserved]
    <3>1. env' = env /\ (\A x \in Dispatchers : Obj(x)' = Obj(x))
      BY <1>10 DEF Reserve, Obj
    <3>2. \A x \in Dispatchers : Creating(x)' /\ x # d => Creating(x)
      BY <1>10 DEF Reserve
    <3>3. \A x \in Dispatchers : Creating(x) => Obj(x) # Obj(d) /\ Obj(x) \in Objects
      <4>1. \A x \in Dispatchers : Creating(x) => Obj(x) \in Objects
        BY <1>o
      <4>2. \A x \in Dispatchers : Creating(x) => row[Obj(x)] # NoRow
        BY <1>t DEF CreatorsHold
      <4> QED BY <2>1, <4>1, <4>2
    <3>4. OneCreator'
      BY <3>1, <3>2, <3>3, <1>t DEF OneCreator
    <3>5. Obj(d) \in Objects /\ Reserved # NoRow
      BY <1>10, <1>o DEF Reserve, Reserved, NoRow
    <3>6. CreatorsHold'
      BY <2>1, <3>1, <3>2, <3>3, <3>5, <1>t DEF CreatorsHold
    <3> QED BY <3>4, <3>6
  <2>2. CASE ~(row[Obj(d)] = NoRow /\ row' = [row EXCEPT ![Obj(d)] = Reserved])
    <3>1. Quiet
      BY <2>2, <1>10 DEF Reserve
    <3> QED BY <3>1, <1>q
  <2> QED BY <2>1, <2>2
\* The dispatch that gives a placeholder back was the only one creating there.
<1>12. ASSUME NEW d \in Dispatchers, Release(d) PROVE OneCreator' /\ CreatorsHold'
  <2>1. env' = env /\ (\A x \in Dispatchers : Obj(x)' = Obj(x))
    BY <1>12 DEF Release, Obj
  <2>2. Creating(d) /\ pc'[d] = "done" /\ ~Creating(d)'
    BY <1>12 DEF Release
  <2>3. \A x \in Dispatchers : Creating(x)' => Creating(x) /\ x # d
    BY <2>2, <1>12 DEF Release
  <2>4. OneCreator'
    BY <2>1, <2>3, <1>t DEF OneCreator
  <2>5. \A x \in Dispatchers : Creating(x)' => Obj(x) # Obj(d) /\ Obj(x) \in Objects
    BY <2>2, <2>3, <1>t, <1>o DEF OneCreator
  <2>6. \A o \in Objects : o # Obj(d) => row'[o] = row[o]
    BY <1>12 DEF Release, Written
  <2>7. CreatorsHold'
    BY <2>1, <2>3, <2>5, <2>6, <1>t DEF CreatorsHold
  <2> QED BY <2>4, <2>7
<1> QED
  BY <1>1, <1>2, <1>3, <1>4, <1>5, <1>6, <1>7, <1>8, <1>9, <1>10, <1>11, <1>12, <1>13,
     <1>14, <1>15, <1>16, <1>17, <1>18, <1>19, <1>20, <1>21, <1>q DEF Next, Dispatch

LEMMA InitCreators == Init => CreatorInv
<1> SUFFICES ASSUME Init PROVE OneCreator /\ CreatorsHold
  BY InitType DEF CreatorInv
<1> QED BY DEF Init, OneCreator, CreatorsHold, Creating

\* Two dispatches never create one object at once, whatever crashes, store
\* faults and lost answers: "only the WINNER may create".
THEOREM OneCreatorHolds == Spec => []OneCreator
<1>1. CreatorInv /\ [Next]_vars => CreatorInv'
  BY StepType, StepCreators DEF CreatorInv
<1>2. CreatorInv => OneCreator
  BY DEF CreatorInv
<1> QED
  BY InitCreators, <1>1, <1>2, PTL DEF Spec

-----------------------------------------------------------------------------
(* What somebody else created is never written. *)

\* Nothing on its way to the vendor, or believed written, is for a stranger's
\* object.  Adoption puts rows on strangers' objects, so it is the ledger, and
\* never the row, that an update may trust; and a row only ever carries a key
\* of its own object, so the ledger entry found is about that object.
NothingForeign ==
  /\ \A e \in ledger \cup late : ~Strange(ObjectOf[e])
  /\ \A d \in Dispatchers :
       pc[d] \in {"update", "reserve", "create", "recordLedger", "putRow"}
         => ~Strange(Obj(d))
RowsAreOwn ==
  /\ \A o \in Objects : IsCommitted(row[o]) => ObjectOf[row[o].key] = o
  /\ \A d \in Dispatchers : pc[d] = "author" => ObjectOf[seen[d].key] = Obj(d)
ForeignInv == IType /\ NothingForeign /\ RowsAreOwn

\* A step leaves what is a stranger's, and makes nothing a stranger's.
Untouched ==
  \A o \in Objects : /\ Strange(o) => vendor'[o] = vendor[o]
                     /\ Strange(o)' => Strange(o)

\* What a write leaves at the vendor is ours where it was nobody's or ours.
LEMMA OursStays ==
  ASSUME NEW e \in Envelopes, NEW s \in Seq(VendorObjects),
         s # <<>> => s[1].content # Foreign, now \in Time
  PROVE  LET x == [content |-> e, at |-> now] IN
         /\ Append(s, x)[1].content # Foreign
         /\ s # <<>> => [s EXCEPT ![1] = x][1].content # Foreign
<1> DEFINE x == [content |-> e, at |-> now]
<1>1. x \in VendorObjects /\ x.content # Foreign
  BY GatewayAssumption DEF VendorObjects
<1>2. Len(s) \in Nat /\ (s # <<>> => Len(s) # 0) /\ DOMAIN s = 1..Len(s)
  OBVIOUS
<1>3. s = <<>> => Append(s, x)[1] = x
  BY <1>1
<1>4. s # <<>> => Append(s, x)[1] = s[1] /\ [s EXCEPT ![1] = x][1] = x
  BY <1>1, <1>2
<1> QED BY <1>1, <1>3, <1>4

LEMMA StepForeign ==
  ForeignInv /\ [Next]_vars => Untouched /\ NothingForeign' /\ RowsAreOwn'
<1> DEFINE Goal == Untouched /\ NothingForeign' /\ RowsAreOwn'
<1> SUFFICES ASSUME ForeignInv, [Next]_vars PROVE Goal
  OBVIOUS
<1>t. IType /\ NothingForeign /\ RowsAreOwn
  BY DEF ForeignInv
<1>p. /\ pc \in [Dispatchers -> Steps] /\ env \in [Dispatchers -> Envelopes \cup {NoEnv}]
      /\ seen \in [Dispatchers -> {NoRow} \cup CommittedRows]
      /\ row \in [Objects -> Rows] /\ vendor \in [Objects -> Seq(VendorObjects)]
  BY <1>t DEF IType, TypeOK
<1>o. \A d \in Dispatchers : pc[d] # "idle" => env[d] \in Envelopes /\ Obj(d) \in Objects
  BY <1>t, GatewayAssumption DEF IType, Occupied, Obj
<1>e. \A e \in ledger \cup late : e \in Envelopes /\ ObjectOf[e] \in Objects
  BY <1>t, GatewayAssumption DEF IType, TypeOK
<1>r. ~IsCommitted(NoRow) /\ ~IsCommitted(Reserved)
  BY DEF IsCommitted, NoRow, Reserved
<1>k. \A e, t : Committed(e, t).key = e
  BY DEF Committed
\* The vendor's objects only change where a stranger has none, and stay ours.
<1>v. ASSUME NEW o \in Objects, NEW e \in Envelopes, ~Strange(o),
             LET x == [content |-> e, at |-> now] IN
               \/ vendor' = vendor
               \/ vendor' = [vendor EXCEPT ![o] = Append(@, x)]
               \/ vendor[o] # <<>> /\ vendor' = [vendor EXCEPT ![o][1] = x]
      PROVE  Untouched
  <2>1. now \in Time
    BY <1>t DEF IType, TypeOK
  <2>2. ~Strange(o)'
    <3> DEFINE x == [content |-> e, at |-> now]
    <3>1. /\ Append(vendor[o], x)[1].content # Foreign
          /\ vendor[o] # <<>> => [vendor[o] EXCEPT ![1] = x][1].content # Foreign
      <4>1. vendor[o] \in Seq(VendorObjects) /\ (vendor[o] # <<>> => vendor[o][1].content # Foreign)
        BY ONLY <1>v, <1>p DEF Strange
      <4> QED BY ONLY <1>v, <2>1, <4>1, OursStays
    <3> HIDE DEF x
    <3>2. \/ vendor'[o] = vendor[o]
          \/ vendor'[o] = Append(vendor[o], x)
          \/ vendor[o] # <<>> /\ vendor'[o] = [vendor[o] EXCEPT ![1] = x]
      BY ONLY <1>v, <1>p DEF x
    <3> QED BY ONLY <1>v, <3>1, <3>2 DEF Strange
  <2>3. \A x \in Objects : x # o => vendor'[x] = vendor[x]
    BY <1>v, <1>p
  <2> QED BY <1>v, <2>2, <2>3 DEF Untouched, Strange
<1>u. vendor' = vendor => Untouched
  BY DEF Untouched, Strange
<1>y. ASSUME Untouched, NEW o \in Objects, ~Strange(o) PROVE ~Strange(o)'
  BY <1>y DEF Untouched
\* The frame of the steps that only move one dispatcher.
<1>m. ASSUME NEW d \in Dispatchers, NEW to,
             pc' = [pc EXCEPT ![d] = to], UNCHANGED <<env, row, ledger, vendor, late>>,
             to \in {"update", "reserve", "create", "recordLedger", "putRow"}
               => ~Strange(Obj(d)),
             seen' = seen, to # "author"
      PROVE  Goal
  <2>1. \A x \in Dispatchers : Obj(x)' = Obj(x)
    BY <1>m DEF Obj
  <2>2. Untouched
    BY <1>m, <1>u
  <2>3. NothingForeign'
    BY <1>m, <1>t, <1>p, <2>1 DEF NothingForeign, Strange
  <2>4. RowsAreOwn'
    BY <1>m, <1>t, <1>p, <2>1 DEF RowsAreOwn, IsCommitted
  <2> QED BY <2>2, <2>3, <2>4
<1> USE DEF Goto, Return, store, outside
<1>1. ASSUME NEW d \in Dispatchers, CheckApproval(d) PROVE Goal
  <2>1. PICK to \in {"done", "credential"} : pc' = [pc EXCEPT ![d] = to]
    BY <1>1 DEF CheckApproval
  <2> QED BY <1>m, <2>1, <1>1 DEF CheckApproval
<1>2. ASSUME NEW d \in Dispatchers, ResolveCredential(d) PROVE Goal
  <2>1. PICK to \in {"done", "ledgerLookup"} : pc' = [pc EXCEPT ![d] = to]
    BY <1>2 DEF ResolveCredential
  <2> QED BY <1>m, <2>1, <1>2 DEF ResolveCredential
<1>3. ASSUME NEW d \in Dispatchers, LookupLedger(d) PROVE Goal
  <2>1. PICK to \in {"done", "keyLookup"} : pc' = [pc EXCEPT ![d] = to]
    BY <1>3 DEF LookupLedger, LookupFault
  <2> QED BY <1>m, <2>1, <1>3 DEF LookupLedger
<1>4. ASSUME NEW d \in Dispatchers, LookupKey(d) PROVE Goal
  <2>1. PICK to \in {"done", "objectLookup"} : pc' = [pc EXCEPT ![d] = to]
    BY <1>4 DEF LookupKey, LookupFault
  <2> QED BY <1>m, <2>1, <1>4 DEF LookupKey
<1>5. ASSUME NEW d \in Dispatchers, LookupObject(d) PROVE Goal
  <2>1. UNCHANGED <<env, row, ledger, vendor, late>>
    BY <1>5 DEF LookupObject
  <2>2. CASE pc' = [pc EXCEPT ![d] = "author"]
    <3>1. /\ IsCommitted(row[Obj(d)]) /\ seen' = [seen EXCEPT ![d] = row[Obj(d)]]
      BY <2>2, <1>5, <1>p DEF LookupObject, LookupFault
    <3>2. ObjectOf[row[Obj(d)].key] = Obj(d)
      BY <3>1, <1>5, <1>o, <1>t DEF RowsAreOwn, LookupObject
    <3>3. \A x \in Dispatchers : Obj(x)' = Obj(x)
      BY <2>1 DEF Obj
    <3>4. RowsAreOwn'
      BY <2>1, <2>2, <3>1, <3>2, <3>3, <1>t, <1>p DEF RowsAreOwn, IsCommitted
    <3>5. NothingForeign' /\ Untouched
      BY <2>1, <2>2, <3>3, <1>t, <1>p, <1>u DEF NothingForeign, Strange
    <3> QED BY <3>4, <3>5
  <2>3. CASE pc' # [pc EXCEPT ![d] = "author"]
    <3>1. PICK to \in {"done", "probe"} : pc' = [pc EXCEPT ![d] = to]
      BY <2>3, <1>5 DEF LookupObject, LookupFault
    <3>2. seen' = seen
      BY <2>3, <1>5 DEF LookupObject, LookupFault
    <3> QED BY <1>m, <2>1, <3>1, <3>2
  <2> QED BY <2>2, <2>3
\* The ledger, not the row, says whose object it is.
<1>6. ASSUME NEW d \in Dispatchers, CheckAuthor(d) PROVE Goal
  <2>1. PICK to \in {"done", "update"} :
          /\ pc' = [pc EXCEPT ![d] = to]
          /\ to = "update" => seen[d].key \in ledger
    BY <1>6 DEF CheckAuthor
  <2>2. seen[d].key \in ledger => ~Strange(Obj(d))
    BY <1>6, <1>t DEF CheckAuthor, NothingForeign, RowsAreOwn
  <2> QED BY <1>m, <2>1, <2>2, <1>6 DEF CheckAuthor
<1>7. ASSUME NEW d \in Dispatchers, Update(d) PROVE Goal
  <2>1. /\ pc[d] = "update" /\ UNCHANGED <<env, seen, row, ledger, late>>
        /\ \/ vendor' = vendor
           \/ /\ vendor[Obj(d)] # <<>>
              /\ vendor' = [vendor EXCEPT ![Obj(d)][1] = [content |-> env[d], at |-> now]]
    BY ONLY <1>7 DEF Update, Land, store, outside
  <2>2. PICK to \in {"recordLedger", "done"} : pc' = [pc EXCEPT ![d] = to]
    BY <1>7 DEF Update
  <2>3. Obj(d) \in Objects /\ env[d] \in Envelopes /\ ~Strange(Obj(d))
    BY <2>1, <1>o, <1>t DEF NothingForeign
  <2>4. Untouched
    BY ONLY <2>1, <2>3, <1>v
  <2>5. \A x \in Dispatchers : Obj(x)' = Obj(x)
    BY <2>1 DEF Obj
  <2>6. NothingForeign'
    BY ONLY <2>1, <2>2, <2>3, <2>4, <2>5, <1>e, <1>y, <1>o, <1>t, <1>p DEF NothingForeign
  <2>7. RowsAreOwn'
    BY <2>1, <2>2, <2>5, <1>t, <1>p DEF RowsAreOwn, IsCommitted
  <2> QED BY <2>4, <2>6, <2>7
\* The probe that finds nothing is for an object no stranger created.
<1>8. ASSUME NEW d \in Dispatchers, Probe(d) PROVE Goal
  <2>1. PICK to \in {"done", "adopt", "reserve"} :
          /\ pc' = [pc EXCEPT ![d] = to]
          /\ to = "reserve" => vendor[Obj(d)] = <<>>
    BY <1>8 DEF Probe
  <2>2. vendor[Obj(d)] = <<>> => ~Strange(Obj(d))
    BY DEF Strange
  <2> QED BY <1>m, <2>1, <2>2, <1>8 DEF Probe
\* Adoption puts this envelope's key on the row of its own object.
<1>w. ASSUME NEW d \in Dispatchers, pc[d] # "idle", pc' = [pc EXCEPT ![d] = "done"],
             UNCHANGED <<env, seen, ledger, vendor, late>>,
             row' \in {row, [row EXCEPT ![Obj(d)] = Committed(env[d], now)]}
      PROVE  Goal
  <2>1. \A x \in Dispatchers : Obj(x)' = Obj(x)
    BY <1>w DEF Obj
  <2>2. Obj(d) \in Objects /\ ObjectOf[Committed(env[d], now).key] = Obj(d)
    BY <1>w, <1>o, <1>k DEF Obj
  <2>3. RowsAreOwn'
    BY <1>w, <2>1, <2>2, <1>t, <1>p DEF RowsAreOwn, IsCommitted
  <2>4. Untouched /\ NothingForeign'
    BY <1>w, <2>1, <1>t, <1>p, <1>u DEF NothingForeign, Strange
  <2> QED BY <2>3, <2>4
<1>9. ASSUME NEW d \in Dispatchers, Adopt(d) PROVE Goal
  <2>1. row' \in {row, [row EXCEPT ![Obj(d)] = Committed(env[d], now)]} /\ ledger' = ledger
    BY ONLY <1>9 DEF Adopt, Written, store
  <2> QED BY <1>w, <2>1, <1>9 DEF Adopt
<1>14. ASSUME NEW d \in Dispatchers, PutRow(d) PROVE Goal
  <2>1. row' \in {row, [row EXCEPT ![Obj(d)] = Committed(env[d], now)]} /\ ledger' = ledger
    BY ONLY <1>14 DEF PutRow, Written, store
  <2> QED BY <1>w, <2>1, <1>14 DEF PutRow
\* A placeholder taken or given back carries no key.
<1>n. ASSUME NEW d \in Dispatchers, pc[d] \in {"reserve", "release"},
             NEW to \in {"create", "done"}, pc' = [pc EXCEPT ![d] = to],
             pc[d] = "release" => to = "done",
             UNCHANGED <<env, seen, ledger, vendor, late>>,
             row' = row \/ \E r \in {NoRow, Reserved} : row' = [row EXCEPT ![Obj(d)] = r]
      PROVE  Goal
  <2>1. \A x \in Dispatchers : Obj(x)' = Obj(x)
    BY <1>n DEF Obj
  <2>2. \A o \in Objects : row'[o] = row[o] \/ ~IsCommitted(row'[o])
    BY <1>n, <1>o, <1>r, <1>p
  <2>3. \A o \in Objects : IsCommitted(row'[o]) => ObjectOf[row'[o].key] = o
    BY <2>2, <1>t DEF RowsAreOwn
  <2>4. \A x \in Dispatchers : pc'[x] = "author" => pc[x] = "author"
    BY <1>n, <1>p
  <2>5. RowsAreOwn'
    BY <1>n, <2>1, <2>3, <2>4, <1>t DEF RowsAreOwn, IsCommitted
  <2>6. Untouched /\ NothingForeign'
    BY <1>n, <2>1, <1>t, <1>p, <1>u DEF NothingForeign, Strange
  <2> QED BY <2>5, <2>6
<1>10. ASSUME NEW d \in Dispatchers, Reserve(d) PROVE Goal
  <2>1. PICK to \in {"create", "done"} : pc' = [pc EXCEPT ![d] = to]
    BY <1>10 DEF Reserve
  <2>2. row' = row \/ row' = [row EXCEPT ![Obj(d)] = Reserved]
    BY <1>10 DEF Reserve
  <2> QED BY <1>n, <2>1, <2>2, <1>10 DEF Reserve
<1>12. ASSUME NEW d \in Dispatchers, Release(d) PROVE Goal
  <2>1. pc' = [pc EXCEPT ![d] = "done"] /\ ledger' = ledger
    BY <1>12 DEF Release, Written
  <2>2. \/ row' = row
        \/ row' = [row EXCEPT ![Obj(d)] = IF @ = Reserved THEN NoRow ELSE @]
    BY ONLY <1>12 DEF Release, Written, store
  <2>3. Obj(d) \in Objects
    BY <1>12, <1>o DEF Release
  <2>4. row' = row \/ row' = [row EXCEPT ![Obj(d)] = NoRow]
    BY <2>2, <2>3, <1>p
  <2> QED BY <1>n, <2>1, <2>4, <1>12 DEF Release
<1>11. ASSUME NEW d \in Dispatchers, Create(d) PROVE Goal
  <2>1. /\ pc[d] = "create" /\ UNCHANGED <<env, seen, row, ledger>>
        /\ late' \in {late, late \cup {env[d]}}
        /\ \/ vendor' = vendor
           \/ vendor' = [vendor EXCEPT ![ObjectOf[env[d]]] =
                                    Append(@, [content |-> env[d], at |-> now])]
    BY ONLY <1>11 DEF Create, VendorCreates, store, outside
  <2>2. PICK to \in {"recordLedger", "release"} : pc' = [pc EXCEPT ![d] = to]
    BY <1>11 DEF Create
  <2>3. /\ ObjectOf[env[d]] \in Objects /\ ~Strange(ObjectOf[env[d]])
        /\ Obj(d) = ObjectOf[env[d]] /\ env[d] \in Envelopes
    BY <2>1, <1>o, <1>t DEF NothingForeign, Obj
  <2>4. Untouched
    BY ONLY <2>1, <2>3, <1>v
  <2>5. \A x \in Dispatchers : Obj(x)' = Obj(x)
    BY <2>1 DEF Obj
  <2>6. NothingForeign'
    BY ONLY <2>1, <2>2, <2>3, <2>4, <2>5, <1>e, <1>y, <1>o, <1>t, <1>p DEF NothingForeign
  <2>7. RowsAreOwn'
    BY <2>1, <2>2, <2>5, <1>t, <1>p DEF RowsAreOwn, IsCommitted
  <2> QED BY <2>4, <2>6, <2>7
<1>13. ASSUME NEW d \in Dispatchers, RecordLedger(d) PROVE Goal
  <2>1. /\ pc[d] = "recordLedger" /\ pc' = [pc EXCEPT ![d] = "putRow"]
        /\ UNCHANGED <<env, seen, row, vendor, late>>
        /\ ledger' \in {ledger, ledger \cup {env[d]}}
    BY ONLY <1>13 DEF RecordLedger, Written, Goto, store, outside
  <2>2. ~Strange(ObjectOf[env[d]])
    BY <2>1, <1>t DEF NothingForeign, Obj
  <2>3. \A x \in Dispatchers : Obj(x)' = Obj(x)
    BY <2>1 DEF Obj
  <2>4. NothingForeign'
    BY <2>1, <2>2, <2>3, <1>t, <1>p DEF NothingForeign, Strange
  <2>5. RowsAreOwn' /\ Untouched
    BY <2>1, <2>3, <1>t, <1>p, <1>u DEF RowsAreOwn, IsCommitted
  <2> QED BY <2>4, <2>5
\* The caller, the owner, the wire, the clock and the crash.
<1>x. ASSUME UNCHANGED <<row, ledger>>, late' \subseteq late, Untouched,
             \A d \in Dispatchers : pc'[d] \in {"idle", "approval"}
               \/ (pc'[d] = pc[d] /\ env'[d] = env[d] /\ seen'[d] = seen[d])
      PROVE  Goal
  <2>1. NothingForeign'
    BY ONLY <1>x, <1>e, <1>y, <1>o, <1>t DEF NothingForeign, Obj
  <2>2. RowsAreOwn'
    BY <1>x, <1>t DEF RowsAreOwn, IsCommitted, Obj
  <2> QED BY <1>x, <2>1, <2>2
<1>15. ASSUME NEW d \in Dispatchers, Collect(d) PROVE Goal
  <2>1. \A x \in Dispatchers : pc'[x] \in {"idle", "approval"}
               \/ (pc'[x] = pc[x] /\ env'[x] = env[x] /\ seen'[x] = seen[x])
    BY <1>15, <1>p DEF Collect
  <2> QED BY <2>1, <1>x, <1>u, <1>15 DEF Collect
<1>16. ASSUME NEW d \in Dispatchers, NEW e \in Envelopes, NEW at \in {Fresh} \cup 0..now,
              Start(d, e, at)
       PROVE Goal
  <2>1. \A x \in Dispatchers : pc'[x] \in {"idle", "approval"}
               \/ (pc'[x] = pc[x] /\ env'[x] = env[x] /\ seen'[x] = seen[x])
    BY <1>16, <1>p DEF Start
  <2> QED BY <2>1, <1>x, <1>u, <1>16 DEF Start
<1>17. ASSUME NEW e \in Envelopes, Approve(e) PROVE Goal
  <2>1. UNCHANGED <<pc, env, seen, row, ledger, vendor, late>>
    BY ONLY <1>17 DEF Approve, local, store, outside
  <2> QED BY <2>1, <1>x, <1>u
<1>18. ASSUME NEW e \in Envelopes, LateArrival(e) PROVE Goal
  <2>1. /\ UNCHANGED <<pc, env, seen, row, ledger>> /\ e \in late /\ late' \subseteq late
        /\ \/ vendor' = vendor
           \/ vendor' = [vendor EXCEPT ![ObjectOf[e]] = Append(@, [content |-> e, at |-> now])]
    BY ONLY <1>18 DEF LateArrival, VendorCreates, local, store
  <2>2. ObjectOf[e] \in Objects /\ ~Strange(ObjectOf[e])
    BY <2>1, <1>t, GatewayAssumption DEF NothingForeign
  <2>3. Untouched
    BY ONLY <2>1, <2>2, <1>v
  <2> QED BY <2>1, <2>3, <1>x
<1>19. ASSUME Tick PROVE Goal
  <2>1. UNCHANGED <<pc, env, seen, row, ledger, vendor, late>>
    BY ONLY <1>19 DEF Tick, local, store, outside
  <2> QED BY <2>1, <1>x, <1>u
<1>20. ASSUME Crash PROVE Goal
  <2>1. UNCHANGED <<row, ledger, vendor, late>> /\ \A x \in Dispatchers : pc'[x] = "idle"
    BY <1>20 DEF Crash
  <2> QED BY <2>1, <1>x, <1>u
<1>21. ASSUME UNCHANGED vars PROVE Goal
  <2>1. UNCHANGED <<pc, env, seen, row, ledger, vendor, late>>
    BY ONLY <1>21 DEF vars, local, store, outside
  <2> QED BY <2>1, <1>x, <1>u
<1> QED
  BY <1>1, <1>2, <1>3, <1>4, <1>5, <1>6, <1>7, <1>8, <1>9, <1>10, <1>11, <1>12, <1>13,
     <1>14, <1>15, <1>16, <1>17, <1>18, <1>19, <1>20, <1>21 DEF Next, Dispatch

LEMMA InitForeign == Init => ForeignInv
<1> SUFFICES ASSUME Init PROVE NothingForeign /\ RowsAreOwn
  BY InitType DEF ForeignInv
<1> QED BY DEF Init, NothingForeign, RowsAreOwn, IsCommitted, NoRow

\* An object somebody else created is never written, whatever was adopted,
\* lost, crashed or retried: the authorship check sees through adoption.
THEOREM ForeignObjectsUntouched == Spec => ForeignUntouched
<1> DEFINE Kept == \A o \in Objects : Strange(o) => vendor'[o] = vendor[o]
<1>1. ForeignInv /\ [Next]_vars => ForeignInv'
  BY StepType, StepForeign DEF ForeignInv
<1>2. ForeignInv /\ [Next]_vars => Kept
  BY StepForeign DEF Untouched
<1> HIDE DEF Kept
<1>3. Spec => [][Kept]_vars
  BY InitForeign, <1>1, <1>2, PTL DEF Spec
<1> QED BY <1>3 DEF Kept, ForeignUntouched

-----------------------------------------------------------------------------
(* Consent, and what a result says. *)

\* What every step of the gateway leaves as it was, or lets grow.
Grown ==
  /\ approved \subseteq approved' /\ landed \subseteq landed'
  /\ \A o \in Objects : vendor[o] # <<>> => vendor'[o] # <<>>

\* Only dispatcher d moves.
Alone(d) ==
  \A x \in Dispatchers \ {d} :
    pc'[x] = pc[x] /\ env'[x] = env[x] /\ outcome'[x] = outcome[x]

\* Approvals are not taken back, and nothing that reached the vendor goes away.
LEMMA StepGrows == IType /\ [Next]_vars => Grown
<1> SUFFICES ASSUME IType, [Next]_vars PROVE Grown
  OBVIOUS
<1>s. IType /\ [Next]_vars
  OBVIOUS
<1>v. vendor \in [Objects -> Seq(VendorObjects)] /\ now \in Time
  BY <1>s DEF IType, TypeOK
<1>o. \A e \in Envelopes : ObjectOf[e] \in Objects
  BY GatewayAssumption
<1>c. \A e \in Envelopes : [content |-> e, at |-> now] \in VendorObjects
  BY <1>v DEF VendorObjects
<1>1. UNCHANGED <<vendor, landed>> /\ approved \subseteq approved' => Grown
  BY DEF Grown
<1>2. ASSUME NEW e \in Envelopes, VendorCreates(e), approved' = approved PROVE Grown
  <2>1. Append(vendor[ObjectOf[e]], [content |-> e, at |-> now]) # <<>>
    BY <1>v, <1>o, <1>c, VendorSeq
  <2> QED BY ONLY <1>2, <1>o, <1>v, <2>1 DEF VendorCreates, Grown
<1>3. ASSUME NEW d \in Dispatchers, Update(d) PROVE Grown
  <2>1. env[d] \in Envelopes /\ approved' = approved
    BY ONLY <1>3, <1>s DEF IType, Occupied, Update, consent
  <2>2. vendor[Obj(d)] # <<>> =>
          [vendor[Obj(d)] EXCEPT ![1] = [content |-> env[d], at |-> now]] # <<>>
    BY ONLY <2>1, <1>v, <1>o, <1>c, VendorSeq DEF Obj
  <2>3. \/ UNCHANGED <<vendor, landed>>
        \/ /\ vendor[Obj(d)] # <<>>
           /\ vendor' = [vendor EXCEPT ![Obj(d)][1] = [content |-> env[d], at |-> now]]
           /\ landed' = landed \cup {env[d]}
    BY ONLY <1>3 DEF Update, Land, outside
  <2> QED BY ONLY <1>v, <2>1, <2>2, <2>3 DEF Grown
<1>4. ASSUME NEW d \in Dispatchers, Create(d) PROVE Grown
  <2>1. env[d] \in Envelopes /\ approved' = approved
    BY ONLY <1>4, <1>s DEF IType, Occupied, Create, consent
  <2>2. VendorCreates(env[d]) \/ UNCHANGED <<vendor, landed>>
    BY ONLY <1>4 DEF Create, outside
  <2> QED BY ONLY <1>1, <1>2, <2>1, <2>2
<1>5. ASSUME NEW d \in Dispatchers, Dispatch(d), ~ Update(d), ~ Create(d) PROVE Grown
  <2>1. UNCHANGED <<vendor, landed, approved>>
    BY ONLY <1>5 DEF Dispatch, CheckApproval, ResolveCredential, LookupLedger, LookupKey,
       LookupObject, CheckAuthor, Probe, Adopt, Reserve, Release, RecordLedger, PutRow,
       outside, consent
  <2> QED BY ONLY <1>1, <2>1
<1>6. ASSUME NEW e \in Envelopes, LateArrival(e) PROVE Grown
  <2>1. approved' = approved /\ (VendorCreates(e) \/ UNCHANGED <<vendor, landed>>)
    BY ONLY <1>6 DEF LateArrival, consent
  <2> QED BY ONLY <1>1, <1>2, <1>6, <2>1
<1>7. ASSUME NEW d \in Dispatchers,
             Collect(d) \/ \E e \in Envelopes, at \in {Fresh} \cup 0..now : Start(d, e, at)
      PROVE  Grown
  <2>1. UNCHANGED <<vendor, landed, approved>>
    BY ONLY <1>7 DEF Collect, Start, outside, consent
  <2> QED BY ONLY <1>1, <2>1
<1>8. ASSUME (\E e \in Envelopes : Approve(e)) \/ Tick \/ Crash \/ UNCHANGED vars
      PROVE  Grown
  <2>1. UNCHANGED <<vendor, landed>> /\ approved \subseteq approved'
    BY ONLY <1>8 DEF Approve, Tick, Crash, vars, outside, consent
  <2> QED BY ONLY <1>1, <2>1
<1> QED
  BY ONLY <1>s, <1>3, <1>4, <1>5, <1>6, <1>7, <1>8 DEF Next

\* A dispatch, and its caller, touch nothing of another dispatch.
LEMMA DispatchAlone ==
  ASSUME IType, NEW d \in Dispatchers,
         \/ Dispatch(d) \/ Collect(d)
         \/ \E e \in Envelopes, at \in {Fresh} \cup 0..now : Start(d, e, at)
  PROVE  Alone(d)
<1>p. /\ pc \in [Dispatchers -> Steps] /\ outcome \in [Dispatchers -> Statuses \cup {"none"}]
      /\ env \in [Dispatchers -> Envelopes \cup {NoEnv}]
  BY DEF IType, TypeOK
<1>1. /\ \E to : pc' = [pc EXCEPT ![d] = to]
      /\ outcome' = outcome \/ \E out : outcome' = [outcome EXCEPT ![d] = out]
      /\ env' = env \/ \E e : env' = [env EXCEPT ![d] = e]
  <2>1. CASE Collect(d)
    BY ONLY <2>1 DEF Collect, Goto
  <2>2. CASE \E e \in Envelopes, at \in {Fresh} \cup 0..now : Start(d, e, at)
    BY ONLY <2>2 DEF Start, Goto
  <2>3. CASE CheckApproval(d) \/ ResolveCredential(d) \/ LookupLedger(d) \/ LookupKey(d)
    BY ONLY <2>3 DEF CheckApproval, ResolveCredential, LookupLedger, LookupKey, LookupFault,
       Goto, Return
  <2>4. CASE LookupObject(d) \/ CheckAuthor(d) \/ Probe(d)
    BY ONLY <2>4 DEF LookupObject, CheckAuthor, Probe, LookupFault, Goto, Return
  <2>5. CASE Adopt(d) \/ Reserve(d) \/ Release(d) \/ RecordLedger(d) \/ PutRow(d)
    BY ONLY <2>5 DEF Adopt, Reserve, Release, RecordLedger, PutRow, Goto, Return
  <2>6. CASE Update(d) \/ Create(d)
    BY ONLY <2>6 DEF Update, Create, Goto, Return
  <2>7. \/ Dispatch(d) \/ Collect(d)
        \/ \E e \in Envelopes, at \in {Fresh} \cup 0..now : Start(d, e, at)
    OBVIOUS
  <2> QED BY ONLY <2>1, <2>2, <2>3, <2>4, <2>5, <2>6, <2>7 DEF Dispatch
<1> QED BY ONLY <1>p, <1>1 DEF Alone

\* The owner's consent, where it is needed.
Granted(e) == e \in NeedsApproval => e \in approved

\* Whatever is said to be at the vendor left an object there.
Real ==
  /\ \A e \in landed : vendor[ObjectOf[e]] # <<>>
  /\ \A o \in Objects : IsCommitted(row[o]) => vendor[o] # <<>>

\* What a dispatch may rely on where it stands.
Grounds(d) ==
  /\ pc[d] \notin {"idle", "approval", "done"} => Granted(env[d])
  /\ pc[d] = "adopt" => vendor[Obj(d)] # <<>>
  /\ pc[d] \in {"recordLedger", "putRow"} => env[d] \in landed
  /\ pc[d] = "release" => outcome[d] \notin {"created", "updated", "reused"}
  /\ pc[d] = "done" => /\ outcome[d] \in {"created", "updated"} => env[d] \in landed
                       /\ outcome[d] = "reused" => vendor[Obj(d)] # <<>>

Facts    == ApprovalFirst /\ LedgerIsTruthful /\ Real
TruthInv == IType /\ Facts /\ \A d \in Dispatchers : Grounds(d)

\* Grounds do not give way under a dispatch that stands still.
LEMMA GroundsKept ==
  ASSUME IType, Grown, NEW d \in Dispatchers, Grounds(d),
         pc'[d] = pc[d], env'[d] = env[d], outcome'[d] = outcome[d]
  PROVE  Grounds(d)'
<1>1. Obj(d)' = Obj(d) /\ (pc[d] # "idle" => env[d] \in Envelopes /\ Obj(d) \in Objects)
  BY GatewayAssumption DEF IType, Occupied, Obj
<1>2. Granted(env[d]) => Granted(env[d])'
  BY DEF Grown, Granted
<1>3. pc[d] # "idle" /\ vendor[Obj(d)] # <<>> => (vendor[Obj(d)] # <<>>)'
  BY <1>1 DEF Grown
<1>4. env[d] \in landed => (env[d] \in landed)'
  BY DEF Grown
<1> QED BY ONLY <1>1, <1>2, <1>3, <1>4, Grounds(d), pc'[d] = pc[d], env'[d] = env[d],
                outcome'[d] = outcome[d] DEF Grounds, Granted

\* Nor do the facts, while nothing new is recorded or sent.
LEMMA FactsKept ==
  ASSUME IType, Grown, Facts, ledger' = ledger, late' \subseteq late, landed' = landed,
         \A o \in Objects : IsCommitted(row'[o]) => IsCommitted(row[o])
  PROVE  Facts'
<1>1. ApprovalFirst' /\ LedgerIsTruthful'
  BY DEF Facts, Grown, ApprovalFirst, LedgerIsTruthful
<1>2. Real'
  BY GatewayAssumption DEF Facts, Grown, Real, IType, TypeOK, IsCommitted
<1> QED BY <1>1, <1>2 DEF Facts

\* A write that was granted makes the facts no less true.
LEMMA FactsLand ==
  ASSUME IType, Grown, Facts, UNCHANGED <<row, ledger>>,
         NEW e \in Envelopes, Granted(e), late' \subseteq late \cup {e},
         \/ landed' = landed
         \/ landed' = landed \cup {e} /\ vendor'[ObjectOf[e]] # <<>>
  PROVE  Facts'
<1>1. ApprovalFirst' /\ LedgerIsTruthful'
  BY DEF Facts, Grown, Granted, ApprovalFirst, LedgerIsTruthful
<1>2. Real'
  BY GatewayAssumption DEF Facts, Grown, Real, IType, TypeOK
<1> QED BY <1>1, <1>2 DEF Facts

LEMMA StepTruth ==
  TruthInv /\ [Next]_vars => Facts' /\ \A d \in Dispatchers : Grounds(d)'
<1> DEFINE Goal == Facts' /\ \A d \in Dispatchers : Grounds(d)'
<1> SUFFICES ASSUME TruthInv, [Next]_vars PROVE Goal
  OBVIOUS
<1>t. IType /\ Facts /\ Grown /\ [Next]_vars /\ \A d \in Dispatchers : Grounds(d)
  BY StepGrows DEF TruthInv
<1>p. /\ pc \in [Dispatchers -> Steps] /\ outcome \in [Dispatchers -> Statuses \cup {"none"}]
      /\ env \in [Dispatchers -> Envelopes \cup {NoEnv}] /\ row \in [Objects -> Rows]
      /\ vendor \in [Objects -> Seq(VendorObjects)] /\ now \in Time
  BY ONLY <1>t DEF IType, TypeOK
<1>o. \A d \in Dispatchers : pc[d] # "idle" => env[d] \in Envelopes /\ Obj(d) \in Objects
  BY ONLY <1>t, GatewayAssumption DEF IType, Occupied, Obj
<1>r. ~ IsCommitted(NoRow) /\ ~ IsCommitted(Reserved)
  BY DEF IsCommitted, NoRow, Reserved
\* A step of one dispatch: what is left to show is about that dispatch.
<1>m. ASSUME NEW d \in Dispatchers, Alone(d), Facts', Grounds(d)' PROVE Goal
  BY ONLY <1>m, <1>t, GroundsKept DEF Alone
\* A step of nobody's dispatch.
<1>n. ASSUME Facts', UNCHANGED <<pc, env, outcome>> PROVE Goal
  BY ONLY <1>n, <1>t, GroundsKept
\* A step that only moves a dispatch.
<1>q. ASSUME UNCHANGED <<row, ledger, late, landed>> PROVE Facts'
  BY ONLY <1>q, <1>t, FactsKept
<1>d. \A code \in FaultCodes : Disposition(code) \notin {"created", "updated", "reused"}
  BY DEF Disposition
<1>a. \A d \in Dispatchers :
        Dispatch(d) \/ Collect(d)
          \/ (\E e \in Envelopes, at \in {Fresh} \cup 0..now : Start(d, e, at)) => Alone(d)
  BY ONLY <1>t, DispatchAlone
\* Where a dispatch ends with a status that claims nothing, nothing is to be shown.
<1>e. ASSUME NEW d \in Dispatchers, pc'[d] = "done",
             outcome'[d] \notin {"created", "updated", "reused"}
      PROVE  Grounds(d)'
  BY ONLY <1>e DEF Grounds
<1>1. ASSUME NEW d \in Dispatchers, CheckApproval(d) PROVE Goal
  <2>1. Alone(d) /\ UNCHANGED <<row, ledger, late, landed>>
    BY ONLY <1>1, <1>a DEF Dispatch, CheckApproval, store, outside
  <2>2. \/ pc'[d] = "done" /\ outcome'[d] = "approval_pending"
        \/ pc'[d] = "credential" /\ env'[d] = env[d] /\ Granted(env[d])
    BY ONLY <1>1, <1>p DEF CheckApproval, Goto, Return, Granted
  <2>3. Grounds(d)'
    BY ONLY <2>2, <1>e, <1>t DEF Grounds, Granted, Grown
  <2> QED BY ONLY <1>m, <1>q, <2>1, <2>3
\* Between the approval and the vendor a dispatch goes on, or ends in a status
\* that is true.
<1>g. ASSUME NEW d \in Dispatchers, Alone(d), UNCHANGED <<env, ledger, late, landed, vendor>>,
             \A o \in Objects : IsCommitted(row'[o]) => IsCommitted(row[o]),
             pc[d] \notin {"idle", "approval", "done"},
             \/ pc'[d] \in {"credential", "ledgerLookup", "keyLookup", "objectLookup",
                            "author", "update", "probe", "reserve", "create"}
             \/ pc'[d] = "adopt" /\ vendor[Obj(d)] # <<>>
             \/ pc'[d] = "done" /\ outcome'[d] \notin {"created", "updated", "reused"}
             \/ pc'[d] = "done" /\ outcome'[d] = "reused" /\ vendor[Obj(d)] # <<>>
      PROVE  Goal
  <2>1. Obj(d)' = Obj(d) /\ Granted(env[d]) /\ Granted(env[d])'
    BY ONLY <1>g, <1>t DEF Grounds, Obj, Granted, Grown
  <2>2. Grounds(d)'
    BY ONLY <1>g, <2>1 DEF Grounds
  <2>3. Facts'
    BY ONLY <1>g, <1>t, FactsKept
  <2> QED BY ONLY <1>m, <1>g, <2>2, <2>3
<1>2. ASSUME NEW d \in Dispatchers, ResolveCredential(d) PROVE Goal
  <2>1. Alone(d) /\ UNCHANGED <<env, row, ledger, late, landed, vendor>> /\ pc[d] = "credential"
    BY ONLY <1>2, <1>a DEF Dispatch, ResolveCredential, store, outside
  <2>2. \/ pc'[d] = "ledgerLookup"
        \/ pc'[d] = "done" /\ outcome'[d] \in {"held", "rejected"}
    BY ONLY <1>2, <1>p DEF ResolveCredential, Goto, Return
  <2> QED BY ONLY <1>g, <2>1, <2>2
<1>3. ASSUME NEW d \in Dispatchers, LookupLedger(d) PROVE Goal
  <2>1. Alone(d) /\ UNCHANGED <<env, row, ledger, late, landed, vendor>> /\ pc[d] = "ledgerLookup"
    BY ONLY <1>3, <1>a DEF Dispatch, LookupLedger, store, outside
  <2>2. \/ pc'[d] = "keyLookup"
        \/ pc'[d] = "done" /\ outcome'[d] = "held"
        \/ pc'[d] = "done" /\ outcome'[d] = "reused" /\ env[d] \in ledger
    BY ONLY <1>3, <1>p DEF LookupLedger, LookupFault, Goto, Return
  <2>3. env[d] \in ledger => vendor[Obj(d)] # <<>>
    BY ONLY <1>t DEF Facts, LedgerIsTruthful, Real, Obj
  <2> QED BY ONLY <1>g, <2>1, <2>2, <2>3
<1>4. ASSUME NEW d \in Dispatchers, LookupKey(d) PROVE Goal
  <2>1. Alone(d) /\ UNCHANGED <<env, row, ledger, late, landed, vendor>> /\ pc[d] = "keyLookup"
    BY ONLY <1>4, <1>a DEF Dispatch, LookupKey, store, outside
  <2>2. \/ pc'[d] = "objectLookup"
        \/ pc'[d] = "done" /\ outcome'[d] = "held"
        \/ pc'[d] = "done" /\ outcome'[d] = "reused" /\ IsCommitted(row[Obj(d)])
    BY ONLY <1>4, <1>p DEF LookupKey, LookupFault, Goto, Return
  <2>3. IsCommitted(row[Obj(d)]) => vendor[Obj(d)] # <<>>
    BY ONLY <1>t, <1>o, <2>1 DEF Facts, Real
  <2> QED BY ONLY <1>g, <2>1, <2>2, <2>3
<1>5. ASSUME NEW d \in Dispatchers, LookupObject(d) PROVE Goal
  <2>1. Alone(d) /\ UNCHANGED <<env, row, ledger, late, landed, vendor>> /\ pc[d] = "objectLookup"
    BY ONLY <1>5, <1>a DEF Dispatch, LookupObject, store, outside
  <2>2. \/ pc'[d] \in {"author", "probe"}
        \/ pc'[d] = "done" /\ outcome'[d] \in {"held", "superseded"}
        \/ pc'[d] = "done" /\ outcome'[d] = "reused" /\ IsCommitted(row[Obj(d)])
    BY ONLY <1>5, <1>p DEF LookupObject, LookupFault, Goto, Return
  <2>3. IsCommitted(row[Obj(d)]) => vendor[Obj(d)] # <<>>
    BY ONLY <1>t, <1>o, <2>1 DEF Facts, Real
  <2> QED BY ONLY <1>g, <2>1, <2>2, <2>3
<1>6. ASSUME NEW d \in Dispatchers, CheckAuthor(d) PROVE Goal
  <2>1. Alone(d) /\ UNCHANGED <<env, row, ledger, late, landed, vendor>> /\ pc[d] = "author"
    BY ONLY <1>6, <1>a DEF Dispatch, CheckAuthor, store, outside
  <2>2. pc'[d] = "update" \/ (pc'[d] = "done" /\ outcome'[d] = "rejected")
    BY ONLY <1>6, <1>p DEF CheckAuthor, Goto, Return
  <2> QED BY ONLY <1>g, <2>1, <2>2
<1>8. ASSUME NEW d \in Dispatchers, Probe(d) PROVE Goal
  <2>1. Alone(d) /\ UNCHANGED <<env, row, ledger, late, landed, vendor>> /\ pc[d] = "probe"
    BY ONLY <1>8, <1>a DEF Dispatch, Probe, store, outside
  <2>2. \/ pc'[d] = "reserve"
        \/ pc'[d] = "adopt" /\ vendor[Obj(d)] # <<>>
        \/ pc'[d] = "done" /\ \E code \in FaultCodes : outcome'[d] = Disposition(code)
    BY ONLY <1>8, <1>p DEF Probe, Goto, Return
  <2> QED BY ONLY <1>d, <1>g, <2>1, <2>2
<1>10. ASSUME NEW d \in Dispatchers, Reserve(d) PROVE Goal
  <2>1. Alone(d) /\ UNCHANGED <<env, ledger, late, landed, vendor>> /\ pc[d] = "reserve"
    BY ONLY <1>10, <1>a DEF Dispatch, Reserve, outside
  <2>2. \/ pc'[d] = "create"
        \/ pc'[d] = "done" /\ outcome'[d] = "held"
        \/ pc'[d] = "done" /\ outcome'[d] = "reused" /\ IsCommitted(row[Obj(d)])
    BY ONLY <1>10, <1>p DEF Reserve, Goto, Return
  <2>3. IsCommitted(row[Obj(d)]) => vendor[Obj(d)] # <<>>
    BY ONLY <1>t, <1>o, <2>1 DEF Facts, Real
  <2>4. row' = row \/ row' = [row EXCEPT ![Obj(d)] = Reserved]
    BY ONLY <1>10 DEF Reserve
  <2>5. \A o \in Objects : IsCommitted(row'[o]) => IsCommitted(row[o])
    BY ONLY <2>4, <1>p, <1>r
  <2> QED BY ONLY <1>g, <2>1, <2>2, <2>3, <2>5
\* A row is committed for an object that is at the vendor.
<1>w. ASSUME NEW d \in Dispatchers, Alone(d), UNCHANGED <<env, ledger, late, landed, vendor>>,
             pc'[d] = "done", pc[d] # "idle", vendor[Obj(d)] # <<>>,
             row' \in {row, [row EXCEPT ![Obj(d)] = Committed(env[d], now)]},
             \/ outcome'[d] = "reused"
             \/ env[d] \in landed
      PROVE  Goal
  <2>1. Obj(d)' = Obj(d) /\ Obj(d) \in Objects
    BY ONLY <1>w, <1>o DEF Obj
  <2>2. Grounds(d)'
    BY ONLY <1>w, <2>1 DEF Grounds
  <2>3. Real'
    BY ONLY <1>w, <1>p, <1>t DEF Facts, Real
  <2>4. ApprovalFirst' /\ LedgerIsTruthful'
    BY ONLY <1>w, <1>t DEF Facts, Grown, ApprovalFirst, LedgerIsTruthful
  <2> QED BY ONLY <1>m, <1>w, <2>2, <2>3, <2>4 DEF Facts
<1>9. ASSUME NEW d \in Dispatchers, Adopt(d) PROVE Goal
  <2>1. Alone(d) /\ UNCHANGED <<env, late, landed, vendor>> /\ pc[d] = "adopt"
    BY ONLY <1>9, <1>a DEF Dispatch, Adopt, outside
  <2>2. ledger' = ledger /\ row' \in {row, [row EXCEPT ![Obj(d)] = Committed(env[d], now)]}
    BY ONLY <1>9 DEF Adopt, Written, store
  <2>3. pc'[d] = "done" /\ outcome'[d] = "reused"
    BY ONLY <1>9, <1>p DEF Adopt, Goto, Return
  <2>4. vendor[Obj(d)] # <<>>
    BY ONLY <2>1, <1>t DEF Grounds
  <2> QED BY ONLY <1>w, <2>1, <2>2, <2>3, <2>4
<1>14. ASSUME NEW d \in Dispatchers, PutRow(d) PROVE Goal
  <2>1. Alone(d) /\ UNCHANGED <<env, late, landed, vendor>> /\ pc[d] = "putRow"
    BY ONLY <1>14, <1>a DEF Dispatch, PutRow, outside
  <2>2. ledger' = ledger /\ row' \in {row, [row EXCEPT ![Obj(d)] = Committed(env[d], now)]}
    BY ONLY <1>14 DEF PutRow, Written, store
  <2>3. pc'[d] = "done"
    BY ONLY <1>14, <1>p DEF PutRow, Goto
  <2>4. env[d] \in landed /\ vendor[Obj(d)] # <<>>
    BY ONLY <2>1, <1>t DEF Grounds, Facts, Real, Obj
  <2> QED BY ONLY <1>w, <2>1, <2>2, <2>3, <2>4
<1>12. ASSUME NEW d \in Dispatchers, Release(d) PROVE Goal
  <2>1. Alone(d) /\ UNCHANGED <<env, late, landed, vendor>> /\ pc[d] = "release"
    BY ONLY <1>12, <1>a DEF Dispatch, Release, outside
  <2>2. /\ ledger' = ledger
        /\ \/ row' = row
           \/ row' = [row EXCEPT ![Obj(d)] = IF @ = Reserved THEN NoRow ELSE @]
    BY ONLY <1>12 DEF Release, Written, store
  <2>3. \A o \in Objects : IsCommitted(row'[o]) => IsCommitted(row[o])
    BY ONLY <2>2, <1>p, <1>r
  <2>4. pc'[d] = "done" /\ outcome'[d] = outcome[d]
    BY ONLY <1>12, <1>p DEF Release, Goto
  <2>5. outcome'[d] \notin {"created", "updated", "reused"}
    BY ONLY <2>1, <2>4, <1>t DEF Grounds
  <2> QED BY ONLY <1>g, <2>1, <2>2, <2>3, <2>4, <2>5
<1>13. ASSUME NEW d \in Dispatchers, RecordLedger(d) PROVE Goal
  <2>1. Alone(d) /\ UNCHANGED <<env, late, landed, vendor>> /\ pc[d] = "recordLedger"
    BY ONLY <1>13, <1>a DEF Dispatch, RecordLedger, outside
  <2>2. row' = row /\ ledger' \in {ledger, ledger \cup {env[d]}}
    BY ONLY <1>13 DEF RecordLedger, Written, store
  <2>3. pc'[d] = "putRow"
    BY ONLY <1>13, <1>p DEF RecordLedger, Goto
  <2>4. env[d] \in landed /\ Granted(env[d])
    BY ONLY <2>1, <1>t DEF Grounds
  <2>5. Grounds(d)'
    BY ONLY <2>1, <2>3, <2>4, <1>t DEF Grounds, Granted, Grown
  <2>6. Facts'
    BY ONLY <2>1, <2>2, <2>4, <1>t DEF Facts, Grown, ApprovalFirst, LedgerIsTruthful, Real
  <2> QED BY ONLY <1>m, <2>1, <2>5, <2>6

\* A create puts an object of its envelope's at the vendor.
<1>v. ASSUME NEW e \in Envelopes, VendorCreates(e)
      PROVE  vendor'[ObjectOf[e]] # <<>> /\ landed' = landed \cup {e}
  <2>1. ObjectOf[e] \in Objects /\ [content |-> e, at |-> now] \in VendorObjects
    BY ONLY <1>p, <1>v, GatewayAssumption DEF VendorObjects
  <2>2. Append(vendor[ObjectOf[e]], [content |-> e, at |-> now]) # <<>>
    BY ONLY <1>p, <2>1, VendorSeq
  <2> QED BY ONLY <1>v, <1>p, <2>1, <2>2 DEF VendorCreates
<1>7. ASSUME NEW d \in Dispatchers, Update(d) PROVE Goal
  <2>1. Alone(d) /\ UNCHANGED <<env, row, ledger>> /\ pc[d] = "update"
    BY ONLY <1>7, <1>a DEF Dispatch, Update, store
  <2>2. /\ env[d] \in Envelopes /\ Obj(d) \in Objects /\ Granted(env[d])
        /\ Obj(d) = ObjectOf[env[d]]
    BY ONLY <2>1, <1>o, <1>t DEF Grounds, Obj
  <2>3. /\ late' = late
        /\ landed' = landed \/ (landed' = landed \cup {env[d]} /\ vendor[Obj(d)] # <<>>)
    BY ONLY <1>7 DEF Update, Land, outside
  <2>4. \/ pc'[d] = "recordLedger" /\ env[d] \in landed'
        \/ pc'[d] = "done" /\ \E code \in FaultCodes : outcome'[d] = Disposition(code)
    BY ONLY <1>7, <1>p DEF Update, Land, Goto, Return
  <2>5. vendor[Obj(d)] # <<>> => vendor'[Obj(d)] # <<>>
    BY ONLY <2>2, <1>t DEF Grown
  <2>6. Facts'
    BY ONLY <2>1, <2>2, <2>3, <2>5, <1>t, FactsLand
  <2>7. Grounds(d)'
    BY ONLY <2>1, <2>2, <2>4, <1>d, <1>e, <1>t DEF Grounds, Granted, Grown
  <2> QED BY ONLY <1>m, <2>1, <2>6, <2>7
<1>11. ASSUME NEW d \in Dispatchers, Create(d) PROVE Goal
  <2>1. Alone(d) /\ UNCHANGED <<env, row, ledger>> /\ pc[d] = "create"
    BY ONLY <1>11, <1>a DEF Dispatch, Create, store
  <2>2. env[d] \in Envelopes /\ Granted(env[d])
    BY ONLY <2>1, <1>o, <1>t DEF Grounds
  <2>3. /\ late' \subseteq late \cup {env[d]}
        /\ landed' = landed \/ VendorCreates(env[d])
    BY ONLY <1>11 DEF Create, outside
  <2>4. \/ pc'[d] = "recordLedger" /\ VendorCreates(env[d])
        \/ pc'[d] = "release" /\ \E code \in FaultCodes : outcome'[d] = Disposition(code)
    BY ONLY <1>11, <1>p DEF Create, Goto
  <2>5. Facts'
    BY ONLY <2>1, <2>2, <2>3, <1>v, <1>t, FactsLand
  <2>6. Grounds(d)'
    <3>1. pc'[d] = "recordLedger" => env[d] \in landed'
      BY ONLY <2>2, <2>4, <1>v
    <3>2. pc'[d] = "release" => outcome'[d] \notin {"created", "updated", "reused"}
      BY ONLY <2>4, <1>d
    <3> QED BY ONLY <2>1, <2>2, <2>4, <3>1, <3>2, <1>t DEF Grounds, Granted, Grown
  <2> QED BY ONLY <1>m, <2>1, <2>5, <2>6
<1>15. ASSUME NEW d \in Dispatchers,
              Collect(d) \/ \E e \in Envelopes, at \in {Fresh} \cup 0..now : Start(d, e, at)
       PROVE  Goal
  <2>1. Alone(d) /\ UNCHANGED <<row, ledger, late, landed>>
    BY ONLY <1>15, <1>a DEF Collect, Start, store, outside
  <2>2. pc'[d] \in {"idle", "approval"}
    BY ONLY <1>15, <1>p DEF Collect, Start, Goto
  <2>3. Grounds(d)'
    BY ONLY <2>2 DEF Grounds
  <2> QED BY ONLY <1>m, <1>q, <2>1, <2>3
<1>16. ASSUME NEW e \in Envelopes, LateArrival(e) PROVE Goal
  <2>1. /\ UNCHANGED <<pc, env, outcome, row, ledger>> /\ e \in late /\ late' \subseteq late
        /\ landed' = landed \/ VendorCreates(e)
    BY ONLY <1>16 DEF LateArrival, local, store
  <2>2. Granted(e)
    BY ONLY <2>1, <1>t DEF Facts, ApprovalFirst, Granted
  <2>3. late' \subseteq late \cup {e}
    BY ONLY <2>1
  <2>4. Facts'
    BY ONLY <2>1, <2>2, <2>3, <1>v, <1>t, FactsLand
  <2> QED BY ONLY <1>n, <2>1, <2>4
<1>17. ASSUME (\E e \in Envelopes : Approve(e)) \/ Tick \/ UNCHANGED vars PROVE Goal
  <2>1. UNCHANGED <<pc, env, outcome, row, ledger, late, landed>>
    BY ONLY <1>17 DEF Approve, Tick, vars, local, store, outside
  <2> QED BY ONLY <1>n, <1>q, <2>1
<1>18. ASSUME Crash PROVE Goal
  <2>1. UNCHANGED <<row, ledger, late, landed>> /\ \A d \in Dispatchers : pc'[d] = "idle"
    BY ONLY <1>18 DEF Crash, store, outside
  <2>2. \A d \in Dispatchers : Grounds(d)'
    BY ONLY <2>1 DEF Grounds
  <2> QED BY ONLY <1>q, <2>1, <2>2
<1> QED
  BY ONLY <1>t, <1>1, <1>2, <1>3, <1>4, <1>5, <1>6, <1>7, <1>8, <1>9, <1>10, <1>11, <1>12,
     <1>13, <1>14, <1>15, <1>16, <1>17, <1>18 DEF Next, Dispatch

LEMMA InitTruth == Init => TruthInv
<1> SUFFICES ASSUME Init PROVE TruthInv
  OBVIOUS
<1>1. Facts
  BY DEF Init, Facts, ApprovalFirst, LedgerIsTruthful, Real, IsCommitted, NoRow
<1>2. \A d \in Dispatchers : Grounds(d)
  BY DEF Init, Grounds
<1> QED BY <1>1, <1>2, InitType DEF TruthInv

LEMMA TruthHolds == Spec => []TruthInv
<1>1. TruthInv /\ [Next]_vars => TruthInv'
  BY StepType, StepTruth DEF TruthInv
<1> QED BY InitTruth, <1>1, PTL DEF Spec

\* No write is at the vendor, or on its way there, without the approval it
\* needs: the policy is consulted before the first await that could send it.
THEOREM ApprovalComesFirst == Spec => []ApprovalFirst
<1>1. TruthInv => ApprovalFirst
  BY DEF TruthInv, Facts
<1> QED BY TruthHolds, <1>1, PTL

\* "The ledger's single meaning is `this envelope reached the vendor'": it never
\* names an envelope that did not, adopted objects included.
THEOREM LedgerTruthful == Spec => []LedgerIsTruthful
<1>1. TruthInv => LedgerIsTruthful
  BY DEF TruthInv, Facts
<1> QED BY TruthHolds, <1>1, PTL

\* A reported create or update reached the vendor, and a reuse has an object to
\* be reused, whatever was stale, lost, crashed or only a placeholder.
THEOREM SuccessReal == Spec => []SuccessIsReal
<1>1. TruthInv => SuccessIsReal
  BY DEF TruthInv, Grounds, SuccessIsReal
<1> QED BY TruthHolds, <1>1, PTL

-----------------------------------------------------------------------------
(* One object at the vendor. *)

\* As long as no answer to its create was lost, an object that is at the vendor
\* has a row, a placeholder at least: so a stale probe is stopped by the
\* reservation, and whoever is past it finds nothing at the vendor.
Unborn ==
  /\ \A e \in late : ObjectOf[e] \in lost
  /\ \A o \in Objects \ lost : row[o] = NoRow /\ ~Strange(o) => vendor[o] = <<>>
  /\ \A d \in Dispatchers :
       pc[d] \in {"create", "release"} /\ Obj(d) \notin lost => vendor[Obj(d)] = <<>>
Single == \A o \in Objects \ lost : Len(vendor[o]) <= 1
BirthInv == CreatorInv /\ ForeignInv /\ Unborn /\ Single

LEMMA StepBirth == BirthInv /\ [Next]_vars => Unborn' /\ Single'
<1> DEFINE Goal == Unborn' /\ Single'
<1> SUFFICES ASSUME BirthInv, [Next]_vars PROVE Goal
  OBVIOUS
<1>t. IType /\ OneCreator /\ CreatorsHold /\ NothingForeign /\ Unborn /\ Single /\ [Next]_vars
  BY DEF BirthInv, CreatorInv, ForeignInv
<1>p. /\ pc \in [Dispatchers -> Steps] /\ row \in [Objects -> Rows]
      /\ vendor \in [Objects -> Seq(VendorObjects)] /\ now \in Time
  BY ONLY <1>t DEF IType, TypeOK
<1>o. \A d \in Dispatchers : pc[d] # "idle" => env[d] \in Envelopes /\ Obj(d) \in Objects
  BY ONLY <1>t, GatewayAssumption DEF IType, Occupied, Obj
<1>c. \A e, t : Committed(e, t) # NoRow
  BY DEF Committed, NoRow
<1>a. \A d \in Dispatchers :
        Dispatch(d) \/ Collect(d)
          \/ (\E e \in Envelopes, at \in {Fresh} \cup 0..now : Start(d, e, at)) => Alone(d)
  BY ONLY <1>t, DispatchAlone
<1>h. \A d \in Dispatchers :
        pc[d] \in {"create", "release"} /\ Obj(d) \notin lost => vendor[Obj(d)] = <<>>
  BY ONLY <1>t DEF Unborn
\* A step that writes nothing at the vendor, drops no row and creates nothing.
<1>s. ASSUME UNCHANGED <<vendor, late, lost>>,
             \A o \in Objects : row'[o] = NoRow => row[o] = NoRow,
             \A d \in Dispatchers : pc'[d] \in {"create", "release"}
               => pc[d] \in {"create", "release"} /\ env'[d] = env[d]
      PROVE  Goal
  <2>1. Unborn'
    BY ONLY <1>s, <1>t DEF Unborn, Obj, Strange
  <2> QED BY ONLY <2>1, <1>s, <1>t DEF Single
\* A step that touches one object, and that one has lost an answer by then.
<1>l. ASSUME NEW o \in Objects, o \in lost', lost \subseteq lost', row' = row,
             \A q \in Objects \ {o} : vendor'[q] = vendor[q],
             \A e \in late' : e \in late \/ ObjectOf[e] = o,
             \A d \in Dispatchers : pc'[d] \in {"create", "release"}
               => pc[d] \in {"create", "release"} /\ env'[d] = env[d]
      PROVE  Goal
  <2>1. \A d \in Dispatchers : pc'[d] \in {"create", "release"}
          => /\ pc[d] \in {"create", "release"} /\ Obj(d)' = Obj(d)
             /\ Obj(d) \in Objects
    BY ONLY <1>l, <1>o DEF Obj
  <2>2. Unborn'
    BY ONLY <1>l, <2>1, <1>t DEF Unborn, Strange
  <2> QED BY ONLY <2>2, <1>l, <1>t DEF Single
<1>1. ASSUME NEW d \in Dispatchers,
             \/ CheckApproval(d) \/ ResolveCredential(d) \/ LookupLedger(d) \/ LookupKey(d)
             \/ LookupObject(d) \/ CheckAuthor(d) \/ Probe(d)
      PROVE  Goal
  <2>1. Alone(d) /\ UNCHANGED <<vendor, late, lost, row>>
    BY ONLY <1>1, <1>a DEF Dispatch, CheckApproval, ResolveCredential, LookupLedger,
       LookupKey, LookupObject, CheckAuthor, Probe, store, outside
  <2>2. pc'[d] \notin {"create", "release"}
    BY ONLY <1>1, <1>p DEF CheckApproval, ResolveCredential, LookupLedger, LookupKey,
       LookupObject, CheckAuthor, Probe, LookupFault, Goto, Return
  <2> QED BY ONLY <1>s, <2>1, <2>2 DEF Alone
<1>2. ASSUME NEW d \in Dispatchers, Adopt(d) \/ PutRow(d) \/ RecordLedger(d) PROVE Goal
  <2>1. Alone(d) /\ UNCHANGED <<vendor, late, lost>>
    BY ONLY <1>2, <1>a DEF Dispatch, Adopt, PutRow, RecordLedger, outside
  <2>2. row' \in {row, [row EXCEPT ![Obj(d)] = Committed(env[d], now)]}
    BY ONLY <1>2 DEF Adopt, PutRow, RecordLedger, Written, store
  <2>3. \A o \in Objects : row'[o] = NoRow => row[o] = NoRow
    BY ONLY <2>2, <1>p, <1>c
  <2>4. pc'[d] \notin {"create", "release"}
    BY ONLY <1>2, <1>p DEF Adopt, PutRow, RecordLedger, Goto, Return
  <2> QED BY ONLY <1>s, <2>1, <2>3, <2>4 DEF Alone
\* The winner of a reservation found no row, so nothing is at the vendor.
<1>3. ASSUME NEW d \in Dispatchers, Reserve(d) PROVE Goal
  <2>1. Alone(d) /\ UNCHANGED <<env, vendor, late, lost>> /\ pc[d] = "reserve"
    BY ONLY <1>3, <1>a DEF Dispatch, Reserve, outside
  <2>2. \/ pc'[d] = "create" /\ row[Obj(d)] = NoRow /\ row' = [row EXCEPT ![Obj(d)] = Reserved]
        \/ pc'[d] = "done" /\ row' = row
    BY ONLY <1>3, <1>p DEF Reserve, Goto, Return
  <2>3. Obj(d) \in Objects /\ ~Strange(Obj(d))
    BY ONLY <2>1, <1>o, <1>t DEF NothingForeign
  <2>4. CASE pc'[d] = "done" /\ row' = row
    BY ONLY <2>1, <2>4, <1>s DEF Alone
  <2>5. CASE row[Obj(d)] = NoRow /\ row' = [row EXCEPT ![Obj(d)] = Reserved]
    <3>1. /\ Obj(d) \notin lost => vendor[Obj(d)] = <<>>
          /\ \A x \in Dispatchers : Obj(x)' = Obj(x)
      BY ONLY <2>1, <2>3, <2>5, <1>t DEF Unborn, Obj
    <3>2. \A o \in Objects : row'[o] = NoRow => row[o] = NoRow
      BY ONLY <2>5, <1>p
    <3>3. Unborn'
      BY ONLY <2>1, <3>1, <3>2, <1>t DEF Unborn, Alone, Strange
    <3> QED BY ONLY <2>1, <3>3, <1>t DEF Single
  <2> QED BY ONLY <2>2, <2>4, <2>5
\* A placeholder is only given back where the create did nothing.
<1>4. ASSUME NEW d \in Dispatchers, Release(d) PROVE Goal
  <2>1. Alone(d) /\ UNCHANGED <<env, vendor, late, lost>> /\ pc[d] = "release" /\ pc'[d] = "done"
    BY ONLY <1>4, <1>a, <1>p DEF Dispatch, Release, Goto, outside
  <2>2. row' = row \/ row' = [row EXCEPT ![Obj(d)] = IF @ = Reserved THEN NoRow ELSE @]
    BY ONLY <1>4 DEF Release, Written, store
  <2>3. /\ Obj(d) \notin lost => vendor[Obj(d)] = <<>>
        /\ \A x \in Dispatchers : Obj(x)' = Obj(x)
    BY ONLY <2>1, <1>h DEF Obj
  <2>4. \A o \in Objects : row'[o] = NoRow => row[o] = NoRow \/ o = Obj(d)
    BY ONLY <2>2, <1>p
  <2>5. Unborn'
    BY ONLY <2>1, <2>3, <2>4, <1>t DEF Unborn, Alone, Strange
  <2> QED BY ONLY <2>1, <2>5, <1>t DEF Single
\* An update finds its object, and leaves one.
<1>5. ASSUME NEW d \in Dispatchers, Update(d) PROVE Goal
  <2> DEFINE x == [content |-> env[d], at |-> now]
  <2>1. Alone(d) /\ UNCHANGED <<env, row, late, lost>> /\ pc[d] = "update"
    BY ONLY <1>5, <1>a DEF Dispatch, Update, Land, store, outside
  <2>2. pc'[d] \in {"recordLedger", "done"}
    BY ONLY <1>5, <1>p DEF Update, Goto, Return
  <2>3. \/ vendor' = vendor
        \/ vendor[Obj(d)] # <<>> /\ vendor' = [vendor EXCEPT ![Obj(d)][1] = x]
    BY ONLY <1>5 DEF Update, outside
  <2>4. CASE vendor' = vendor
    BY ONLY <2>1, <2>2, <2>4, <1>s DEF Alone
  <2>5. CASE vendor[Obj(d)] # <<>> /\ vendor' = [vendor EXCEPT ![Obj(d)][1] = x]
    <3>1. Obj(d) \in Objects /\ x \in VendorObjects
      BY ONLY <2>1, <1>o, <1>p DEF VendorObjects
    <3>2. Len([vendor[Obj(d)] EXCEPT ![1] = x]) = Len(vendor[Obj(d)])
      BY ONLY <2>5, <3>1, <1>p, VendorSeq
    <3>3. \A o \in Objects : Len(vendor'[o]) = Len(vendor[o])
      BY ONLY <2>5, <3>2, <1>p
    <3>4. \A o \in Objects : vendor[o] = <<>> => vendor'[o] = <<>>
      BY ONLY <2>5, <1>p
    <3>5. \A y \in Dispatchers : Obj(y)' = Obj(y)
      BY ONLY <2>1 DEF Obj
    <3>6. \A y \in Dispatchers : pc'[y] \in {"create", "release"}
            => pc[y] \in {"create", "release"} /\ Obj(y) \in Objects
      BY ONLY <2>1, <2>2, <1>o DEF Alone
    <3>8. Obj(d) \notin lost => row[Obj(d)] # NoRow
      BY ONLY <2>1, <2>5, <3>1, <1>t DEF Unborn, NothingForeign
    <3>9. \A o \in Objects \ {Obj(d)} : vendor'[o] = vendor[o]
      BY ONLY <2>5, <1>p
    <3>7. Unborn'
      BY ONLY <2>1, <3>4, <3>5, <3>6, <3>8, <3>9, <1>t DEF Unborn, Strange
    <3> QED BY ONLY <2>1, <3>3, <3>7, <1>t DEF Single
  <2> QED BY ONLY <2>3, <2>4, <2>5
\* The creator is alone at its object, finds nothing there and has its row.
<1>6. ASSUME NEW d \in Dispatchers, Create(d) PROVE Goal
  <2> DEFINE x == [content |-> env[d], at |-> now]
  <2>1. Alone(d) /\ UNCHANGED <<env, row>> /\ pc[d] = "create"
    BY ONLY <1>6, <1>a DEF Dispatch, Create, store
  <2>2. \A y \in Dispatchers : Obj(y)' = Obj(y)
    BY ONLY <2>1 DEF Obj
  <2>3. \/ pc'[d] = "release" /\ UNCHANGED <<vendor, late, lost>>
        \/ /\ pc'[d] = "release" /\ lost' = lost \cup {Obj(d)}
           /\ \/ VendorCreates(env[d]) /\ late' = late
              \/ vendor' = vendor /\ late' = late \cup {env[d]}
        \/ pc'[d] = "recordLedger" /\ VendorCreates(env[d]) /\ UNCHANGED <<late, lost>>
    BY ONLY <1>6, <1>p DEF Create, Goto, outside
  <2>4. CASE pc'[d] = "release" /\ UNCHANGED <<vendor, late, lost>>
    BY ONLY <2>1, <2>4, <1>s DEF Alone
  <2>6. env[d] \in Envelopes /\ Obj(d) \in Objects /\ row[Obj(d)] # NoRow
    BY ONLY <2>1, <1>o, <1>t DEF CreatorsHold, Creating
  <2>7. VendorCreates(env[d]) => \A q \in Objects \ {Obj(d)} : vendor'[q] = vendor[q]
    BY ONLY <1>p DEF VendorCreates, Obj
  <2>8. CASE /\ pc'[d] \in {"release", "recordLedger"} /\ lost' = lost \cup {Obj(d)}
             /\ \/ VendorCreates(env[d]) /\ late' = late
                \/ vendor' = vendor /\ late' = late \cup {env[d]}
    <3>1. \A e \in late' : e \in late \/ ObjectOf[e] = Obj(d)
      BY ONLY <2>8 DEF Obj
    <3>2. \A y \in Dispatchers : pc'[y] \in {"create", "release"}
            => pc[y] \in {"create", "release"} /\ env'[y] = env[y]
      BY ONLY <2>1, <2>8 DEF Alone
    <3> QED BY ONLY <1>l, <2>1, <2>6, <2>7, <2>8, <3>1, <3>2
  <2>9. CASE Obj(d) \in lost /\ pc'[d] = "recordLedger" /\ VendorCreates(env[d])
               /\ UNCHANGED <<late, lost>>
    <3>1. lost' = lost \cup {Obj(d)}
      BY ONLY <2>9
    <3> QED BY ONLY <2>8, <2>9, <3>1
  <2>5. CASE Obj(d) \notin lost /\ pc'[d] = "recordLedger" /\ VendorCreates(env[d])
               /\ UNCHANGED <<late, lost>>
    <3>1. /\ Obj(d) \in Objects /\ vendor[Obj(d)] = <<>> /\ row[Obj(d)] # NoRow
          /\ env[d] \in Envelopes
      BY ONLY <2>1, <2>5, <2>6, <1>h
    <3>2. vendor' = [vendor EXCEPT ![Obj(d)] = Append(@, x)]
      BY ONLY <2>5 DEF VendorCreates, Obj
    <3>3. Append(vendor[Obj(d)], x) = <<x>> /\ Len(<<x>>) = 1
      <4>1. x \in VendorObjects
        BY ONLY <3>1, <1>p DEF VendorObjects
      <4> QED BY ONLY <3>1, <4>1, <1>p, VendorSeq
    <3>4. vendor' = [vendor EXCEPT ![Obj(d)] = <<x>>]
      BY ONLY <3>1, <3>2, <3>3, <1>p
    <3>5. \A y \in Dispatchers \ {d} : pc[y] \in {"create", "release"} => Obj(y) # Obj(d)
      BY ONLY <2>1, <1>t DEF OneCreator, Creating
    <3>6. \A y \in Dispatchers : pc'[y] \in {"create", "release"}
            => /\ Obj(y) \notin lost => vendor[Obj(y)] = <<>>
               /\ Obj(y) # Obj(d) /\ Obj(y) \in Objects
      BY ONLY <2>1, <2>5, <3>5, <1>h, <1>o DEF Alone
    <3>7. Unborn'
      BY ONLY <2>1, <2>2, <2>5, <3>1, <3>4, <3>6, <1>p, <1>t DEF Unborn, Strange
    <3>8. Single'
      BY ONLY <2>5, <3>3, <3>4, <1>p, <1>t DEF Single
    <3> QED BY ONLY <3>7, <3>8
  <2> QED BY ONLY <2>3, <2>4, <2>5, <2>8, <2>9
<1>7. ASSUME NEW d \in Dispatchers,
             Collect(d) \/ \E e \in Envelopes, at \in {Fresh} \cup 0..now : Start(d, e, at)
      PROVE  Goal
  <2>1. Alone(d) /\ UNCHANGED <<vendor, late, lost, row>>
    BY ONLY <1>7, <1>a DEF Collect, Start, store, outside
  <2>2. pc'[d] \in {"idle", "approval"}
    BY ONLY <1>7, <1>p DEF Collect, Start, Goto
  <2> QED BY ONLY <1>s, <2>1, <2>2 DEF Alone
<1>8. ASSUME NEW e \in Envelopes, LateArrival(e) PROVE Goal
  <2>1. /\ ObjectOf[e] \in Objects /\ ObjectOf[e] \in lost
        /\ late' = late \ {e} /\ UNCHANGED <<lost, row, pc, env>>
    BY ONLY <1>8, <1>t, GatewayAssumption DEF LateArrival, Unborn, local, store
  <2>2. \A q \in Objects \ {ObjectOf[e]} : vendor'[q] = vendor[q]
    BY ONLY <1>8, <1>p DEF LateArrival, VendorCreates
  <2>3. lost \subseteq lost' /\ \A y \in late' : y \in late
    BY ONLY <2>1
  <2> QED BY ONLY <1>l, <2>1, <2>2, <2>3
<1>9. ASSUME (\E e \in Envelopes : Approve(e)) \/ Tick \/ UNCHANGED vars PROVE Goal
  <2>1. UNCHANGED <<pc, env, vendor, late, lost, row>>
    BY ONLY <1>9 DEF Approve, Tick, vars, local, store, outside
  <2> QED BY ONLY <1>s, <2>1
<1>10. ASSUME Crash PROVE Goal
  <2>1. UNCHANGED <<vendor, late, lost, row>> /\ \A d \in Dispatchers : pc'[d] = "idle"
    BY ONLY <1>10 DEF Crash, store, outside
  <2> QED BY ONLY <1>s, <2>1
<1> QED
  BY ONLY <1>t, <1>1, <1>2, <1>3, <1>4, <1>5, <1>6, <1>7, <1>8, <1>9, <1>10 DEF Next, Dispatch

\* At first an identity has one object at most, somebody else's.
LEMMA OneAtFirst == Init => \A o \in Objects : Len(vendor[o]) <= 1
<1> SUFFICES ASSUME Init PROVE \A o \in Objects : Len(vendor[o]) <= 1
  OBVIOUS
<1>1. [content |-> Foreign, at |-> 0] \in VendorObjects
  BY GatewayAssumption DEF VendorObjects, Time
<1>2. Len(<<>>) = 0 /\ Len(<<[content |-> Foreign, at |-> 0]>>) = 1
  BY <1>1, VendorSeq
<1>3. vendor \in [Objects -> {<<>>, <<[content |-> Foreign, at |-> 0]>>}]
  BY DEF Init
<1>4. ASSUME NEW o \in Objects PROVE Len(vendor[o]) <= 1
  <2> DEFINE y == <<[content |-> Foreign, at |-> 0]>>
  <2>1. Len(y) <= 1 /\ Len(<<>>) <= 1
    BY ONLY <1>2
  <2>2. vendor[o] = y \/ vendor[o] = <<>>
    BY ONLY <1>3, <1>4
  <2> HIDE DEF y
  <2> QED BY ONLY <2>1, <2>2
<1> QED BY ONLY <1>4

LEMMA InitBirth == Init => BirthInv
<1> SUFFICES ASSUME Init PROVE BirthInv
  OBVIOUS
<1>1. Unborn
  <2>1. \A o \in Objects : vendor[o] # <<>> =>
          vendor[o] = <<[content |-> Foreign, at |-> 0]>>
    <3>1. vendor \in [Objects -> {<<>>, <<[content |-> Foreign, at |-> 0]>>}]
      BY DEF Init
    <3> QED BY ONLY <3>1
  <2>2. <<[content |-> Foreign, at |-> 0]>>[1].content = Foreign
    OBVIOUS
  <2>3. \A o \in Objects : vendor[o] # <<>> => Strange(o)
    BY <2>1, <2>2 DEF Strange
  <2> QED BY <2>3 DEF Init, Unborn
<1> QED BY <1>1, OneAtFirst, InitCreators, InitForeign DEF BirthInv, Single

\* A vendor that refuses a second create of an id keeps one object by itself,
\* lost answers and late arrivals included.
LEMMA StepClientIds ==
  ASSUME ClientIds
  PROVE  IType /\ NoDuplicateObject /\ [Next]_vars => NoDuplicateObject'
<1> SUFFICES ASSUME IType, NoDuplicateObject, [Next]_vars PROVE NoDuplicateObject'
  OBVIOUS
<1>t. IType /\ NoDuplicateObject /\ ClientIds /\ [Next]_vars
  OBVIOUS
<1>p. vendor \in [Objects -> Seq(VendorObjects)] /\ now \in Time
  BY ONLY <1>t DEF IType, TypeOK
<1>1. ASSUME vendor' = vendor PROVE NoDuplicateObject'
  BY ONLY <1>1, <1>t DEF NoDuplicateObject
<1>2. ASSUME NEW e \in Envelopes, VendorCreates(e) PROVE NoDuplicateObject'
  <2> DEFINE x == [content |-> e, at |-> now]
  <2>1. vendor[ObjectOf[e]] = <<>> /\ vendor' = [vendor EXCEPT ![ObjectOf[e]] = Append(@, x)]
    BY ONLY <1>2, <1>t DEF VendorCreates
  <2>2. x \in VendorObjects /\ ObjectOf[e] \in Objects
    BY ONLY <1>2, <1>p, GatewayAssumption DEF VendorObjects
  <2>3. Append(vendor[ObjectOf[e]], x) = <<x>> /\ Len(<<x>>) = 1
    BY ONLY <2>1, <2>2, <1>p, VendorSeq
  <2>4. vendor' = [vendor EXCEPT ![ObjectOf[e]] = <<x>>]
    BY ONLY <2>1, <2>3, <1>p
  <2> QED BY ONLY <2>3, <2>4, <1>p, <1>t DEF NoDuplicateObject
<1>3. ASSUME NEW d \in Dispatchers, Update(d) PROVE NoDuplicateObject'
  <2> DEFINE x == [content |-> env[d], at |-> now]
  <2>1. \/ vendor' = vendor
        \/ vendor[Obj(d)] # <<>> /\ vendor' = [vendor EXCEPT ![Obj(d)][1] = x]
    BY ONLY <1>3 DEF Update, outside
  <2>2. x \in VendorObjects /\ Obj(d) \in Objects
    BY ONLY <1>3, <1>t, <1>p, GatewayAssumption DEF VendorObjects, Update, IType, Occupied, Obj
  <2>3. vendor[Obj(d)] # <<>> => Len([vendor[Obj(d)] EXCEPT ![1] = x]) = Len(vendor[Obj(d)])
    BY ONLY <2>2, <1>p, VendorSeq
  <2> QED BY ONLY <1>1, <2>1, <2>2, <2>3, <1>p, <1>t DEF NoDuplicateObject
<1>4. ASSUME NEW d \in Dispatchers, Create(d) PROVE NoDuplicateObject'
  <2>1. vendor' = vendor \/ VendorCreates(env[d])
    BY ONLY <1>4 DEF Create, outside
  <2>2. env[d] \in Envelopes
    BY ONLY <1>4, <1>t DEF Create, IType, Occupied
  <2> QED BY ONLY <1>1, <1>2, <2>1, <2>2
<1>5. ASSUME NEW d \in Dispatchers, Dispatch(d), ~ Update(d), ~ Create(d) PROVE NoDuplicateObject'
  <2>1. vendor' = vendor
    BY ONLY <1>5 DEF Dispatch, CheckApproval, ResolveCredential, LookupLedger, LookupKey,
       LookupObject, CheckAuthor, Probe, Adopt, Reserve, Release, RecordLedger, PutRow, outside
  <2> QED BY ONLY <1>1, <2>1
<1>6. ASSUME NEW e \in Envelopes, LateArrival(e) PROVE NoDuplicateObject'
  BY ONLY <1>1, <1>2, <1>6 DEF LateArrival
<1>7. ASSUME NEW d \in Dispatchers,
             Collect(d) \/ \E e \in Envelopes, at \in {Fresh} \cup 0..now : Start(d, e, at)
      PROVE  NoDuplicateObject'
  BY ONLY <1>1, <1>7 DEF Collect, Start, outside
<1>8. ASSUME (\E e \in Envelopes : Approve(e)) \/ Tick \/ Crash \/ UNCHANGED vars
      PROVE  NoDuplicateObject'
  BY ONLY <1>1, <1>8 DEF Approve, Tick, Crash, vars, outside
<1> QED
  BY ONLY <1>t, <1>3, <1>4, <1>5, <1>6, <1>7, <1>8 DEF Next

\* One identity gets one vendor object, however dispatches, crashes, swallowed
\* store faults, stale probes and late requests interleave, unless an answer to
\* one of its own creates was lost at a vendor that does not know the id.
THEOREM OneObjectEach == Spec => []NoDuplicateObject
<1>1. CASE ~ ClientIds
  <2>1. BirthInv /\ [Next]_vars => BirthInv'
    BY StepBirth, StepType, StepCreators, StepForeign DEF BirthInv, CreatorInv, ForeignInv
  <2>2. BirthInv => NoDuplicateObject
    BY <1>1 DEF BirthInv, Single, NoDuplicateObject
  <2> QED BY InitBirth, <2>1, <2>2, PTL DEF Spec
<1>2. CASE ClientIds
  <2>1. IType /\ NoDuplicateObject /\ [Next]_vars => (IType /\ NoDuplicateObject)'
    BY <1>2, StepClientIds, StepType
  <2>2. Init => IType /\ NoDuplicateObject
    BY OneAtFirst, InitType DEF NoDuplicateObject
  <2> QED BY <2>1, <2>2, PTL DEF Spec
<1> QED BY <1>1, <1>2

-----------------------------------------------------------------------------
(* The papers: proposals, decisions and the entries that are driven. *)

\* What the papers may hold: nothing on them is of a later instant than the
\* clock's, so that a re-driven intent is one the gateway may be given.
Slips == [of: Envelopes, status: {"proposed", "retry_queued"}, at: 0..now]
PapersType ==
  /\ card \in [Envelopes -> {"none", "pending", "approved", "rejected"}]
  /\ entry \in [Envelopes -> [status: {"none", "proposed", "retry_queued"} \cup TerminalEntries,
                              at: 0..now]]
  /\ backoff \subseteq Envelopes /\ closing \subseteq Envelopes
  /\ snap \in [Dispatchers -> [of: Envelopes \cup {NoEnv},
                               status: {"none", "proposed", "retry_queued"}, at: 0..now]]
  /\ batch \cup shut \subseteq Slips

\* The owner's approvals are those on the cards.
Consented == approved = {e \in Envelopes : card[e] = "approved"}
\* A dispatcher that is not idle drives the entry of the envelope it was given.
Driven == \A d \in Dispatchers : pc[d] # "idle" => snap[d].of = env[d]
PapersInv == TruthInv /\ PapersType /\ Consented /\ Driven

\* A step of the gateway sends at most one write, and only a granted one.
LEMMA LandsGranted ==
  ASSUME TruthInv, [Next]_vars
  PROVE  landed' = landed \/ \E e \in Envelopes : Granted(e) /\ landed' = landed \cup {e}
<1> DEFINE Goal == landed' = landed \/ \E e \in Envelopes : Granted(e) /\ landed' = landed \cup {e}
<1>t. TruthInv /\ [Next]_vars
  OBVIOUS
<1>1. ASSUME NEW d \in Dispatchers, Update(d) \/ Create(d) PROVE Goal
  <2>1. env[d] \in Envelopes /\ Granted(env[d])
    BY ONLY <1>1, <1>t DEF TruthInv, IType, Occupied, Grounds, Update, Create
  <2>2. landed' = landed \/ landed' = landed \cup {env[d]}
    BY ONLY <1>1 DEF Update, Create, VendorCreates, Land, outside
  <2> QED BY ONLY <2>1, <2>2
<1>2. ASSUME NEW e \in Envelopes, LateArrival(e) PROVE Goal
  <2>1. Granted(e)
    BY ONLY <1>2, <1>t DEF TruthInv, Facts, ApprovalFirst, Granted, LateArrival
  <2>2. landed' = landed \/ landed' = landed \cup {e}
    BY ONLY <1>2 DEF LateArrival, VendorCreates
  <2> QED BY ONLY <1>2, <2>1, <2>2
<1>3. ASSUME NEW d \in Dispatchers, Dispatch(d), ~ Update(d), ~ Create(d) PROVE Goal
  BY ONLY <1>3 DEF Dispatch, CheckApproval, ResolveCredential, LookupLedger, LookupKey,
     LookupObject, CheckAuthor, Probe, Adopt, Reserve, Release, RecordLedger, PutRow, outside
<1>4. ASSUME NEW d \in Dispatchers,
             Collect(d) \/ \E e \in Envelopes, at \in {Fresh} \cup 0..now : Start(d, e, at)
      PROVE  Goal
  BY ONLY <1>4 DEF Collect, Start, outside
<1>5. ASSUME (\E e \in Envelopes : Approve(e)) \/ Tick \/ Crash \/ UNCHANGED vars PROVE Goal
  BY ONLY <1>5 DEF Approve, Tick, Crash, vars, outside
<1> QED BY ONLY <1>t, <1>1, <1>2, <1>3, <1>4, <1>5 DEF Next

\* The owner's decision changes nothing of the gateway's but the approvals.
LEMMA TruthUnderConsent ==
  ASSUME TruthInv, NEW e \in Envelopes, OwnerApproves(e)
  PROVE  TruthInv'
<1>1. /\ UNCHANGED <<pc, env, intentAt, seen, outcome, row, ledger, vendor, late, landed,
                     lost, pending, now, crashes>>
      /\ approved' = approved \cup {e}
  BY DEF OwnerApproves, local, store, outside, counters
<1>2. IType /\ Facts /\ \A d \in Dispatchers : Grounds(d)
  BY DEF TruthInv
<1>3. IType'
  BY ONLY <1>1, <1>2, e \in Envelopes DEF IType, TypeOK, Occupied
<1>4. Grown
  BY ONLY <1>1 DEF Grown
<1>5. Facts'
  BY ONLY <1>1, <1>2, <1>4, FactsKept
<1>6. \A d \in Dispatchers : Grounds(d)'
  BY ONLY <1>1, <1>2, <1>4, GroundsKept
<1> QED BY ONLY <1>3, <1>5, <1>6 DEF TruthInv

\* What a step of the papers is to the gateway: a step of its own that leaves
\* the approvals, a stutter, or the owner's approval.
LEMMA PapersMove ==
  ASSUME PapersType, [WritesNext]_writesVars
  PROVE  \/ [Next]_vars /\ approved' = approved
         \/ \E e \in Envelopes : OwnerApproves(e)
<1> DEFINE Goal == \/ [Next]_vars /\ approved' = approved
                   \/ \E e \in Envelopes : OwnerApproves(e)
<1>t. PapersType /\ [WritesNext]_writesVars
  OBVIOUS
<1>0. vars' = vars => Goal
  BY ONLY DEF vars, consent
<1>1. ASSUME NEW e \in Envelopes,
             \/ ProposeSave(e) \/ ProposeCard(e) \/ OwnerRejects(e) \/ FindEntry(e)
             \/ BackoffElapses(e)
      PROVE  Goal
  BY ONLY <1>0, <1>1 DEF ProposeSave, ProposeCard, OwnerRejects, FindEntry, BackoffElapses
<1>2. ASSUME NEW d \in Dispatchers, NEW e \in Envelopes, NEW at \in 0..now, Start(d, e, at)
      PROVE  Goal
  BY ONLY <1>2 DEF Start, Next, consent
<1>3. ASSUME NEW e \in Envelopes, NEW d \in Dispatchers, Send(d, e) PROVE Goal
  <2>1. entry[e].at \in 0..now /\ Start(d, e, entry[e].at)
    BY ONLY <1>3, <1>t DEF Send, PapersType
  <2> QED BY ONLY <1>2, <2>1
<1>4. ASSUME NEW d \in Dispatchers, Dispatch(d) \/ Collect(d) PROVE Goal
  <2>1. approved' = approved
    BY ONLY <1>4 DEF Dispatch, Collect, CheckApproval, ResolveCredential, LookupLedger, LookupKey,
       LookupObject, CheckAuthor, Update, Probe, Adopt, Reserve, Create, Release, RecordLedger,
       PutRow, consent
  <2> QED BY ONLY <1>4, <2>1 DEF Next
<1>5. ASSUME NEW d \in Dispatchers, Gateway(d) \/ Fold(d) PROVE Goal
  BY ONLY <1>4, <1>5 DEF Gateway, Fold
<1>6. CASE DriveNext
  <2>1. vars' = vars \/ \E s \in batch : Start(Drain, s.of, s.at)
    BY ONLY <1>6 DEF DriveNext
  <2>2. \A s \in batch : s.of \in Envelopes /\ s.at \in 0..now
    BY ONLY <1>t DEF PapersType, Slips
  <2> QED BY ONLY <1>0, <1>2, <2>1, <2>2, WritesAssumption DEF WritesAssumption
<1>7. CASE World \/ WorkerCrash
  BY ONLY <1>7 DEF World, WorkerCrash, LateArrival, Tick, Crash, consent, Next
<1>8. CASE ListDue \/ CloseEntry \/ UNCHANGED writesVars
  BY ONLY <1>0, <1>8 DEF ListDue, CloseEntry, writesVars
<1> QED BY ONLY <1>t, <1>1, <1>3, <1>5, <1>6, <1>7, <1>8 DEF WritesNext

\* The instants on papers grow old: the clock never goes back.
LEMMA ClockOnward ==
  ASSUME TypeOK, WritesNext \/ UNCHANGED writesVars
  PROVE  now \in Nat /\ now' \in Nat /\ now <= now'
<1>t. (WritesNext \/ UNCHANGED writesVars) /\ now \in Nat
  BY GatewayAssumption DEF TypeOK, Time
<1>1. now' = now \/ now' = now + 1
  BY ONLY <1>t DEF WritesNext, ProposeSave, ProposeCard, OwnerApproves, OwnerRejects, FindEntry, CloseEntry,
     BackoffElapses, Send, Start, Gateway, Dispatch, Fold, Collect, ListDue, DriveNext, World,
     WorkerCrash, LateArrival, Tick, Crash, CheckApproval, ResolveCredential, LookupLedger,
     LookupKey, LookupObject, CheckAuthor, Update, Probe, Adopt, Reserve, Create, Release,
     RecordLedger, PutRow, vars, writesVars, counters
<1> QED BY <1>t, <1>1

LEMMA StepDriven ==
  ASSUME IType, PapersType, Driven, [WritesNext]_writesVars
  PROVE  Driven'
<1>t. IType /\ PapersType /\ Driven /\ [WritesNext]_writesVars
  OBVIOUS
<1>p. /\ pc \in [Dispatchers -> Steps] /\ env \in [Dispatchers -> Envelopes \cup {NoEnv}]
      /\ DOMAIN snap = Dispatchers
  BY ONLY <1>t DEF IType, TypeOK, PapersType
<1>s. UNCHANGED <<pc, env, snap>> => Driven'
  BY ONLY <1>t DEF Driven
<1>1. ASSUME NEW d \in Dispatchers, NEW s, NEW at,
             Start(d, s.of, at), snap' = [snap EXCEPT ![d] = s]
      PROVE  Driven'
  <2>1. env' = [env EXCEPT ![d] = s.of] /\ \A x \in Dispatchers \ {d} : pc'[x] = pc[x]
    BY ONLY <1>1, <1>p DEF Start, Goto
  <2> QED BY ONLY <1>1, <1>p, <1>t, <2>1 DEF Driven
<1>2. ASSUME NEW d \in Dispatchers, Gateway(d) PROVE Driven'
  <2>1. Alone(d) /\ snap' = snap
    BY ONLY <1>2, <1>t, DispatchAlone DEF Gateway, drives
  <2>2. env' = env /\ pc[d] # "idle"
    BY ONLY <1>2 DEF Gateway, Dispatch, CheckApproval, ResolveCredential, LookupLedger, LookupKey,
       LookupObject, CheckAuthor, Update, Probe, Adopt, Reserve, Create, Release, RecordLedger,
       PutRow
  <2> QED BY ONLY <1>t, <2>1, <2>2 DEF Driven, Alone
<1>3. ASSUME NEW d \in Dispatchers, Fold(d) PROVE Driven'
  <2>1. Alone(d) /\ snap' = [snap EXCEPT ![d] = NoSnapshot]
    BY ONLY <1>3, <1>t, DispatchAlone DEF Fold
  <2>2. pc'[d] = "idle"
    BY ONLY <1>3, <1>p DEF Fold, Collect, Goto
  <2> QED BY ONLY <1>p, <1>t, <2>1, <2>2 DEF Driven, Alone
<1>4. ASSUME NEW e \in Envelopes, NEW d \in Dispatchers, Send(d, e) PROVE Driven'
  <2>1. Snapshot(e).of = e /\ Start(d, e, entry[e].at) /\ snap' = [snap EXCEPT ![d] = Snapshot(e)]
    BY ONLY <1>4 DEF Send, Snapshot
  <2> QED BY ONLY <1>1, <2>1
<1>5. CASE DriveNext
  BY ONLY <1>1, <1>s, <1>5, WritesAssumption DEF DriveNext, WritesAssumption, vars, local
<1>6. CASE WorkerCrash
  BY ONLY <1>6 DEF WorkerCrash, Crash, Driven
<1>7. CASE World \/ ListDue \/ CloseEntry \/ UNCHANGED writesVars
  BY ONLY <1>s, <1>7 DEF World, LateArrival, Tick, ListDue, CloseEntry, writesVars, vars, local,
     drives
<1>8. ASSUME NEW e \in Envelopes,
             \/ ProposeSave(e) \/ ProposeCard(e) \/ OwnerApproves(e) \/ OwnerRejects(e)
             \/ FindEntry(e) \/ BackoffElapses(e)
      PROVE  Driven'
  BY ONLY <1>s, <1>8 DEF ProposeSave, ProposeCard, OwnerApproves, OwnerRejects, FindEntry,
     BackoffElapses, vars, local, drives
<1> QED BY ONLY <1>t, <1>2, <1>3, <1>4, <1>5, <1>6, <1>7, <1>8 DEF WritesNext

LEMMA StepPapers ==
  ASSUME TruthInv, PapersType, Consented, Driven, [WritesNext]_writesVars
  PROVE  PapersType' /\ Consented'
<1> DEFINE Goal == PapersType' /\ Consented'
<1>t. PapersType /\ Consented /\ [WritesNext]_writesVars
  OBVIOUS
<1>d. \A d \in Dispatchers : pc[d] # "idle" => snap[d].of \in Envelopes
  BY DEF TruthInv, IType, Occupied, Driven
<1>n. now \in 0..now /\ 0 \in 0..now /\ 0..now \subseteq 0..now'
  <2>1. TypeOK
    BY DEF TruthInv, IType
  <2>2. now \in Nat /\ now' \in Nat /\ now <= now'
    BY ONLY <1>t, <2>1, ClockOnward
  <2> QED BY ONLY <2>2
<1>a. \A d \in Dispatchers : Dispatch(d) \/ Collect(d) => approved' = approved
  BY ONLY DEF Dispatch, Collect, CheckApproval, ResolveCredential, LookupLedger, LookupKey,
     LookupObject, CheckAuthor, Update, Probe, Adopt, Reserve, Create, Release, RecordLedger,
     PutRow, consent
<1>s. ASSUME UNCHANGED papers, UNCHANGED drives PROVE PapersType'
  BY ONLY <1>n, <1>s, <1>t DEF PapersType, Slips, papers, drives, closes
\* What OutboxRepository.update writes back is a snapshot.
<1>w. ASSUME NEW s, s.at \in 0..now,
             NEW status \in {"proposed", "retry_queued"} \cup TerminalEntries, WriteBack(s, status)
      PROVE  entry' \in [Envelopes -> [status: {"none", "proposed", "retry_queued"} \cup TerminalEntries,
                                       at: 0..now']]
  BY ONLY <1>n, <1>w, <1>t DEF PapersType, WriteBack
<1>1. ASSUME NEW e \in Envelopes, ProposeSave(e) PROVE Goal
  <2>1. UNCHANGED <<card, approved, now, backoff, snap, batch, closing, shut>>
    BY ONLY <1>1 DEF ProposeSave, vars, consent, counters, drives, closes
  <2>2. entry' = [entry EXCEPT ![e] = [status |-> "proposed", at |-> now]]
    BY ONLY <1>1 DEF ProposeSave, Saved
  <2> QED BY ONLY <1>n, <1>t, <2>1, <2>2 DEF PapersType, Consented, Slips
<1>2. ASSUME NEW e \in Envelopes, ProposeCard(e) PROVE Goal
  <2>1. UNCHANGED <<entry, approved, now, backoff, snap, batch, closing, shut>>
    BY ONLY <1>2 DEF ProposeCard, vars, consent, counters, drives, closes
  <2>2. card[e] = "none" /\ card' = [card EXCEPT ![e] = "pending"]
    BY ONLY <1>2 DEF ProposeCard
  <2> QED BY ONLY <1>t, <2>1, <2>2 DEF PapersType, Consented, Slips
<1>3. ASSUME NEW e \in Envelopes, OwnerApproves(e) PROVE Goal
  <2>1. UNCHANGED <<entry, now, backoff, snap, batch, closing, shut>>
    BY ONLY <1>3 DEF OwnerApproves, counters, drives, closes
  <2>2. card' = [card EXCEPT ![e] = "approved"] /\ approved' = approved \cup {e}
    BY ONLY <1>3 DEF OwnerApproves
  <2> QED BY ONLY <1>t, <2>1, <2>2 DEF PapersType, Consented, Slips
<1>4. ASSUME NEW e \in Envelopes, OwnerRejects(e) PROVE Goal
  <2>1. UNCHANGED <<entry, approved, now, backoff, snap, batch, shut>> /\ closing' = closing \cup {e}
    BY ONLY <1>4 DEF OwnerRejects, vars, consent, counters
  <2>2. card[e] = "pending" /\ card' = [card EXCEPT ![e] = "rejected"]
    BY ONLY <1>4 DEF OwnerRejects
  <2> QED BY ONLY <1>t, <2>1, <2>2 DEF PapersType, Consented, Slips
<1>5. ASSUME NEW e \in Envelopes, FindEntry(e) PROVE Goal
  <2>1. UNCHANGED <<card, entry, approved, now, backoff, snap, batch>> /\ closing' = closing \ {e}
    BY ONLY <1>5 DEF FindEntry, vars, papers, consent, counters
  <2>2. Open(e) => Snapshot(e) \in Slips
    BY ONLY <1>t DEF Snapshot, Open, PapersType, Slips
  <2>3. shut' \subseteq shut \cup Slips
    BY ONLY <1>5, <2>2 DEF FindEntry
  <2> QED BY ONLY <1>t, <2>1, <2>3 DEF PapersType, Consented, Slips
<1>15. CASE CloseEntry
  <2>1. PICK s \in shut : shut' = shut \ {s} /\ WriteBack(s, "rejected")
    BY ONLY <1>15 DEF CloseEntry
  <2>2. UNCHANGED <<card, approved, now, backoff, snap, batch, closing>>
    BY ONLY <1>15 DEF CloseEntry, vars, consent, counters
  <2>3. s.at \in 0..now
    BY ONLY <1>t, <2>1 DEF PapersType, Slips
  <2> QED BY ONLY <1>t, <1>w, <2>1, <2>2, <2>3 DEF PapersType, Consented, Slips, TerminalEntries
<1>6. ASSUME NEW e \in Envelopes, BackoffElapses(e) PROVE Goal
  <2>1. UNCHANGED <<card, entry, approved, now, snap, batch, closing, shut>> /\ backoff' = backoff \ {e}
    BY ONLY <1>6 DEF BackoffElapses, vars, consent, counters, drives, closes
  <2> QED BY ONLY <1>t, <2>1 DEF PapersType, Consented, Slips
<1>7. ASSUME NEW e \in Envelopes, NEW d \in Dispatchers, Send(d, e) PROVE Goal
  <2>1. UNCHANGED <<card, entry, backoff, approved, now, batch, closing, shut>>
    BY ONLY <1>7 DEF Send, Start, papers, closes, consent, counters
  <2>2. Snapshot(e) \in Slips /\ snap' = [snap EXCEPT ![d] = Snapshot(e)]
    BY ONLY <1>7, <1>t DEF Send, Snapshot, Open, PapersType, Slips
  <2> QED BY ONLY <1>t, <2>1, <2>2 DEF PapersType, Consented, Slips
<1>8. ASSUME NEW d \in Dispatchers, Gateway(d) PROVE Goal
  BY ONLY <1>8, <1>a, <1>s, <1>t DEF Gateway, Consented, papers
<1>9. ASSUME NEW d \in Dispatchers, Fold(d) PROVE Goal
  <2>1. /\ UNCHANGED <<card, approved, now, batch, closing, shut>>
        /\ snap' = [snap EXCEPT ![d] = NoSnapshot]
        /\ backoff' = backoff \/ backoff' = backoff \cup {snap[d].of}
        /\ WriteBack(snap[d], FoldedStatus(outcome[d]))
    BY ONLY <1>9 DEF Fold, Collect, closes, consent, counters
  <2>2. FoldedStatus(outcome[d]) \in {"proposed", "retry_queued"} \cup TerminalEntries
    BY ONLY DEF FoldedStatus, TerminalEntries
  <2>3. snap[d].at \in 0..now /\ snap[d].of \in Envelopes
    BY ONLY <1>9, <1>d, <1>t DEF PapersType, Fold, Collect
  <2>4. NoSnapshot \in [of: Envelopes \cup {NoEnv}, status: {"none", "proposed", "retry_queued"},
                        at: 0..now]
    BY ONLY <1>n DEF NoSnapshot
  <2> QED BY ONLY <1>w, <1>t, <2>1, <2>2, <2>3, <2>4 DEF PapersType, Consented, Slips
<1>10. CASE ListDue
  <2>1. UNCHANGED <<card, entry, backoff, approved, now, snap, closing, shut>>
    BY ONLY <1>10 DEF ListDue, vars, papers, closes, consent, counters
  <2>2. \A e \in Envelopes : Open(e) => Snapshot(e) \in Slips
    BY ONLY <1>t DEF Snapshot, Open, PapersType, Slips
  <2>3. batch' \subseteq Slips
    BY ONLY <1>10, <2>2 DEF ListDue
  <2> QED BY ONLY <1>t, <2>1, <2>3 DEF PapersType, Consented, Slips
<1>11. CASE DriveNext
  <2>1. PICK s \in batch :
          /\ batch' = batch \ {s} /\ UNCHANGED <<closing, shut>>
          /\ \/ Start(Drain, s.of, s.at) /\ snap' = [snap EXCEPT ![Drain] = s] /\ UNCHANGED papers
             \/ /\ WriteBack(s, s.status) /\ backoff' = backoff \cup {s.of}
                /\ UNCHANGED <<vars, card, snap>>
    BY ONLY <1>11 DEF DriveNext, closes
  <2>2. s \in Slips /\ s.of \in Envelopes /\ s.at \in 0..now
        /\ s.status \in {"proposed", "retry_queued"} /\ Drain \in Dispatchers
    BY ONLY <1>t, <2>1, WritesAssumption DEF PapersType, Slips, WritesAssumption
  <2>3. s \in [of: Envelopes \cup {NoEnv}, status: {"none", "proposed", "retry_queued"}, at: 0..now]
    BY ONLY <2>2 DEF Slips
  <2>4. CASE Start(Drain, s.of, s.at) /\ snap' = [snap EXCEPT ![Drain] = s] /\ UNCHANGED papers
    <3>1. UNCHANGED <<card, entry, backoff, approved, now>>
      BY ONLY <2>4 DEF Start, papers, consent, counters
    <3> QED BY ONLY <1>t, <2>1, <2>2, <2>3, <2>4, <3>1 DEF PapersType, Consented, Slips
  <2>5. CASE WriteBack(s, s.status) /\ backoff' = backoff \cup {s.of} /\ UNCHANGED <<vars, card, snap>>
    <3>1. UNCHANGED <<card, snap, approved, now>>
      BY ONLY <2>5 DEF vars, consent, counters
    <3> QED BY ONLY <1>t, <1>w, <2>1, <2>2, <2>5, <3>1 DEF PapersType, Consented, Slips
  <2> QED BY ONLY <2>1, <2>4, <2>5
<1>12. CASE World
  BY ONLY <1>12, <1>s, <1>t DEF World, LateArrival, Tick, Consented, papers, consent
<1>13. CASE WorkerCrash
  <2>1. /\ UNCHANGED <<card, entry, backoff, approved, now>> /\ batch' = {} /\ closing' = {} /\ shut' = {}
        /\ snap' = [d \in Dispatchers |-> NoSnapshot]
    BY ONLY <1>13 DEF WorkerCrash, Crash, papers, consent
  <2>2. NoSnapshot \in [of: Envelopes \cup {NoEnv}, status: {"none", "proposed", "retry_queued"},
                        at: 0..now]
    BY ONLY <1>n DEF NoSnapshot
  <2> QED BY ONLY <1>t, <2>1, <2>2 DEF PapersType, Consented, Slips
<1>14. CASE UNCHANGED writesVars
  BY ONLY <1>14, <1>s, <1>t DEF Consented, writesVars, papers, vars, consent
<1> QED
  BY ONLY <1>t, <1>1, <1>2, <1>3, <1>4, <1>5, <1>6, <1>7, <1>8, <1>9, <1>10, <1>11, <1>12,
     <1>13, <1>14, <1>15 DEF WritesNext

LEMMA InitPapers == WritesInit => PapersInv
<1> SUFFICES ASSUME WritesInit PROVE PapersInv
  OBVIOUS
<1>1. Init /\ TruthInv
  BY InitTruth DEF WritesInit
<1>2. now = 0 /\ approved = {} /\ (\A d \in Dispatchers : pc[d] = "idle") /\ 0 \in 0..0
  BY ONLY <1>1 DEF Init
<1>3. PapersType
  BY ONLY <1>2, WritesInit DEF WritesInit, PapersType, NoEntry, NoSnapshot, Slips
<1>4. Consented /\ Driven
  BY ONLY <1>2, WritesInit DEF WritesInit, Consented, Driven
<1> QED BY ONLY <1>1, <1>3, <1>4 DEF PapersInv

LEMMA PapersHold == WritesSpec => []PapersInv
<1>1. PapersInv /\ [WritesNext]_writesVars => PapersInv'
  <2> SUFFICES ASSUME PapersInv, [WritesNext]_writesVars PROVE PapersInv'
    OBVIOUS
  <2>1. TruthInv /\ IType /\ PapersType /\ Consented /\ Driven
    BY DEF PapersInv, TruthInv
  <2>2. TruthInv'
    <3>1. [Next]_vars => TruthInv'
      BY <2>1, StepType, StepTruth DEF TruthInv
    <3> QED BY <2>1, <3>1, PapersMove, TruthUnderConsent
  <2> QED BY <2>1, <2>2, StepPapers, StepDriven DEF PapersInv
<1> QED BY InitPapers, <1>1, PTL DEF WritesSpec

\* Every paper keeps its type: what the gateway answers is always folded into a
\* status an entry may have, and a snapshot is one of an open entry.
THEOREM WritesTyped == WritesSpec => []WritesTypeOK
<1>1. PapersInv => WritesTypeOK
  <2> SUFFICES ASSUME PapersInv PROVE WritesTypeOK
    OBVIOUS
  <2>1. TypeOK /\ PapersType /\ 0..now \subseteq Time
    BY GatewayAssumption DEF PapersInv, TruthInv, IType, TypeOK, Time
  <2> QED BY ONLY <2>1 DEF WritesTypeOK, PapersType, Slips
<1> QED BY PapersHold, <1>1, PTL

\* Whatever is held, drained, resent, lost or crashed, the owner's decision is
\* taken once and only approved writes reach the vendor: the writes implement
\* WriteIntent, one decision or one write at a step.
THEOREM IntentKept ==
  ASSUME AllNeedApproval
  PROVE  WritesSpec => KeepsTheIntent
<1>1. WritesInit => Intent!Init
  <2> SUFFICES ASSUME WritesInit PROVE Intent!Init
    OBVIOUS
  <2>1. Decided = [e \in Envelopes |-> "open"] /\ landed = {}
    BY DEF WritesInit, Init, Decided
  <2> QED BY <2>1 DEF Intent!Init
<1>2. PapersInv /\ [WritesNext]_writesVars => [Intent!Next]_<<Decided, landed>>
  <2> SUFFICES ASSUME PapersInv, [WritesNext]_writesVars PROVE [Intent!Next]_<<Decided, landed>>
    OBVIOUS
  <2>t. PapersInv /\ [WritesNext]_writesVars
    OBVIOUS
  <2>c. card \in [Envelopes -> {"none", "pending", "approved", "rejected"}]
    BY ONLY <2>t DEF PapersInv, PapersType
  <2>d. ASSUME NEW e \in Envelopes, NEW to, NEW verdict \in {"approved", "refused"},
               card[e] = "pending", card' = [card EXCEPT ![e] = to],
               <<to, verdict>> \in {<<"approved", "approved">>, <<"rejected", "refused">>},
               landed' = landed
        PROVE  Intent!Next
    <3>1. Decided[e] = "open" /\ Decided' = [Decided EXCEPT ![e] = verdict]
      BY ONLY <2>c, <2>d DEF Decided
    <3> QED BY ONLY <2>d, <3>1 DEF Intent!Next, Intent!Decide
  <2>1. CASE card' = card
    <3>1. Decided' = Decided
      BY ONLY <2>1 DEF Decided
    <3>2. landed' = landed \/ \E e \in Envelopes : Granted(e) /\ landed' = landed \cup {e}
      <4>1. CASE [Next]_vars
        BY ONLY <2>t, <4>1, LandsGranted DEF PapersInv
      <4>2. ASSUME NEW e \in Envelopes, OwnerApproves(e) PROVE landed' = landed
        BY ONLY <4>2 DEF OwnerApproves, outside
      <4> QED BY ONLY <2>t, <4>1, <4>2, PapersMove DEF PapersInv
    <3>3. ASSUME NEW e \in Envelopes, Granted(e), landed' = landed \cup {e} PROVE Intent!Next
      <4>1. Decided[e] = "approved"
        BY ONLY <2>t, <3>3, AllNeedApproval DEF AllNeedApproval, Granted, PapersInv, Consented, Decided
      <4> QED BY ONLY <3>1, <3>3, <4>1 DEF Intent!Next, Intent!Write
    <3> QED BY ONLY <3>1, <3>2, <3>3
  <2>2. ASSUME NEW e \in Envelopes, OwnerApproves(e) PROVE Intent!Next
    BY ONLY <2>2, <2>d DEF OwnerApproves, outside
  <2>3. ASSUME NEW e \in Envelopes, OwnerRejects(e) PROVE Intent!Next
    BY ONLY <2>3, <2>d DEF OwnerRejects, vars, outside
  \* A card that is raised is as open as one that is not.
  <2>4. ASSUME NEW e \in Envelopes, ProposeCard(e) PROVE UNCHANGED <<Decided, landed>>
    BY ONLY <2>4, <2>c DEF ProposeCard, Decided, vars, outside
  <2>5. \/ card' = card
        \/ \E e \in Envelopes : OwnerApproves(e) \/ OwnerRejects(e) \/ ProposeCard(e)
    BY ONLY <2>t DEF WritesNext, ProposeSave, FindEntry, CloseEntry, BackoffElapses, Send, Gateway,
       Fold, ListDue, DriveNext, World, WorkerCrash, writesVars, papers
  <2> QED BY ONLY <2>1, <2>2, <2>3, <2>4, <2>5
<1> QED BY PapersHold, <1>1, <1>2, PTL DEF WritesSpec, KeepsTheIntent, Intent!Spec

-----------------------------------------------------------------------------
(* No stale overwrite, one dispatch at a time. *)

\* The sequential case: one dispatcher, no lost answer, no failing store.
Sequential ==
  /\ \A x, y \in Dispatchers : x = y
  /\ ~ Ambiguous /\ ~ StoreFaults

\* Outside the two awaits that record a write, the row of an object is no older
\* than what is at the vendor; a dispatch on its way to an update has read that
\* row, and found it no newer than its intent.
Recording(o) == \E d \in Dispatchers : pc[d] \in {"recordLedger", "putRow"} /\ Obj(d) = o
Covered(o)   == IsCommitted(row[o]) /\ vendor[o] # <<>> => vendor[o][1].at <= row[o].at
Ordered ==
  /\ late = {}
  /\ \A o \in Objects : vendor[o] # <<>> => vendor[o][1].at <= now
  /\ \A o \in Objects : Recording(o) \/ Covered(o)
  /\ \A d \in Dispatchers :
       pc[d] \in {"author", "update"}
         => /\ seen[d] = row[Obj(d)] /\ IsCommitted(row[Obj(d)])
            /\ row[Obj(d)].at <= intentAt[d]

LEMMA FirstOfSeq ==
  ASSUME NEW S, NEW x \in S, NEW s \in Seq(S)
  PROVE  /\ s # <<>> => s[1] \in S /\ [s EXCEPT ![1] = x][1] = x /\ Append(s, x)[1] = s[1]
         /\ s = <<>> => Append(s, x)[1] = x
<1>1. Len(s) \in Nat /\ (s # <<>> => Len(s) # 0) /\ DOMAIN s = 1..Len(s)
  OBVIOUS
<1>2. ASSUME s # <<>> PROVE s[1] \in S /\ [s EXCEPT ![1] = x][1] = x /\ Append(s, x)[1] = s[1]
  BY <1>1, <1>2
<1> QED BY <1>2

LEMMA StepOrdered ==
  ASSUME Sequential, TruthInv, Ordered, [Next]_vars, crashes' = 0
  PROVE  Ordered'
<1>t. Sequential /\ IType /\ Ordered /\ [Next]_vars /\ crashes' = 0
  BY DEF TruthInv
<1>p. /\ pc \in [Dispatchers -> Steps] /\ env \in [Dispatchers -> Envelopes \cup {NoEnv}]
      /\ intentAt \in [Dispatchers -> {Fresh} \cup Time] /\ row \in [Objects -> Rows]
      /\ seen \in [Dispatchers -> {NoRow} \cup CommittedRows]
      /\ vendor \in [Objects -> Seq(VendorObjects)] /\ now \in Time /\ Time \subseteq Nat
      /\ Fresh \in Nat
  BY ONLY <1>t, GatewayAssumption DEF IType, TypeOK, Time, Fresh
<1>o. \A d \in Dispatchers : pc[d] # "idle" => env[d] \in Envelopes /\ Obj(d) \in Objects
  BY ONLY <1>t, GatewayAssumption DEF IType, Occupied, Obj
<1>v. \A o \in Objects : vendor[o] # <<>> => vendor[o][1].at \in Nat
  <2>1. \A o \in Objects : vendor[o] # <<>> => vendor[o][1] \in VendorObjects
    BY ONLY <1>p, FirstOfSeq
  <2> QED BY ONLY <1>p, <2>1 DEF VendorObjects
<1>r. /\ ~ IsCommitted(NoRow) /\ ~ IsCommitted(Reserved)
      /\ \A e, at : IsCommitted(Committed(e, at)) /\ Committed(e, at).at = at
  BY DEF IsCommitted, NoRow, Reserved, Committed
<1>1. ASSUME UNCHANGED <<row, vendor, late, now>>, NEW d \in Dispatchers,
             pc[d] \notin {"recordLedger", "putRow"}, pc'[d] \notin {"author", "update"}
      PROVE  Ordered'
  <2>1. \A x \in Dispatchers : x = d
    BY ONLY <1>t, <1>1 DEF Sequential
  <2> QED BY ONLY <1>1, <1>t, <2>1 DEF Ordered, Recording, Covered
<1>2. ASSUME NEW d \in Dispatchers,
             \/ CheckApproval(d) \/ ResolveCredential(d) \/ LookupLedger(d) \/ LookupKey(d)
             \/ Probe(d) \/ Collect(d)
             \/ \E e \in Envelopes, at \in {Fresh} \cup 0..now : Start(d, e, at)
      PROVE  Ordered'
  <2>1. UNCHANGED <<row, vendor, late, now>> /\ pc[d] \notin {"recordLedger", "putRow"}
    BY ONLY <1>2 DEF CheckApproval, ResolveCredential, LookupLedger, LookupKey, Probe, Collect, Start,
       store, outside, counters
  <2>2. pc'[d] \notin {"author", "update"}
    BY ONLY <1>2, <1>p DEF CheckApproval, ResolveCredential, LookupLedger, LookupKey, LookupFault,
       Probe, Collect, Start, Goto, Return
  <2> QED BY ONLY <1>1, <2>1, <2>2
<1>3. ASSUME NEW d \in Dispatchers, LookupObject(d) PROVE Ordered'
  <2>1. UNCHANGED <<env, intentAt, row, vendor, late, now>> /\ pc[d] = "objectLookup"
    BY ONLY <1>3 DEF LookupObject, store, outside, counters
  <2>2. CASE pc'[d] \notin {"author", "update"}
    BY ONLY <1>1, <2>1, <2>2
  <2>3. CASE pc'[d] \in {"author", "update"}
    <3>1. /\ IsCommitted(row[Obj(d)]) /\ ~ (row[Obj(d)].at > intentAt[d])
          /\ seen' = [seen EXCEPT ![d] = row[Obj(d)]]
      BY ONLY <1>3, <1>p, <2>3 DEF LookupObject, LookupFault, Goto, Return
    <3>2. row[Obj(d)].at \in Nat /\ intentAt[d] \in Nat
      BY ONLY <1>o, <1>p, <1>r, <2>1, <3>1 DEF Rows, CommittedRows, IsCommitted
    <3>3. row[Obj(d)].at <= intentAt[d] /\ seen'[d] = row[Obj(d)]
      BY ONLY <1>p, <3>1, <3>2
    <3>4. \A x \in Dispatchers : x = d
      BY ONLY <1>t DEF Sequential
    <3>5. Obj(d)' = Obj(d)
      BY ONLY <2>1 DEF Obj
    <3> QED BY ONLY <1>t, <2>1, <3>1, <3>3, <3>4, <3>5 DEF Ordered, Recording, Covered
  <2> QED BY ONLY <2>2, <2>3
<1>4. ASSUME NEW d \in Dispatchers, CheckAuthor(d) PROVE Ordered'
  <2>1. UNCHANGED <<env, intentAt, seen, row, vendor, late, now>> /\ pc[d] = "author"
    BY ONLY <1>4 DEF CheckAuthor, store, outside, counters
  <2>2. \A x \in Dispatchers : x = d
    BY ONLY <1>t DEF Sequential
  <2>3. Obj(d)' = Obj(d)
    BY ONLY <2>1 DEF Obj
  <2> QED BY ONLY <1>t, <2>1, <2>2, <2>3 DEF Ordered, Recording, Covered
\* A row that is given the instant of now covers whatever is at the vendor.
<1>5. ASSUME NEW d \in Dispatchers, pc[d] # "idle",
             row' = [row EXCEPT ![Obj(d)] = Committed(env[d], now)],
             UNCHANGED <<env, vendor, late, now>>, pc'[d] = "done"
      PROVE  Ordered'
  <2>1. \A x \in Dispatchers : x = d
    BY ONLY <1>t DEF Sequential
  <2>2. Obj(d) \in Objects /\ row'[Obj(d)].at = now
    BY ONLY <1>5, <1>o, <1>p, <1>r
  <2>3. ASSUME NEW o \in Objects PROVE Covered(o)'
    <3>1. CASE o = Obj(d)
      BY ONLY <1>5, <1>t, <2>2, <3>1 DEF Covered, Ordered
    <3>2. CASE o # Obj(d)
      <4>1. row'[o] = row[o] /\ ~ Recording(o)
        BY ONLY <1>5, <1>p, <2>1, <3>2 DEF Recording
      <4> QED BY ONLY <1>5, <1>t, <4>1 DEF Covered, Ordered
    <3> QED BY ONLY <3>1, <3>2
  <2> QED BY ONLY <1>5, <1>t, <2>1, <2>3 DEF Ordered
<1>6. ASSUME NEW d \in Dispatchers, Adopt(d) \/ PutRow(d) PROVE Ordered'
  <2>1. /\ pc[d] # "idle" /\ UNCHANGED <<env, vendor, late, now>> /\ pc'[d] = "done"
        /\ row' = [row EXCEPT ![Obj(d)] = Committed(env[d], now)]
    BY ONLY <1>6, <1>p, <1>t DEF Adopt, PutRow, Written, Goto, Return, outside, counters, Sequential
  <2> QED BY ONLY <1>5, <2>1
\* What has just landed is of this instant, and its dispatch goes on to record it.
<1>7. ASSUME NEW d \in Dispatchers, pc[d] # "idle", pc'[d] = "recordLedger",
             pc[d] \notin {"recordLedger", "putRow"},
             UNCHANGED <<env, row, late, now>>,
             NEW s, vendor' = [vendor EXCEPT ![Obj(d)] = s], s # <<>> => s[1].at <= now
      PROVE  Ordered'
  <2>1. \A x \in Dispatchers : x = d
    BY ONLY <1>t DEF Sequential
  <2>2. Obj(d)' = Obj(d) /\ Obj(d) \in Objects
    BY ONLY <1>7, <1>o DEF Obj
  <2>3. Recording(Obj(d))'
    BY ONLY <1>7, <2>2 DEF Recording
  <2>4. ASSUME NEW o \in Objects PROVE Recording(o)' \/ Covered(o)'
    <3>1. CASE o # Obj(d)
      <4>1. vendor'[o] = vendor[o] /\ ~ Recording(o)
        BY ONLY <1>7, <1>p, <2>1, <3>1 DEF Recording
      <4> QED BY ONLY <1>7, <1>t, <4>1 DEF Covered, Ordered
    <3> QED BY ONLY <2>3, <3>1, <2>2 DEF Recording
  <2>5. \A o \in Objects : vendor'[o] # <<>> => vendor'[o][1].at <= now
    BY ONLY <1>7, <1>p, <1>t DEF Ordered
  <2> QED BY ONLY <1>7, <1>t, <2>1, <2>4, <2>5 DEF Ordered
<1>8. ASSUME NEW d \in Dispatchers, Update(d) PROVE Ordered'
  <2> DEFINE x == [content |-> env[d], at |-> now]
  <2>1. pc[d] = "update" /\ UNCHANGED <<env, row, now>>
    BY ONLY <1>8 DEF Update, store, counters
  <2>2. x \in VendorObjects /\ Obj(d) \in Objects
    BY ONLY <2>1, <1>o, <1>p DEF VendorObjects
  <2>3. \/ /\ pc'[d] = "recordLedger" /\ late' = late
           /\ vendor[Obj(d)] # <<>> /\ vendor' = [vendor EXCEPT ![Obj(d)][1] = x]
        \/ pc'[d] = "done" /\ UNCHANGED <<vendor, late>>
    BY ONLY <1>8, <1>p, <1>t DEF Update, Land, Goto, Return, outside, Sequential
  <2>4. CASE pc'[d] = "done" /\ UNCHANGED <<vendor, late>>
    BY ONLY <1>1, <2>1, <2>4
  <2>5. CASE /\ pc'[d] = "recordLedger" /\ late' = late
             /\ vendor[Obj(d)] # <<>> /\ vendor' = [vendor EXCEPT ![Obj(d)][1] = x]
    <3>1. [vendor[Obj(d)] EXCEPT ![1] = x][1].at <= now
      <4>1. [vendor[Obj(d)] EXCEPT ![1] = x][1] = x
        BY ONLY <1>p, <2>2, <2>5, FirstOfSeq
      <4> QED BY ONLY <1>p, <4>1
    <3>2. vendor' = [vendor EXCEPT ![Obj(d)] = [vendor[Obj(d)] EXCEPT ![1] = x]]
      BY ONLY <2>5
    <3> QED BY ONLY <1>7, <2>1, <2>5, <3>1, <3>2
  <2> QED BY ONLY <2>3, <2>4, <2>5
<1>9. ASSUME NEW d \in Dispatchers, Create(d) PROVE Ordered'
  <2> DEFINE x == [content |-> env[d], at |-> now]
  <2>1. pc[d] = "create" /\ UNCHANGED <<env, row, now>>
    BY ONLY <1>9 DEF Create, store, counters
  <2>2. x \in VendorObjects /\ Obj(d) \in Objects
    BY ONLY <2>1, <1>o, <1>p DEF VendorObjects
  <2>3. \/ /\ pc'[d] = "recordLedger" /\ late' = late
           /\ vendor' = [vendor EXCEPT ![Obj(d)] = Append(vendor[Obj(d)], x)]
        \/ pc'[d] = "release" /\ UNCHANGED <<vendor, late>>
    BY ONLY <1>9, <1>p, <1>t DEF Create, VendorCreates, Goto, outside, Sequential, Obj
  <2>4. CASE pc'[d] = "release" /\ UNCHANGED <<vendor, late>>
    BY ONLY <1>1, <2>1, <2>4
  <2>5. CASE /\ pc'[d] = "recordLedger" /\ late' = late
             /\ vendor' = [vendor EXCEPT ![Obj(d)] = Append(vendor[Obj(d)], x)]
    <3>1. Append(vendor[Obj(d)], x)[1] \in {x, vendor[Obj(d)][1]}
          /\ (vendor[Obj(d)] = <<>> => Append(vendor[Obj(d)], x)[1] = x)
      BY ONLY <1>p, <2>2, FirstOfSeq
    <3>2. Append(vendor[Obj(d)], x)[1].at <= now
      BY ONLY <1>p, <1>t, <2>2, <3>1 DEF Ordered
    <3> QED BY ONLY <1>7, <2>1, <2>5, <3>2
  <2> QED BY ONLY <2>3, <2>4, <2>5
\* A reservation, and giving one back, leave the committed rows.
<1>10. ASSUME NEW d \in Dispatchers, Reserve(d) \/ Release(d) PROVE Ordered'
  <2>1. /\ UNCHANGED <<env, vendor, late, now>> /\ pc[d] \in {"reserve", "release"}
        /\ pc'[d] \in {"create", "done"}
    BY ONLY <1>10, <1>p DEF Reserve, Release, Goto, Return, outside, counters
  <2>2. \/ row' = row
        \/ row' = [row EXCEPT ![Obj(d)] = Reserved]
        \/ row' = [row EXCEPT ![Obj(d)] = IF @ = Reserved THEN NoRow ELSE @]
    BY ONLY <1>10 DEF Reserve, Release, Written, store
  <2>3. \A o \in Objects : IsCommitted(row'[o]) => row'[o] = row[o]
    BY ONLY <2>2, <1>p, <1>r
  <2>4. \A x \in Dispatchers : x = d
    BY ONLY <1>t DEF Sequential
  <2> QED BY ONLY <1>t, <2>1, <2>3, <2>4 DEF Ordered, Recording, Covered
<1>11. ASSUME NEW d \in Dispatchers, RecordLedger(d) PROVE Ordered'
  <2>1. /\ UNCHANGED <<env, row, vendor, late, now>> /\ pc[d] = "recordLedger"
        /\ pc'[d] = "putRow"
    BY ONLY <1>11, <1>p DEF RecordLedger, Written, Goto, store, outside, counters
  <2>2. (\A x \in Dispatchers : x = d) /\ Obj(d)' = Obj(d)
    BY ONLY <1>t, <2>1 DEF Sequential, Obj
  <2> QED BY ONLY <1>t, <2>1, <2>2 DEF Ordered, Recording, Covered
<1>12. CASE Tick
  <2>1. UNCHANGED <<pc, env, seen, intentAt, row, vendor, late>> /\ now' = now + 1
    BY ONLY <1>12 DEF Tick, local, store, outside
  <2>2. \A o \in Objects : vendor[o] # <<>> => vendor[o][1].at <= now + 1
    BY ONLY <1>p, <1>t, <1>v DEF Ordered
  <2> QED BY ONLY <1>t, <2>1, <2>2 DEF Ordered, Recording, Covered, Obj
<1>13. CASE (\E e \in Envelopes : Approve(e)) \/ UNCHANGED vars
  <2>1. UNCHANGED <<pc, env, seen, intentAt, row, vendor, late, now>>
    BY ONLY <1>13 DEF Approve, vars, local, store, outside, counters
  <2> QED BY ONLY <1>t, <2>1 DEF Ordered, Recording, Covered, Obj
<1>14. ~ Crash /\ \A e \in Envelopes : ~ LateArrival(e)
  <2>1. crashes \in Nat
    BY ONLY <1>t DEF IType, TypeOK
  <2> QED BY ONLY <1>t, <2>1 DEF Crash, LateArrival, Ordered
<1> QED
  BY ONLY <1>t, <1>2, <1>3, <1>4, <1>6, <1>8, <1>9, <1>10, <1>11, <1>12, <1>13, <1>14
     DEF Next, Dispatch

\* Until the first crash, that is: crashes are counted and not forgotten.
Uncrashed == crashes = 0 => Ordered

LEMMA CrashesStay == IType /\ [Next]_vars /\ crashes' = 0 => crashes = 0
<1> SUFFICES ASSUME IType, [Next]_vars, crashes' = 0 PROVE crashes = 0
  OBVIOUS
<1>1. crashes \in Nat
  BY DEF IType, TypeOK
<1>2. crashes' = crashes \/ crashes' = crashes + 1
  BY DEF Next, Start, Collect, Approve, LateArrival, Tick, Crash, Dispatch, CheckApproval,
     ResolveCredential, LookupLedger, LookupKey, LookupObject, CheckAuthor, Update, Probe, Adopt,
     Reserve, Create, Release, RecordLedger, PutRow, vars, counters
<1> QED BY <1>1, <1>2

LEMMA InitOrdered == Init => Ordered
<1> SUFFICES ASSUME Init PROVE Ordered
  OBVIOUS
<1>1. [content |-> Foreign, at |-> 0] \in VendorObjects /\ 0 \in Nat
  BY GatewayAssumption DEF VendorObjects, Time
<1>2. <<[content |-> Foreign, at |-> 0]>>[1].at = 0
  BY <1>1
<1> QED BY <1>2 DEF Init, Ordered, Recording, Covered, IsCommitted, NoRow

\* So an update replaces what is no newer than its intent.
LEMMA UpdateIsFresh ==
  ASSUME Sequential, TruthInv, Ordered, NEW d \in Dispatchers, pc[d] = "update"
  PROVE  vendor[Obj(d)][1].at <= intentAt[d]
<1>1. Obj(d) \in Objects /\ row[Obj(d)] \in Rows /\ intentAt[d] \in Nat /\ Time \subseteq Nat
      /\ vendor[Obj(d)] \in Seq(VendorObjects)
  BY GatewayAssumption DEF TruthInv, IType, TypeOK, Occupied, Obj, Time, Fresh
<1>2. IsCommitted(row[Obj(d)]) /\ row[Obj(d)].at <= intentAt[d]
  BY DEF Ordered
<1>3. vendor[Obj(d)] # <<>>
  BY <1>1, <1>2 DEF TruthInv, Facts, Real
<1>4. vendor[Obj(d)][1].at <= row[Obj(d)].at
  <2>1. ~ Recording(Obj(d))
    BY Sequential DEF Sequential, Recording
  <2> QED BY <1>1, <1>2, <1>3, <2>1 DEF Ordered, Covered
<1>5. row[Obj(d)].at \in Nat /\ vendor[Obj(d)][1].at \in Nat
  <2>1. row[Obj(d)].at \in Nat
    <3>1. ~ IsCommitted(NoRow) /\ ~ IsCommitted(Reserved)
      BY ONLY DEF IsCommitted, NoRow, Reserved
    <3>2. row[Obj(d)] \in CommittedRows
      BY ONLY <1>1, <1>2, <3>1 DEF Rows
    <3> QED BY ONLY <1>1, <3>2 DEF CommittedRows
  <2>2. vendor[Obj(d)][1] \in VendorObjects
    BY ONLY <1>1, <1>3, FirstOfSeq
  <2> QED BY ONLY <1>1, <2>1, <2>2 DEF VendorObjects
<1> QED BY ONLY <1>1, <1>2, <1>4, <1>5

\* "This closes the SEQUENTIAL case": a re-driven update never replaces content
\* that landed after its intent was created, until the first crash.  A crash or a
\* lost answer between the vendor call and the row leaves the row behind the vendor,
\* and two dispatchers pass the ordering guard together: the hypothesis is needed.
THEOREM SequentialNeverStale ==
  ASSUME Sequential
  PROVE  Spec => NoStaleOverwrite
<1> DEFINE Fresher ==
      \A d \in Dispatchers :
        crashes = 0 /\ pc[d] = "update" /\ pc'[d] # "update" /\ vendor' # vendor
          => vendor[Obj(d)][1].at <= intentAt[d]
<1>1. TruthInv /\ Uncrashed /\ [Next]_vars => (TruthInv /\ Uncrashed)'
  BY StepType, StepTruth, StepOrdered, CrashesStay DEF TruthInv, Uncrashed
<1>2. TruthInv /\ Uncrashed => Fresher
  BY UpdateIsFresh DEF Uncrashed
<1>3. Init => Uncrashed
  BY InitOrdered DEF Uncrashed
<1> HIDE DEF Fresher
<1>4. Spec => [][Fresher]_vars
  BY InitTruth, <1>1, <1>2, <1>3, PTL DEF Spec
<1> QED BY <1>4 DEF Fresher, NoStaleOverwrite

\* The same of the gateway as the drain drives it, the instants of whose intents
\* are those of the saved entries.
THEOREM DrivenNeverStale ==
  ASSUME Sequential
  PROVE  WritesSpec => NoStaleOverwrite
<1> DEFINE Fresher ==
      \A d \in Dispatchers :
        crashes = 0 /\ pc[d] = "update" /\ pc'[d] # "update" /\ vendor' # vendor
          => vendor[Obj(d)][1].at <= intentAt[d]
<1>1. PapersInv /\ Uncrashed /\ [WritesNext]_writesVars => Uncrashed'
  <2> SUFFICES ASSUME PapersInv, Uncrashed, [WritesNext]_writesVars PROVE Uncrashed'
    OBVIOUS
  <2>1. CASE [Next]_vars
    BY <2>1, StepOrdered, CrashesStay DEF PapersInv, TruthInv, Uncrashed
  <2>2. ASSUME NEW e \in Envelopes, OwnerApproves(e) PROVE Uncrashed'
    <3>1. UNCHANGED <<pc, env, seen, intentAt, row, vendor, late, now, crashes>>
      BY ONLY <2>2 DEF OwnerApproves, local, store, outside, counters
    <3> QED BY <3>1 DEF Uncrashed, Ordered, Recording, Covered, Obj
  <2> QED BY <2>1, <2>2, PapersMove DEF PapersInv
<1>2. PapersInv /\ Uncrashed => Fresher
  BY UpdateIsFresh DEF PapersInv, Uncrashed
<1>3. WritesInit => Uncrashed
  BY InitOrdered DEF WritesInit, Uncrashed
<1>4. UNCHANGED writesVars => UNCHANGED vars
  BY DEF writesVars
<1> HIDE DEF Fresher
<1>5. [Fresher]_writesVars => [Fresher]_vars
  BY <1>4
<1>6. WritesSpec => [][Fresher]_vars
  BY PapersHold, <1>1, <1>2, <1>3, <1>5, PTL DEF WritesSpec
<1> QED BY <1>6 DEF Fresher, NoStaleOverwrite

\* "A rejected or EDITED card will never be sent" (closeSavedEntry): when all
\* waits for the owner, no write of such a card has reached the vendor or is on
\* its way to it, whatever was held, resent, drained or lost, and whether or not
\* the entry was closed yet.
THEOREM RejectedNeverWritten ==
  ASSUME AllNeedApproval
  PROVE  WritesSpec => [](\A e \in landed \cup late : card[e] # "rejected")
<1>1. PapersInv => \A e \in landed \cup late : card[e] # "rejected"
  <2> SUFFICES ASSUME PapersInv, NEW e \in landed \cup late PROVE card[e] # "rejected"
    OBVIOUS
  <2>1. landed \cup late \subseteq Envelopes
    BY DEF PapersInv, TruthInv, IType, TypeOK
  <2>2. e \in approved
    BY <2>1 DEF PapersInv, TruthInv, Facts, ApprovalFirst, AllNeedApproval
  <2> QED BY <2>2 DEF PapersInv, Consented
<1> QED BY PapersHold, <1>1, PTL
=============================================================================
