------------------------ MODULE ConnectorSyncProofs ------------------------
(***************************************************************************)
(* Proofs about ConnectorSync and the ingestion it feeds, for any sources, *)
(* contents, pages and passes: the safety the run sources_settle checks on *)
(* one pass holds for any number of passes at once.                        *)
(***************************************************************************)
EXTENDS ConnectorSync, TLAPS

\* A run that is not there has no past; one that derives a page or has come to its
\* external actions has its note; a page has its note; what ended is accounted for.
Written(c) == <<src[c], c, "note">> \in notes

Accounted(c) ==
  /\ pc[c] = "none" => plan[c] = "note" /\ end[c] = "none"
  /\ plan[c] = "page" \/ pc[c] = "propose" \/ end[c] = "applied" => Written(c)
  /\ pc[c] = "done" /\ end[c] \notin {"applied", "broken"} => c \in health \/ c \in unheard

RunInv ==
  /\ \A c \in Contents : Accounted(c)
  /\ \A n \in notes : n[3] = "page" => <<n[1], n[2], "note">> \in notes

\* A record is taken when it was handed over or can never be; a pass has taken every
\* page behind its cursor and, of its page, what it has handed over.
Taken(r) == r \in Malformed \/ HashOf[r] \in started
TakenTo(n) == \A i \in 1..n : \A k \in 1..Len(Pages[i]) : Taken(Pages[i][k])

PassInv ==
  /\ TakenTo(cursor)
  /\ \A p \in Passes :
       /\ TakenTo(at[p])
       /\ pass[p] = "deliver" => \A k \in 1..handed[p] : Taken(Page(p)[k])

IInv == TypeOK /\ RunInv /\ PassInv

LEMMA Lengths == N \in Nat /\ \A i \in 1..N : Pages[i] \in Seq(Records) /\ Len(Pages[i]) \in Nat
BY ConnectorAssumption DEF N

LEMMA RecordType ==
  ASSUME NEW i \in 1..N, NEW k \in 1..Len(Pages[i])
  PROVE  Pages[i][k] \in Records /\ HashOf[Pages[i][k]] \in Contents
BY Lengths, ConnectorAssumption

LEMMA FaultType == faults \in 0..MaxFaults /\ Fault => faults' \in 0..MaxFaults
BY IngestionAssumption DEF Fault

-----------------------------------------------------------------------------
(* Type correctness *)

LEMMA InitInv == Init => IInv
<1> SUFFICES ASSUME Init PROVE IInv
  OBVIOUS
<1>1. IngestionTypeOK
  BY IngestionAssumption DEF Init, IngestionInit, IngestionTypeOK, Steps, Ends, Sources
<1>2. TypeOK
  BY <1>1, Lengths DEF Init, TypeOK
<1>3. RunInv
  BY DEF Init, IngestionInit, RunInv, Accounted
<1>4. PassInv
  BY DEF Init, PassInv, TakenTo
<1> QED BY <1>2, <1>3, <1>4 DEF IInv

\* The steps of a run keep the types of everything.
LEMMA RunTypes ==
  ASSUME IngestionTypeOK, NEW c \in Contents, Run(c)
  PROVE  IngestionTypeOK'
<1>1. CASE Register(c)
  BY <1>1, FaultType DEF Register, IngestionTypeOK, EndAs, Goto, Steps, Ends
<1>2. CASE Route(c)
  BY <1>2, FaultType DEF Route, IngestionTypeOK, EndAs, Goto, Steps, Ends, stores
<1>3. CASE Park(c)
  BY <1>3, FaultType DEF Park, IngestionTypeOK, EndAs, Goto, Steps, Ends
<1>4. CASE Process(c)
  BY <1>4, FaultType DEF Process, IngestionTypeOK, EndAs, Goto, Steps, Ends, stores
<1>5. CASE ReadBase(c)
  BY <1>5, FaultType DEF ReadBase, IngestionTypeOK, Goto, Steps, Ends, stores, Vault, NoVault
<1>6. CASE Apply(c)
  BY <1>6, FaultType DEF Apply, Committed, CommitFails, IngestionTypeOK, EndAs, Goto, Steps, Ends,
     stores, Note, NoVault
<1>7. CASE Propose(c)
  BY <1>7, FaultType DEF Propose, IngestionTypeOK, EndAs, Goto, Steps, Ends, stores
<1>8. CASE Surface(c)
  BY <1>8, FaultType DEF Surface, IngestionTypeOK, Goto, Steps, Ends, run
<1> QED BY <1>1, <1>2, <1>3, <1>4, <1>5, <1>6, <1>7, <1>8 DEF Run

\* Starting a run, or not, for a source.
LEMMA DispatchTypes ==
  ASSUME IngestionTypeOK, NEW c \in Contents, NEW s \in Sources,
         Dispatched(c, s) \/ DispatchFails(c, s),
         UNCHANGED <<disk, stores, notes, edits, expiries>>, timer' \subseteq timer
  PROVE  IngestionTypeOK'
<1>1. faults' \in 0..MaxFaults
  BY FaultType DEF Dispatched, DispatchFails, IngestionTypeOK
<1>2. CASE UNCHANGED <<pc, run, started>>
  BY <1>1, <1>2 DEF IngestionTypeOK, stores, run
<1>3. CASE Start(c, s)
  <2>1. CASE pc[c] = "none"
    <3>1. pc' \in [Contents -> Steps] /\ src' \in [Contents -> Sources \cup {NoSource}]
      BY <1>3, <2>1 DEF Start, IngestionTypeOK, Steps
    <3>2. s # NoSource /\ seen \subseteq started' /\ started' \subseteq Contents
      BY <1>3, <2>1, IngestionAssumption DEF Start, IngestionTypeOK
    <3> QED BY <1>1, <1>3, <2>1, <3>1, <3>2 DEF Start, IngestionTypeOK, stores
  <2>2. CASE pc[c] # "none"
    BY <1>1, <1>3, <2>2 DEF Start, IngestionTypeOK, stores
  <2> QED BY <2>1, <2>2
<1> QED BY <1>2, <1>3 DEF Dispatched, DispatchFails

LEMMA OtherTypes ==
  ASSUME IngestionTypeOK,
         \/ \E f \in Files, x \in Contents : Edit(f, x)
         \/ \E c \in Contents : Expire(c) \/ Exhausted(c)
         \/ Fault /\ Restarted
  PROVE  IngestionTypeOK'
<1>1. ASSUME NEW f \in Files, NEW x \in Contents, Edit(f, x) PROVE IngestionTypeOK'
  BY <1>1, FaultType, IngestionAssumption DEF Edit, IngestionTypeOK, stores, run
<1>2. ASSUME NEW c \in Contents, Expire(c) PROVE IngestionTypeOK'
  BY <1>2, IngestionAssumption DEF Expire, IngestionTypeOK, Goto, Steps, Ends
<1>4. ASSUME NEW c \in Contents, Exhausted(c) PROVE IngestionTypeOK'
  BY <1>4, FaultType DEF Exhausted, IngestionTypeOK, Goto, Steps, Ends, stores, NoVault
<1>3. CASE Fault /\ Restarted
  BY <1>3, FaultType DEF Restarted, IngestionTypeOK, Steps, Ends, stores, NoVault
<1> QED BY <1>1, <1>2, <1>3, <1>4

\* What a pass does to the cursors, its page and the vendor.
ConnectorTypes ==
  /\ avail \in 0..N /\ cursor \in 0..avail
  /\ pass \in [Passes -> {"idle", "fetch", "deliver"}]
  /\ at \in [Passes -> 0..avail] /\ handed \in [Passes -> Nat]
  /\ \A p \in Passes :
       IF pass[p] = "deliver" THEN at[p] < avail /\ handed[p] <= Len(Page(p))
                              ELSE handed[p] = 0

\* Nothing of the ingestion moves but the faults.
LEMMA IdleTypes ==
  ASSUME IngestionTypeOK, faults' \in 0..MaxFaults,
         UNCHANGED <<disk, timer, pc, run, stores, notes, started, edits, expiries>>
  PROVE  IngestionTypeOK'
BY DEF IngestionTypeOK, stores, run

\* One pass p moves to page a, step s and record n.
Moves(p, a, s, n) ==
  /\ at' = [at EXCEPT ![p] = a] /\ pass' = [pass EXCEPT ![p] = s]
  /\ handed' = [handed EXCEPT ![p] = n]

LEMMA MoveTypes ==
  ASSUME ConnectorTypes, NEW p \in Passes, UNCHANGED avail, cursor' \in 0..avail,
         NEW a \in 0..avail, NEW s \in {"idle", "fetch", "deliver"}, NEW n \in Nat,
         Moves(p, a, s, n),
         IF s = "deliver" THEN a < avail /\ n <= Len(Pages[a + 1]) ELSE n = 0
  PROVE  ConnectorTypes'
<1>1. /\ at' \in [Passes -> 0..avail] /\ pass' \in [Passes -> {"idle", "fetch", "deliver"}]
      /\ handed' \in [Passes -> Nat]
  BY DEF ConnectorTypes, Moves
<1>2. ASSUME NEW q \in Passes
      PROVE  (IF pass[q] = "deliver" THEN at[q] < avail /\ handed[q] <= Len(Page(q))
                                    ELSE handed[q] = 0)'
  <2>1. CASE q = p
    BY <2>1 DEF ConnectorTypes, Moves, Page
  <2>2. CASE q # p
    BY <2>2 DEF ConnectorTypes, Moves, Page
  <2> QED BY <2>1, <2>2
<1> QED BY <1>1, <1>2 DEF ConnectorTypes

LEMMA PassTypes ==
  ASSUME TypeOK, NEW p \in Passes, Pass(p)
  PROVE  TypeOK'
<1>1. IngestionTypeOK /\ ConnectorTypes /\ faults \in 0..MaxFaults
  BY DEF TypeOK, ConnectorTypes, Page, IngestionTypeOK
<1>2. CASE Begin(p)
  <2>1. IngestionTypeOK'
    BY <1>1, <1>2, FaultType, IdleTypes DEF Begin
  <2>2. ConnectorTypes'
    BY <1>1, <1>2, Lengths DEF Begin, ConnectorTypes, Step, Page
  <2> QED BY <2>1, <2>2 DEF TypeOK, ConnectorTypes, Page
<1>3. CASE Fetch(p)
  <2>1. IngestionTypeOK'
    BY <1>1, <1>3, FaultType, IdleTypes DEF Fetch
  <2>2. handed[p] = 0 /\ (Moves(p, 0, "idle", 0) \/ (at[p] < avail /\ Moves(p, at[p], "deliver", 0)))
    BY <1>1, <1>3 DEF Fetch, ConnectorTypes, Step, Stop, Moves
  <2>3. at[p] < avail => at[p] + 1 \in 1..N
    BY <1>1, Lengths DEF ConnectorTypes
  <2>4. UNCHANGED <<avail, cursor>> /\ cursor \in 0..avail /\ at[p] \in 0..avail /\ 0 \in 0..avail
    BY <1>1, <1>3, Lengths DEF Fetch, ConnectorTypes
  <2>5. ASSUME Moves(p, 0, "idle", 0) PROVE ConnectorTypes'
    BY <1>1, <2>4, <2>5, MoveTypes
  <2>6. ASSUME at[p] < avail, Moves(p, at[p], "deliver", 0) PROVE ConnectorTypes'
    <3>1. 0 <= Len(Pages[at[p] + 1])
      BY <2>3, <2>6, Lengths
    <3> QED BY <1>1, <2>4, <2>6, <3>1, MoveTypes
  <2>7. ConnectorTypes'
    BY <2>2, <2>5, <2>6
  <2> QED BY <2>1, <2>7 DEF TypeOK, ConnectorTypes, Page
<1>4. CASE Deliver(p)
  <2> DEFINE r == Page(p)[handed[p] + 1]
             c == HashOf[r]
  <2>1. at[p] + 1 \in 1..N /\ handed[p] + 1 \in 1..Len(Page(p)) /\ Len(Page(p)) \in Nat
    BY <1>1, <1>4, Lengths DEF Deliver, ConnectorTypes, Page
  <2>2. r \in Sources /\ c \in Contents
    BY <2>1, RecordType DEF Page, Sources
  <2>3. IngestionTypeOK'
    <3>1. CASE UNCHANGED <<pc, run, started, faults>>
      BY <1>1, <1>4, <3>1, IdleTypes DEF Deliver
    <3>2. CASE Dispatched(c, r) \/ DispatchFails(c, r)
      BY <1>1, <1>4, <2>2, <3>2, DispatchTypes DEF Deliver
    <3> QED BY <1>4, <3>1, <3>2 DEF Deliver
  <2>4. Took(p) \/ Held(p)
    BY <1>4 DEF Deliver
  <2>5. UNCHANGED <<avail, cursor>> /\ cursor \in 0..avail /\ at[p] \in 0..avail /\ 0 \in 0..avail
    BY <1>1, <1>4, Lengths DEF Deliver, ConnectorTypes
  <2>6. Moves(p, 0, "idle", 0) \/ Moves(p, at[p], "deliver", handed[p] + 1)
    BY <1>1, <1>4, <2>4 DEF Deliver, ConnectorTypes, Took, Held, Step, Stop, Moves
  <2>7. at[p] < avail /\ handed[p] + 1 <= Len(Pages[at[p] + 1]) /\ handed[p] + 1 \in Nat
    BY <1>1, <1>4, <2>1 DEF Deliver, ConnectorTypes, Page
  <2>8. ConnectorTypes'
    BY <1>1, <2>5, <2>6, <2>7, MoveTypes
  <2> QED BY <2>3, <2>8 DEF TypeOK, ConnectorTypes, Page
<1>5. CASE Advance(p)
  <2>1. IngestionTypeOK'
    BY <1>1, <1>5, FaultType, IdleTypes DEF Advance
  <2>2. /\ at[p] + 1 \in 1..avail /\ UNCHANGED avail
        /\ Moves(p, 0, "idle", 0) \/ (at[p] + 1 # avail /\ Moves(p, at[p] + 1, "fetch", 0))
    BY <1>1, <1>5, Lengths DEF Advance, ConnectorTypes, Step, Stop, Moves
  <2>3. cursor' \in 0..avail /\ 0 \in 0..avail /\ at[p] + 1 \in 0..avail
    BY <1>1, <1>5, <2>2, Lengths DEF Advance, ConnectorTypes
  <2>4. ConnectorTypes'
    BY <1>1, <2>2, <2>3, MoveTypes
  <2> QED BY <2>1, <2>4 DEF TypeOK, ConnectorTypes, Page
<1> QED BY <1>2, <1>3, <1>4, <1>5 DEF Pass, GoOn

LEMMA TypeStep == TypeOK /\ [Next]_vars => TypeOK'
<1> SUFFICES ASSUME TypeOK, [Next]_vars PROVE TypeOK'
  OBVIOUS
<1>1. ASSUME UNCHANGED connector, IngestionTypeOK' PROVE TypeOK'
  BY <1>1 DEF TypeOK, connector
<1>2. ASSUME NEW f \in Files, Capture(f), UNCHANGED connector PROVE TypeOK'
  <2>1. disk[f] \in Contents /\ f \in Sources
    BY DEF TypeOK, IngestionTypeOK, Sources
  <2> QED BY <1>1, <1>2, <2>1, DispatchTypes DEF Capture, TypeOK
<1>3. CASE IngestionNext /\ UNCHANGED connector
  BY <1>1, <1>2, <1>3, RunTypes, OtherTypes DEF IngestionNext, Watch, TypeOK
<1>4. CASE Publish
  <2>1. IngestionTypeOK'
    BY <1>4 DEF Publish, TypeOK, IngestionTypeOK, runVars, run, stores
  <2> QED BY <1>4, <2>1, Lengths DEF Publish, TypeOK
<1>5. ASSUME NEW p \in Passes, Pass(p) PROVE TypeOK'
  BY <1>5, PassTypes
<1>6. CASE Crash
  <2>1. IngestionTypeOK'
    BY <1>6, OtherTypes DEF Crash, TypeOK
  <2> QED BY <1>6, <2>1, Lengths DEF Crash, TypeOK
<1>7. CASE UNCHANGED vars
  BY <1>1, <1>7 DEF TypeOK, vars, runVars, run, stores, IngestionTypeOK
<1> QED BY <1>3, <1>4, <1>5, <1>6, <1>7 DEF Next

-----------------------------------------------------------------------------
(* What a run has done *)

\* A step of the run of c keeps the account when it keeps that of c.
LEMMA OneRun ==
  ASSUME RunInv, NEW c \in Contents, Accounted(c)',
         notes \subseteq notes', health \subseteq health', unheard \subseteq unheard',
         \A d \in Contents \ {c} : /\ pc'[d] = pc[d] /\ plan'[d] = plan[d] /\ end'[d] = end[d]
                                  /\ src'[d] = src[d],
         \A n \in notes' : n[3] = "page" => <<n[1], n[2], "note">> \in notes'
  PROVE  RunInv'
<1>1. ASSUME NEW d \in Contents PROVE Accounted(d)'
  <2>1. CASE d # c
    BY <2>1 DEF RunInv, Accounted, Written
  <2> QED BY <2>1
<1> QED BY <1>1 DEF RunInv

RunTyped ==
  /\ pc \in [Contents -> Steps] /\ src \in [Contents -> Sources \cup {NoSource}]
  /\ plan \in [Contents -> {"note", "page"}] /\ end \in [Contents -> Ends]
  /\ \A c \in Contents : pc[c] \in {"surface", "done"} <=> end[c] # "none"

LEMMA RunStep ==
  ASSUME TypeOK, RunInv, NEW c \in Contents, Run(c)
  PROVE  RunInv'
<1> DEFINE PagesHaveNotes == \A n \in notes : n[3] = "page" => <<n[1], n[2], "note">> \in notes
<1>1. RunTyped
  BY DEF TypeOK, IngestionTypeOK, RunTyped
<1>2. Accounted(c) /\ PagesHaveNotes
  BY DEF RunInv
<1>3. CASE Register(c) \/ Route(c) \/ Process(c) \/ Park(c) \/ ReadBase(c) \/ Propose(c)
  <2>1. Accounted(c)'
    BY <1>1, <1>2, <1>3 DEF Register, Route, Process, Park, ReadBase, Propose, EndAs, Goto, stores,
       RunTyped, Accounted, Written
  <2>2. UNCHANGED <<notes, health, unheard, src, plan>>
    BY <1>3 DEF Register, Route, Process, Park, ReadBase, Propose, stores
  <2>3. \A d \in Contents \ {c} : pc'[d] = pc[d] /\ end'[d] = end[d]
    BY <1>1, <1>3 DEF Register, Route, Process, Park, ReadBase, Propose, EndAs, Goto, RunTyped
  <2> QED BY <1>2, <2>1, <2>2, <2>3, OneRun
<1>4. CASE Apply(c)
  <2>1. /\ pc[c] = "apply" /\ notes \subseteq notes' /\ notes' \subseteq notes \cup {Note(c)}
        /\ UNCHANGED <<src, health, unheard>>
    BY <1>4 DEF Apply, stores
  <2>2. /\ pc'[c] \in {"propose", "base", "surface"}
        /\ end'[c] \in {"none", "failed"} /\ (end'[c] = "failed" => plan'[c] = "note")
        /\ pc'[c] = "surface" <=> end'[c] = "failed"
        /\ \A d \in Contents \ {c} : pc'[d] = pc[d] /\ plan'[d] = plan[d] /\ end'[d] = end[d]
    BY <1>1, <1>4 DEF Apply, Committed, CommitFails, EndAs, Goto, RunTyped, Steps
  <2>3. plan'[c] = "page" \/ pc'[c] = "propose" => Written(c)'
    <3>1. CASE plan[c] = "page"
      BY <1>2, <2>1, <3>1 DEF Accounted, Written
    <3>2. CASE plan[c] = "note"
      BY <1>1, <1>4, <2>1, <3>2 DEF Apply, Committed, CommitFails, EndAs, Goto, RunTyped, Note, Written
    <3> QED BY <1>1, <3>1, <3>2 DEF RunTyped
  <2>4. Accounted(c)'
    BY <2>2, <2>3 DEF Accounted
  <2>5. PagesHaveNotes'
    <3>1. plan[c] = "page" => <<src[c], c, "note">> \in notes
      BY <1>2 DEF Accounted, Written
    <3> QED BY <1>2, <2>1, <3>1 DEF Note
  <2> QED BY <2>1, <2>2, <2>4, <2>5, OneRun
<1>5. CASE Surface(c)
  <2>1. /\ UNCHANGED <<notes, src, plan, end>> /\ health \subseteq health' /\ unheard \subseteq unheard'
        /\ pc[c] = "surface" /\ pc'[c] = "done" /\ c \in health' \cup unheard'
        /\ \A d \in Contents \ {c} : pc'[d] = pc[d]
    BY <1>1, <1>5 DEF Surface, Goto, RunTyped, run
  <2>2. Accounted(c)'
    BY <1>2, <2>1 DEF Accounted, Written
  <2> QED BY <1>2, <2>1, <2>2, OneRun
<1> QED BY <1>3, <1>4, <1>5 DEF Run

LEMMA DispatchStep ==
  ASSUME TypeOK, RunInv, NEW c \in Contents, NEW s \in Sources, UNCHANGED <<stores, notes>>,
         Dispatched(c, s) \/ DispatchFails(c, s) \/ UNCHANGED <<pc, run, started>>
  PROVE  RunInv'
<1>1. RunTyped
  BY DEF TypeOK, IngestionTypeOK, RunTyped
<1>2. CASE UNCHANGED <<pc, src, plan, end>>
  BY <1>2 DEF RunInv, Accounted, Written, stores
<1>3. CASE pc[c] = "none" /\ Start(c, s)
  <2>1. /\ UNCHANGED <<plan, end>> /\ pc'[c] = "register" /\ plan[c] = "note" /\ end[c] = "none"
        /\ \A d \in Contents \ {c} : pc'[d] = pc[d] /\ src'[d] = src[d]
    BY <1>1, <1>3 DEF Start, RunTyped, RunInv, Accounted
  <2>2. Accounted(c)'
    BY <2>1 DEF Accounted
  <2> QED BY <2>1, <2>2, OneRun DEF RunInv, stores
<1> QED BY <1>2, <1>3 DEF Dispatched, DispatchFails, Start, run

LEMMA RunInvStep == TypeOK /\ RunInv /\ [Next]_vars => RunInv'
<1> SUFFICES ASSUME TypeOK, RunInv, [Next]_vars PROVE RunInv'
  OBVIOUS
<1>1. ASSUME UNCHANGED <<pc, run, stores, notes>> PROVE RunInv'
  BY <1>1 DEF RunInv, Accounted, Written, run, stores
<1>2. ASSUME NEW f \in Files, Capture(f) PROVE RunInv'
  <2>1. disk[f] \in Contents /\ f \in Sources
    BY DEF TypeOK, IngestionTypeOK, Sources
  <2> QED BY <1>2, <2>1, DispatchStep DEF Capture
<1>3. ASSUME NEW c \in Contents, Expire(c) PROVE RunInv'
  BY <1>3 DEF Expire, Goto, RunInv, Accounted, Written, TypeOK, IngestionTypeOK
<1>9. ASSUME NEW c \in Contents, Exhausted(c) PROVE RunInv'
  BY <1>9 DEF Exhausted, Goto, RunInv, Accounted, Written, TypeOK, IngestionTypeOK, stores
<1>4. ASSUME NEW f \in Files, NEW x \in Contents, Edit(f, x) PROVE RunInv'
  BY <1>1, <1>4 DEF Edit
<1>5. ASSUME NEW p \in Passes, Deliver(p) PROVE RunInv'
  <2> DEFINE r == Page(p)[handed[p] + 1]
  <2>1. at[p] + 1 \in 1..N /\ handed[p] + 1 \in 1..Len(Page(p))
    BY <1>5, Lengths DEF Deliver, TypeOK, Page
  <2>2. r \in Sources /\ HashOf[r] \in Contents
    BY <2>1, RecordType DEF Page, Sources
  <2> QED BY <1>5, <2>2, DispatchStep DEF Deliver
<1>6. ASSUME NEW p \in Passes, Begin(p) \/ Fetch(p) \/ Advance(p) PROVE RunInv'
  BY <1>1, <1>6 DEF Begin, Fetch, Advance
<1>7. CASE Crash
  BY <1>7 DEF Crash, Restarted, RunInv, Accounted, Written, TypeOK, IngestionTypeOK, stores
<1>8. CASE Publish \/ UNCHANGED vars
  BY <1>1, <1>8 DEF Publish, vars, runVars
<1> QED BY <1>2, <1>3, <1>4, <1>5, <1>6, <1>7, <1>8, <1>9, RunStep
        DEF Next, IngestionNext, Watch, Pass, GoOn

-----------------------------------------------------------------------------
(* What a pass has handed over *)

LEMMA StartedGrows == [Next]_vars => started \subseteq started'
<1>1. ASSUME NEW c \in Contents, Run(c) \/ Exhausted(c) \/ Expire(c) PROVE started \subseteq started'
  BY <1>1 DEF Run, Register, Route, Park, Process, ReadBase, Apply, Propose, Surface,
     Exhausted, Expire
<1>2. ASSUME NEW f \in Files, Capture(f) PROVE started \subseteq started'
  BY <1>2 DEF Capture, Dispatched, DispatchFails, Start
<1>3. ASSUME NEW f \in Files, NEW x \in Contents, Edit(f, x) PROVE started \subseteq started'
  BY <1>3 DEF Edit
<1>4. ASSUME NEW p \in Passes, Pass(p) PROVE started \subseteq started'
  BY <1>4 DEF Pass, GoOn, Begin, Fetch, Deliver, Advance, Dispatched, DispatchFails, Start
<1>5. ASSUME Publish \/ Crash \/ UNCHANGED vars PROVE started \subseteq started'
  BY <1>5 DEF Publish, Crash, Restarted, vars, runVars
<1> QED BY <1>1, <1>2, <1>3, <1>4, <1>5 DEF Next, IngestionNext, Watch

\* Pages taken stay taken.
LEMMA TakenGrows ==
  ASSUME started \subseteq started', NEW n, TakenTo(n)
  PROVE  TakenTo(n)'
BY DEF TakenTo, Taken

LEMMA PassInvStep == TypeOK /\ PassInv /\ [Next]_vars => PassInv'
<1> SUFFICES ASSUME TypeOK, PassInv, [Next]_vars PROVE PassInv'
  OBVIOUS
<1>1. started \subseteq started'
  BY StartedGrows
<1>3. ASSUME UNCHANGED <<cursor, at, pass, handed>> PROVE PassInv'
  BY <1>1, <1>3 DEF PassInv, TakenTo, Taken, Page
<1>4. ASSUME NEW p \in Passes, TakenTo(cursor'),
             NEW a \in 0..N, NEW s, NEW n \in Nat, Moves(p, a, s, n), TakenTo(a)',
             s = "deliver" => \A k \in 1..n : (Taken(Pages[a + 1][k]))'
      PROVE  PassInv'
  <2>1. ASSUME NEW q \in Passes PROVE
          /\ TakenTo(at[q])'
          /\ (pass[q] = "deliver" => \A k \in 1..handed[q] : Taken(Page(q)[k]))'
    <3>1. CASE q = p
      BY <1>4, <3>1 DEF Moves, TypeOK, Page
    <3>2. CASE q # p
      BY <1>1, <3>2, <1>4 DEF Moves, TypeOK, PassInv, TakenTo, Taken, Page
    <3> QED BY <3>1, <3>2
  <2>2. TakenTo(cursor)'
    BY <1>1, <1>4, TakenGrows
  <2> QED BY <2>1, <2>2 DEF PassInv
<1>5. TakenTo(0)
  BY DEF TakenTo
<1>6. ASSUME NEW p \in Passes, Begin(p) PROVE PassInv'
  <2>1. PICK a \in {0, cursor} : Moves(p, a, "fetch", 0)
    BY <1>6 DEF Begin, Step, Moves, TypeOK
  <2>2. UNCHANGED cursor /\ a \in 0..N /\ TakenTo(a) /\ TakenTo(cursor)
    BY <1>5, <1>6, Lengths DEF Begin, TypeOK, PassInv
  <2> QED BY <1>1, <1>4, <2>1, <2>2, TakenGrows
<1>7. ASSUME NEW p \in Passes, Fetch(p) PROVE PassInv'
  <2>1. PICK a \in {0, at[p]}, t \in {"idle", "deliver"} : Moves(p, a, t, 0)
    BY <1>7 DEF Fetch, Step, Stop, Moves, TypeOK
  <2>2. UNCHANGED cursor /\ a \in 0..N /\ TakenTo(a) /\ TakenTo(cursor)
    BY <1>5, <1>7, Lengths DEF Fetch, TypeOK, PassInv
  <2> QED BY <1>1, <1>4, <2>1, <2>2, TakenGrows
<1>8. ASSUME NEW p \in Passes, Deliver(p) PROVE PassInv'
  <2> DEFINE r == Page(p)[handed[p] + 1]
             c == HashOf[r]
  <2>1. /\ pass[p] = "deliver" /\ UNCHANGED cursor /\ TakenTo(at[p]) /\ TakenTo(cursor)
        /\ \A k \in 1..handed[p] : Taken(Page(p)[k])
    BY <1>8 DEF Deliver, PassInv
  <2>2. at[p] \in 0..N /\ at[p] + 1 \in 1..N /\ handed[p] + 1 \in 1..Len(Page(p)) /\ handed[p] \in Nat
    BY <1>8, Lengths DEF Deliver, TypeOK, Page
  <2>3. c \in Contents
    BY <2>2, RecordType DEF Page
  <2>4. Held(p) \/ (Took(p) /\ (r \in Malformed \/ c \in seen \/ Dispatched(c, r)))
    BY <1>8 DEF Deliver
  <2>5. CASE Held(p)
    <3>1. Moves(p, 0, "idle", 0)
      BY <2>5 DEF Held, Stop, Step, Moves
    <3> QED BY <1>1, <1>4, <1>5, <2>1, <3>1, TakenGrows, Lengths
  <2>6. CASE Took(p) /\ (r \in Malformed \/ c \in seen \/ Dispatched(c, r))
    <3>1. PICK a \in 0..N, n \in Nat : /\ a = at[p] /\ n = handed[p] + 1
                                      /\ Moves(p, a, "deliver", n)
      <4>1. /\ at' = [at EXCEPT ![p] = at[p]] /\ pass' = [pass EXCEPT ![p] = "deliver"]
            /\ handed' = [handed EXCEPT ![p] = handed[p] + 1]
        BY <2>1, <2>6 DEF Took, TypeOK
      <4>2. at[p] \in 0..N /\ handed[p] + 1 \in Nat
        BY <2>2
      <4> QED BY <4>1, <4>2 DEF Moves
    <3>2. r \in Malformed \/ c \in started'
      BY <1>1, <2>3, <2>6 DEF Dispatched, Start, TypeOK, IngestionTypeOK
    <3>3. ASSUME NEW k \in 1..n PROVE (Taken(Pages[a + 1][k]))'
      <4>1. CASE k = handed[p] + 1
        BY <3>1, <3>2, <4>1 DEF Page, Taken
      <4>2. CASE k \in 1..handed[p]
        BY <1>1, <2>1, <3>1, <4>2 DEF Taken, Page
      <4> QED BY <2>2, <3>1, <4>1, <4>2
    <3>4. TakenTo(a)
      BY <2>1, <3>1
    <3> QED BY <1>1, <1>4, <2>1, <3>1, <3>3, <3>4, TakenGrows
  <2> QED BY <2>4, <2>5, <2>6
<1>9. ASSUME NEW p \in Passes, Advance(p) PROVE PassInv'
  <2>1. PICK a \in {0, at[p] + 1}, t \in {"idle", "fetch"} : Moves(p, a, t, 0)
    BY <1>9 DEF Advance, Step, Stop, Moves, TypeOK
  <2>2. /\ at[p] \in 0..N /\ at[p] + 1 \in 1..N /\ pass[p] = "deliver" /\ TakenTo(at[p])
        /\ \A k \in 1..Len(Pages[at[p] + 1]) : Taken(Pages[at[p] + 1][k])
    BY <1>9, Lengths DEF Advance, TypeOK, PassInv, Page
  <2>3. TakenTo(at[p] + 1)
    BY <2>2 DEF TakenTo
  <2>4. TakenTo(cursor') /\ TakenTo(a) /\ a \in 0..N
    BY <1>5, <1>9, <2>2, <2>3, Lengths DEF Advance, PassInv
  <2> QED BY <1>1, <1>4, <2>1, <2>4, TakenGrows
<1>10. CASE Crash
  BY <1>1, <1>10 DEF Crash, PassInv, TakenTo, Taken
<1> QED BY <1>3, <1>6, <1>7, <1>8, <1>9, <1>10
        DEF Next, Pass, GoOn, Publish, vars, connector

LEMMA Inductive == Spec => []IInv
<1>1. Init => IInv
  BY InitInv
<1>2. IInv /\ [Next]_vars => IInv'
  BY TypeStep, RunInvStep, PassInvStep DEF IInv
<1> QED BY <1>1, <1>2, PTL DEF Spec

-----------------------------------------------------------------------------
(* Theorems *)

\* The state of the sync, the watcher, the runs and their stores is well typed.
THEOREM SourcesTyped == Spec => []TypeOK
BY Inductive, PTL DEF IInv

\* A run that says 'applied' has its note, and no page is there without its note.
THEOREM AppliedRunsAreWritten == Spec => []AppliedIsWritten
<1>1. IInv => AppliedIsWritten
  BY DEF IInv, RunInv, Accounted, Written, AppliedIsWritten
<1> QED BY <1>1, Inductive, PTL

\* A run that comes to an end of its own without its note is reported, or its report
\* was refused; of a run that breaks off nothing is said.
THEOREM OwnEndsAreReported == Spec => []EndsAreReported
<1>1. IInv => EndsAreReported
  BY DEF IInv, RunInv, Accounted, EndsAreReported
<1> QED BY <1>1, Inductive, PTL

\* However many passes are under way, no stored cursor passes a record that was not
\* handed over.
THEOREM CursorsStayBehind == Spec => []CursorBehindDelivery
<1>1. \A i \in 1..N : DOMAIN Pages[i] = 1..Len(Pages[i])
  BY Lengths
<1>2. ASSUME IInv, NEW i \in 1..cursor, NEW k \in DOMAIN Pages[i], Pages[i][k] \notin Malformed
      PROVE  HashOf[Pages[i][k]] \in started
  <2>1. cursor \in 0..N /\ TakenTo(cursor)
    BY <1>2, Lengths DEF IInv, TypeOK, PassInv
  <2>2. i \in 1..N /\ k \in 1..Len(Pages[i])
    BY <1>1, <1>2, <2>1, Lengths
  <2>3. Taken(Pages[i][k])
    BY <2>1, <2>2 DEF TakenTo
  <2> QED BY <1>2, <2>3 DEF Taken
<1>3. IInv => CursorBehindDelivery
  BY <1>2 DEF CursorBehindDelivery
<1> QED BY <1>3, Inductive, PTL
=============================================================================
