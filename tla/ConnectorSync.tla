---------------------------- MODULE ConnectorSync ----------------------------
(***************************************************************************)
(* The sync pass of one connector, and the ingestion it feeds.  A pass     *)
(* reads the stored cursor, fetches page after page, hands the records of  *)
(* a page to the dispatch one by one, and stores the cursor behind a page  *)
(* only when every record of it was taken.  Temporal runs a pass again     *)
(* whose answer does not come in time, while the first may still be going. *)
(* No schedule starts passes yet: connector polling is built and dormant,  *)
(* so nothing is assumed of when, or whether, a pass begins.               *)
(***************************************************************************)
EXTENDS SourceIngestion, Sequences

CONSTANTS
  Pages,      \* the vendor's pages in order: sequences of records
  HashOf,     \* the contents of each record
  Malformed,  \* records that registration rejects, and the page goes on without
  Passes      \* sync passes that may be under way at once

N == Len(Pages)

ASSUME ConnectorAssumption ==
  /\ Pages \in Seq(Seq(Records))
  /\ HashOf \in [Records -> Contents] /\ Malformed \subseteq Records

VARIABLES
  avail,   \* pages the vendor has
  cursor,  \* the stored cursor: the pages behind it
  pass,    \* what each pass is at
  at,      \* its own cursor
  handed   \* how many records of its page it has handed over

connector == <<avail, cursor, pass, at, handed>>
vars == <<runVars, connector>>

TypeOK ==
  /\ IngestionTypeOK
  /\ avail \in 0..N /\ cursor \in 0..avail
  /\ pass \in [Passes -> {"idle", "fetch", "deliver"}]
  /\ at \in [Passes -> 0..avail] /\ handed \in [Passes -> Nat]
  /\ \A p \in Passes :
       IF pass[p] = "deliver" THEN at[p] < avail /\ handed[p] <= Len(Pages[at[p] + 1])
                              ELSE handed[p] = 0

Init ==
  /\ IngestionInit
  /\ avail = 0 /\ cursor = 0
  /\ pass = [p \in Passes |-> "idle"] /\ at = [p \in Passes |-> 0]
  /\ handed = [p \in Passes |-> 0]

Step(p, s) == pass' = [pass EXCEPT ![p] = s]
Stop(p) == Step(p, "idle") /\ at' = [at EXCEPT ![p] = 0]

Publish == avail < N /\ avail' = avail + 1 /\ UNCHANGED <<runVars, cursor, pass, at, handed>>

\* A cursor that cannot be read is the beginning.
Begin(p) ==
  /\ pass[p] = "idle" /\ avail > 0 /\ Step(p, "fetch")
  /\ \/ at' = [at EXCEPT ![p] = cursor] /\ UNCHANGED faults
     \/ Fault /\ at' = [at EXCEPT ![p] = 0]
  /\ UNCHANGED <<disk, timer, pc, run, stores, notes, started, edits, expiries, avail, cursor, handed>>

\* An error of the vendor holds or degrades the pass; the cursor stays.
Fetch(p) ==
  /\ pass[p] = "fetch"
  /\ \/ at[p] < avail /\ Step(p, "deliver") /\ UNCHANGED <<at, faults>>
     \/ at[p] = avail /\ Stop(p) /\ UNCHANGED faults
     \/ Fault /\ Stop(p)
  /\ UNCHANGED <<disk, timer, pc, run, stores, notes, started, edits, expiries, avail, cursor,
                 handed>>

Page(p) == Pages[at[p] + 1]
Took(p) == handed' = [handed EXCEPT ![p] = @ + 1] /\ UNCHANGED <<pass, at>>
Held(p) == Stop(p) /\ handed' = [handed EXCEPT ![p] = 0]

\* (mutant) A record whose dispatch failed is left behind and the page goes on.
DeliverOnward(p) ==
  /\ pass[p] = "deliver" /\ handed[p] < Len(Page(p))
  /\ LET r == Page(p)[handed[p] + 1]  c == HashOf[r] IN
     \/ (r \in Malformed \/ c \in seen) /\ Took(p)
        /\ UNCHANGED <<pc, run, started, faults>>
     \/ r \notin Malformed /\ c \notin seen /\ (Dispatched(c, r) \/ DispatchFails(c, r)) /\ Took(p)
  /\ UNCHANGED <<disk, timer, stores, notes, edits, expiries, avail, cursor>>

\* A malformed or known record is passed over; one that cannot be dispatched
\* holds the page.
Deliver(p) ==
  /\ pass[p] = "deliver" /\ handed[p] < Len(Page(p))
  /\ LET r == Page(p)[handed[p] + 1]  c == HashOf[r] IN
     \/ (r \in Malformed \/ c \in seen) /\ Took(p)
        /\ UNCHANGED <<pc, run, started, faults>>
     \/ /\ r \notin Malformed /\ c \notin seen
        /\ \/ Dispatched(c, r) /\ Took(p)
           \/ DispatchFails(c, r) /\ Held(p)
  /\ UNCHANGED <<disk, timer, stores, notes, edits, expiries, avail, cursor>>

\* The page is taken: its cursor is stored, whatever the store answers, and the
\* pass goes on from it until the vendor has no more.
Advance(p) ==
  /\ pass[p] = "deliver" /\ handed[p] = Len(Page(p))
  /\ handed' = [handed EXCEPT ![p] = 0]
  /\ \/ cursor' = at[p] + 1 /\ UNCHANGED faults
     \/ Fault /\ UNCHANGED cursor
  /\ IF at[p] + 1 = avail THEN Stop(p)
     ELSE Step(p, "fetch") /\ at' = [at EXCEPT ![p] = @ + 1]
  /\ UNCHANGED <<disk, timer, pc, run, stores, notes, started, edits, expiries, avail>>

\* The worker dies; the stored cursor and the runs are what is left.
Crash ==
  /\ Fault /\ Restarted
  /\ pass' = [p \in Passes |-> "idle"] /\ at' = [p \in Passes |-> 0]
  /\ handed' = [p \in Passes |-> 0]
  /\ UNCHANGED <<avail, cursor>>

GoOn(p) == Fetch(p) \/ Deliver(p) \/ Advance(p)
Pass(p) == Begin(p) \/ GoOn(p)

Next ==
  \/ IngestionNext /\ UNCHANGED connector
  \/ Publish
  \/ \E p \in Passes : Pass(p)
  \/ Crash

\* The worker fires its timers, Temporal moves its runs, a pass under way goes on.
Spec == /\ Init /\ [][Next]_vars
        /\ WF_vars(Watch /\ UNCHANGED connector)
        /\ \A c \in Contents : WF_vars(Run(c) /\ UNCHANGED connector)
        /\ \A p \in Passes : WF_vars(GoOn(p))

-----------------------------------------------------------------------------
(* Properties *)

\* The stored cursor never passes a record that was not handed over (gateway.ts:
\* a page that is not taken whole is held), so a crash, a failed dispatch or two
\* passes at once lose no record.
CursorBehindDelivery ==
  \A i \in 1..cursor, r \in Records \ Malformed :
    (\E k \in DOMAIN Pages[i] : Pages[i][k] = r) => HashOf[r] \in started

\* Every run comes to rest, whatever answer is lost and wherever the worker dies;
\* and if passes are begun again and again, every record the vendor has is handed
\* over in the end, whichever of them fail.
AllSettles ==
  /\ <>[](\A c \in Contents : pc[c] \in {"none", "done"})
  /\ []<><<\E p \in Passes : Begin(p)>>_vars =>
       <>[](\A i \in 1..avail : \A k \in DOMAIN Pages[i] :
              Pages[i][k] \in Malformed \/ HashOf[Pages[i][k]] \in started)
=============================================================================
