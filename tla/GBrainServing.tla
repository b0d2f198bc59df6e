--------------------------- MODULE GBrainServing ---------------------------
(***************************************************************************)
(* What the Copilot may present as proven.  A reconcile pass compares the  *)
(* facts of the vault with those the index serves and records a parity     *)
(* report for the revision; an answer's sources are marked as written by   *)
(* the KnowledgeWriter only behind a clean and complete report for the     *)
(* revision it read, with the text of the vault and never of the index,    *)
(* and only where the note's stamp verifies.                               *)
(*                                                                         *)
(* The armed configuration: stamping, reconciliation, the version pin and  *)
(* the oracle legs are on.  Facts are pages; links only diverge softly.    *)
(***************************************************************************)
EXTENDS GBrainSync

CONSTANTS
  Planted,     \* what a process other than the worker writes into the index
  Quarantined, \* pages the ledger is seeded with
  MaxId        \* bound on the ids the passes of one boot hand out

ASSUME ServingAssumption ==
  /\ \A r \in Revisions, p \in Pages : Text[r][p] # Planted
  /\ Planted # NoText
  /\ Quarantined \subseteq Pages /\ MaxId \in Nat

VARIABLES
  signed,  \* page texts that carry a stamp of the KnowledgeWriter
  reports, \* the parity reports on record, by their id
  ids,     \* ids handed out since boot, to reports and to health items
  pass,    \* the reconcile pass under way
  ask      \* the question under way, and what the last answer showed as proven

parity == <<signed, reports, ids, pass, ask>>
vars   == <<syncVars, parity>>

NoReport == [revision |-> NoRevision, at |-> 0, clean |-> FALSE, complete |-> FALSE]
NoPass   == [pc |-> "idle", files |-> NoRevision, revision |-> NoRevision,
             id |-> 0, report |-> NoReport]
NoAsk    == [pc |-> "idle", hits |-> {}, files |-> NoRevision, revision |-> NoRevision,
             gated |-> FALSE, proven |-> {}]

Init ==
  /\ SyncInit
  /\ signed = {} /\ ids = 0
  /\ reports = [i \in 1..MaxId |-> NoReport]
  /\ pass = NoPass /\ ask = NoAsk

TypeOK ==
  /\ SyncTypeOK
  /\ \A s \in signed : s[1] \in Pages
  /\ ids \in 0..MaxId + 2 /\ DOMAIN reports = 1..MaxId
  /\ pass.pc \in {"idle", "head", "compare", "record"}
  /\ pass.pc \in {"compare", "record"} => {pass.files, pass.revision} \subseteq Revisions
  /\ ask.pc \in {"idle", "files", "head", "coverage", "admit"}
  /\ ask.pc \in {"coverage", "admit"} => {ask.files, ask.revision} \subseteq Revisions
  /\ ask.hits \subseteq Pages

-----------------------------------------------------------------------------
(* The reconcile pass *)

Quiet == UNCHANGED <<world, store, now, pc, job, due>>

\* The vault is read twice: its files, then its head revision.
ReadCanonical ==
  /\ pass.pc = "idle" /\ pc[Drain] = "idle" /\ ids < MaxId
  /\ pass' = [NoPass EXCEPT !.pc = "head", !.files = tree]
  /\ Quiet /\ UNCHANGED <<faults, signed, reports, ids, ask>>

ReadHead ==
  /\ pass.pc = "head"
  /\ pass' = IF pass.files \in Underivable THEN NoPass     \* skipped_derive_error
             ELSE [pass EXCEPT !.pc = "compare", !.revision = tree]
  /\ Quiet /\ UNCHANGED <<faults, signed, reports, ids, ask>>

\* A page only the index holds, or one it holds without a stamp; a missing or
\* differing text is soft, to be synced again.
Hard(p, r) == index[p] # NoFact /\ (Text[r][p] = NoText \/ index[p].text = Planted)

\* reconcileParity on the index as it is now; an incomplete read sees any part.
Compare ==
  /\ pass.pc = "compare"
  /\ \E seen \in SUBSET Pages, complete \in BOOLEAN :
       LET clean == \A p \in seen : ~ Hard(p, pass.files)
       IN  /\ complete => seen = Pages
           /\ pass' = [pass EXCEPT !.pc = "record", !.id = ids + 1,
                         !.report = [revision |-> pass.revision, at |-> 0,
                                     clean |-> clean, complete |-> complete]]
           /\ ids' = ids + (IF clean THEN 1 ELSE 3)    \* a health item and its audit
  /\ Quiet /\ UNCHANGED <<faults, signed, reports, ask>>

\* The insert does nothing when the id is taken; ids start again at each boot.
Record ==
  /\ pass.pc = "record"
  /\ \/ /\ reports' = IF reports[pass.id] # NoReport THEN reports
                      ELSE [reports EXCEPT ![pass.id] = [pass.report EXCEPT !.at = now]]
        /\ UNCHANGED faults
     \/ Fault /\ UNCHANGED reports                          \* pass_faulted
  /\ pass' = NoPass
  /\ Quiet /\ UNCHANGED <<signed, ids, ask>>

-----------------------------------------------------------------------------
(* The question *)

\* (mutant) The latest report, of whatever revision.
LatestOfAny(r) ==
  LET Of == {i \in DOMAIN reports : reports[i] # NoReport}
  IN  IF Of = {} THEN NoReport ELSE reports[CHOOSE i \in Of : \A j \in Of : j <= i]

\* getLatestForRevision: by instant, then by id.
Latest(r) ==
  LET Of == {i \in DOMAIN reports : reports[i].revision = r}
  IN  IF Of = {} THEN NoReport
      ELSE reports[CHOOSE i \in Of : \A j \in Of :
             reports[j].at < reports[i].at \/ (reports[j].at = reports[i].at /\ j <= i)]

\* (mutant) The context of an earlier question is taken for this one.
RetrieveCached(hits) ==
  /\ ask.pc = "idle" /\ pc[Drain] = "idle"
  /\ ask' = [ask EXCEPT !.pc = "coverage", !.hits = hits]
  /\ Quiet /\ UNCHANGED <<faults, signed, reports, ids, pass>>

\* Retrieval, over the index, names the pages of the answer.
Retrieve(hits) ==
  /\ ask.pc = "idle" /\ pc[Drain] = "idle"
  /\ ask' = [NoAsk EXCEPT !.pc = "files", !.hits = hits]
  /\ Quiet /\ UNCHANGED <<faults, signed, reports, ids, pass>>

ReadFiles ==
  /\ ask.pc = "files"
  /\ ask' = [ask EXCEPT !.pc = "head", !.files = tree]
  /\ Quiet /\ UNCHANGED <<faults, signed, reports, ids, pass>>

LoadContext ==
  /\ ask.pc = "head"
  /\ ask' = IF ask.files \in Underivable THEN NoAsk
            ELSE [ask EXCEPT !.pc = "coverage", !.revision = tree]
  /\ Quiet /\ UNCHANGED <<faults, signed, reports, ids, pass>>

\* A fault of the store degrades every leg.
ReadCoverage ==
  /\ ask.pc = "coverage"
  /\ \/ /\ ask' = [ask EXCEPT !.pc = "admit",
                     !.gated = Latest(ask.revision).clean /\ Latest(ask.revision).complete]
        /\ UNCHANGED faults
     \/ Fault /\ ask' = [ask EXCEPT !.pc = "admit"]
  /\ Quiet /\ UNCHANGED <<signed, reports, ids, pass>>

\* (mutant) The stamp is not verified.
AdmissibleUnsigned(p) == Text[ask.files][p] # NoText /\ p \notin Quarantined

Admissible(p) == /\ Text[ask.files][p] # NoText
                 /\ p \notin Quarantined
                 /\ <<p, Text[ask.files][p]>> \in signed

\* The text shown as proven is the vault's; the rest goes out unmarked.
Admit ==
  /\ ask.pc = "admit"
  /\ ask' = [NoAsk EXCEPT !.revision = ask.revision, !.proven =
               {<<p, Text[ask.files][p]>> : p \in {q \in ask.hits : ask.gated /\ Admissible(q)}}]
  /\ Quiet /\ UNCHANGED <<faults, signed, reports, ids, pass>>

-----------------------------------------------------------------------------
(* A stray writer on the index, and the steps of the sync *)

StrayWrites(p) ==
  /\ index[p].text # Planted
  /\ index' = [index EXCEPT ![p] = [text |-> Planted, revision |-> NoRevision]]
  /\ UNCHANGED <<world, outbox, applied, now, faults, pc, job, due, parity>>

\* The KnowledgeWriter stamps the pages its commit rewrites.
Stamps ==
  IF commits' # commits /\ tree' # tree
  THEN {<<p, Text[tree'][p]>> : p \in {q \in Pages : Text[tree'][q] \notin {NoText, Text[tree][q]}}}
  ELSE {}

SyncStep == Work /\ signed' = signed \cup Stamps /\ UNCHANGED <<reports, ids, pass, ask>>

Reboot ==
  /\ Restart
  /\ ids' = 0 /\ pass' = NoPass /\ ask' = NoAsk
  /\ UNCHANGED <<signed, reports>>

Next ==
  \/ SyncStep \/ Reboot
  \/ ReadCanonical \/ ReadHead \/ Compare \/ Record
  \/ (\E hits \in SUBSET Pages : Retrieve(hits))
  \/ ReadFiles \/ LoadContext \/ ReadCoverage \/ Admit
  \/ \E p \in Pages : StrayWrites(p)

Spec == Init /\ [][Next]_vars

-----------------------------------------------------------------------------
(* Properties *)

\* What an answer shows as written by the KnowledgeWriter was written by it,
\* although owner, commits and a stray process change vault and index between
\* the retrieval, the two reads of the vault, the report and the admission
\* (rehydration-gate.ts: the stamp is verified over the vault's own text).
ProvenIsSigned ==
  \A s \in ask.proven : s \in signed /\ s[1] \notin Quarantined

\* Nothing is shown as proven without a clean and complete report on record
\* for the revision the answer read: neither a report of another revision nor
\* one of part of the index opens the gate (servingContextLoader.ts).
ProvenIsReconciled ==
  ask.proven # {} =>
    \E i \in DOMAIN reports : /\ reports[i].revision = ask.revision
                              /\ reports[i].clean /\ reports[i].complete
=============================================================================
