-------------------------- MODULE WorkspacePosture --------------------------
(***************************************************************************)
(* What each workspace lets leave the machine, and who may read across     *)
(* workspaces.  Onboarding creates a workspace's row and registers it, the *)
(* owner revokes the acknowledgement that opens employer content to the    *)
(* cloud, a Copilot question is vetted against the row, and a link between *)
(* two registered workspaces is proposed, approved and revoked.            *)
(*                                                                         *)
(* Every request is a chain of single statements on the store with an      *)
(* await between two of them: requests interleave there, any statement may *)
(* fail without effect, and a restart drops the requests in flight.        *)
(***************************************************************************)

CONSTANTS
  Calls,      \* requests that can be under way at once
  Workspaces,
  Types,      \* of a workspace
  Names,      \* what onboarding may change later: name, vault path, brain
  Links,
  Grants,     \* what a link may ask for: <<reader, source>> and its scope
  Claude,     \* the processor the seeded policy names
  Local,      \* no processor: a loopback route
  None

Employer == "employer_work"

ASSUME PostureAssumption ==
  /\ Types \subseteq {Employer, "personal_business", "personal_life"}
  /\ Grants \subseteq Workspaces \X Workspaces
  /\ Claude # Local

VARIABLES
  rows,     \* workspace_config
  registry, \* the registered workspaces: what a scoped read may resolve
  audit,    \* workspaces with a revocation on record
  links,    \* cross_workspace_link
  route,    \* the processor of the route this boot's selector returns
  call,     \* the requests under way
  told,     \* history: workspaces whose owner was told the revoke succeeded
  sent      \* history: what left of the questions asked while the door was shut

vars == <<rows, registry, audit, links, route, call, told, sent>>

Routes == {Claude, Local}
Status == {"pending", "approved", "revoked"}

Row  == [type : Types, name : Names, ack : BOOLEAN,
         allowed : SUBSET {Claude}, raw : SUBSET {Claude}]
Link == [grant : Grants, status : Status]

Idle == [pc |-> "idle", workspace |-> None, row |-> None, ids |-> {},
         shut |-> FALSE, link |-> None, grant |-> None, seen |-> None]

OnRow  == {"insert", "update", "upsert", "veto"}
OnPlace == OnRow \cup {"register", "union", "audit", "retrieve", "posture"}
OnLink == {"source", "find", "mint", "approve", "revoke"}

Request == [pc : {"idle"} \cup OnPlace \cup OnLink, workspace : Workspaces \cup {None},
            row : Row \cup {None}, ids : SUBSET Workspaces, shut : BOOLEAN,
            link : Links \cup {None}, grant : Grants \cup {None}, seen : Status \cup {None}]

\* The question itself, or the prompt with what was retrieved from the vault.
Sent == {"question", "prompt"}

\* What a request holds where it stands.
Placed(r) ==
  /\ r.pc \in OnPlace => r.workspace \in Workspaces
  /\ r.pc \in OnRow => r.row \in Row
  /\ r.pc \in OnLink => r.link \in Links
  /\ r.pc \in {"source", "find", "mint"} => r.grant \in Grants

ASSUME NoneAssumption == None \notin Row /\ None \notin Link

TypeOK ==
  /\ rows \in [Workspaces -> Row \cup {None}]
  /\ registry \subseteq Workspaces /\ audit \subseteq Workspaces /\ told \subseteq Workspaces
  /\ links \in [Links -> Link \cup {None}]
  /\ route \in Routes
  /\ sent \subseteq Sent
  /\ call \in [Calls -> Request] /\ \A c \in Calls : Placed(call[c])

\* A row written before new rows were seeded: no later version migrated it.
Legacy == {[type |-> t, name |-> n, ack |-> FALSE, allowed |-> {}, raw |-> {}] :
             t \in Types, n \in Names}

Init ==
  /\ rows \in [Workspaces -> Legacy \cup {None}]
  /\ registry = {w \in Workspaces : rows[w] # None}
  /\ links = [l \in Links |-> None]
  /\ audit = {} /\ told = {} /\ sent = {}
  /\ route \in Routes
  /\ call = [c \in Calls |-> Idle]

-----------------------------------------------------------------------------
(* The life of a request *)

Begins(c, request) == call[c].pc = "idle" /\ call' = [call EXCEPT ![c] = request]
Goes(c, pc)        == call' = [call EXCEPT ![c].pc = pc]
Ends(c)            == call' = [call EXCEPT ![c] = Idle]

Stores == <<rows, registry, audit, links>>
Seen   == <<told, sent>>

\* A statement fails: the request answers with an error and has written nothing
\* more.  A record the redaction gate refuses ends a revoke in the same way.
Fail(c) ==
  /\ call[c].pc # "idle" /\ Ends(c)
  /\ UNCHANGED <<Stores, route, Seen>>

\* The worker dies and comes back, perhaps with the other route.
Restart ==
  /\ call' = [c \in Calls |-> Idle] /\ route' \in Routes
  /\ UNCHANGED <<Stores, Seen>>

-----------------------------------------------------------------------------
(* provisionWorkspace *)

\* defaultWorkspace with the seed of a new row: an employer's is opened to the
\* company's own processor, and to no other.
Seeded(t, n) == [type |-> t, name |-> n, ack |-> t = Employer,
                 allowed |-> {Claude}, raw |-> {Claude}]

\* A row of another type ends the request: the type never changes.
Provision(c, w, t, n) ==
  /\ \/ rows[w] = None /\ Begins(c, [Idle EXCEPT !.pc = "insert", !.workspace = w,
                                                 !.row = Seeded(t, n)])
     \/ /\ rows[w] # None /\ rows[w].type = t
        /\ Begins(c, [Idle EXCEPT !.pc = "update", !.workspace = w, !.row = Seeded(t, n)])
  /\ UNCHANGED <<Stores, route, Seen>>

\* (mutant) A conflicting insert overwrites the row.
InsertOver(c) ==
  /\ call[c].pc = "insert"
  /\ rows' = [rows EXCEPT ![call[c].workspace] = call[c].row] /\ Goes(c, "register")
  /\ UNCHANGED <<registry, audit, links, route, Seen>>

\* insertIfAbsent: the loser of a race writes nothing.
Insert(c) ==
  /\ call[c].pc = "insert"
  /\ \/ /\ rows[call[c].workspace] = None
        /\ rows' = [rows EXCEPT ![call[c].workspace] = call[c].row] /\ Goes(c, "register")
     \/ rows[call[c].workspace] # None /\ Ends(c) /\ UNCHANGED rows
  /\ UNCHANGED <<registry, audit, links, route, Seen>>

\* (mutant) Re-provisioning writes the whole aggregate.
UpdateAll(c) ==
  /\ call[c].pc = "update"
  /\ rows' = [rows EXCEPT ![call[c].workspace] = call[c].row] /\ Goes(c, "register")
  /\ UNCHANGED <<registry, audit, links, route, Seen>>

\* updateProvisioningFields: no column of the policy is in the statement.
Update(c) ==
  /\ call[c].pc = "update"
  /\ rows' = [rows EXCEPT ![call[c].workspace].name = call[c].row.name] /\ Goes(c, "register")
  /\ UNCHANGED <<registry, audit, links, route, Seen>>

\* registerWorkspace reads the set, then puts it back with one more: of two at
\* once, one may be lost.
ReadRegistry(c) ==
  /\ call[c].pc = "register"
  /\ call' = [call EXCEPT ![c].pc = "union", ![c].ids = registry]
  /\ UNCHANGED <<Stores, route, Seen>>

PutRegistry(c) ==
  /\ call[c].pc = "union"
  /\ registry' = call[c].ids \cup {call[c].workspace} /\ Ends(c)
  /\ UNCHANGED <<rows, audit, links, route, Seen>>

-----------------------------------------------------------------------------
(* revokeEgressAck *)

Revoke(c, w) ==
  /\ rows[w] # None
  /\ Begins(c, [Idle EXCEPT !.pc = "upsert", !.workspace = w, !.row = rows[w]])
  /\ UNCHANGED <<Stores, route, Seen>>

\* The whole row goes back as it was read, but for the acknowledgement.
WriteRevoked(c) ==
  /\ call[c].pc = "upsert"
  /\ rows' = [rows EXCEPT ![call[c].workspace] = [call[c].row EXCEPT !.ack = FALSE]]
  /\ Goes(c, "audit")
  /\ UNCHANGED <<registry, audit, links, route, Seen>>

\* Only now is the owner told.
AuditRevoked(c) ==
  /\ call[c].pc = "audit"
  /\ audit' = audit \cup {call[c].workspace} /\ told' = told \cup {call[c].workspace}
  /\ Ends(c)
  /\ UNCHANGED <<rows, registry, links, route, sent>>

-----------------------------------------------------------------------------
(* A Copilot question *)

Shut(w) == rows[w] # None /\ rows[w].type = Employer /\ ~ rows[w].ack

Ask(c, w) ==
  /\ Begins(c, [Idle EXCEPT !.pc = "retrieve", !.workspace = w, !.shut = Shut(w)])
  /\ UNCHANGED <<Stores, route, Seen>>

Sends(c, what) == sent' = IF call[c].shut THEN sent \cup {what} ELSE sent

\* The context is retrieved before the posture is read: an armed retrieval hands the
\* question to gbrain, which has it embedded in the cloud; the fixture sends nothing.
Retrieve(c) ==
  /\ call[c].pc = "retrieve" /\ Goes(c, "posture")
  /\ Sends(c, "question") \/ UNCHANGED sent
  /\ UNCHANGED <<Stores, route, told>>

\* The store-backed posture: no row is no posture.
ResolvePosture(c) ==
  /\ call[c].pc = "posture"
  /\ IF rows[call[c].workspace] = None THEN Ends(c)
     ELSE call' = [call EXCEPT ![c].pc = "veto", ![c].row = rows[call[c].workspace]]
  /\ UNCHANGED <<Stores, route, Seen>>

\* egressVeto, for a job that carries raw content: a question always does.
Clears(row, proc) ==
  /\ ~ (row.type = Employer /\ ~ row.ack /\ proc # Local)
  /\ proc = Local \/ (proc \in row.allowed /\ proc \in row.raw)

\* The veto and the call it clears are one step; a denial sends nothing more.
Synthesize(c) ==
  /\ call[c].pc = "veto"
  /\ IF Clears(call[c].row, route) /\ route # Local THEN Sends(c, "prompt") ELSE UNCHANGED sent
  /\ Ends(c)
  /\ UNCHANGED <<Stores, route, told>>

-----------------------------------------------------------------------------
(* Links between workspaces *)

\* Both ends must be registered, each by a read of its own.
CreateLink(c, l, g) ==
  /\ g[1] # g[2] /\ g[1] \in registry
  /\ Begins(c, [Idle EXCEPT !.pc = "source", !.link = l, !.grant = g])
  /\ UNCHANGED <<Stores, route, Seen>>

CheckSource(c) ==
  /\ call[c].pc = "source"
  /\ IF call[c].grant[2] \in registry THEN Goes(c, "find") ELSE Ends(c)
  /\ UNCHANGED <<Stores, route, Seen>>

\* A known link answers as it is, or refuses another grant.
FindLink(c) ==
  /\ call[c].pc = "find"
  /\ IF links[call[c].link] = None THEN Goes(c, "mint") ELSE Ends(c)
  /\ UNCHANGED <<Stores, route, Seen>>

\* (mutant) A link created twice starts again as pending.
MintOver(c) ==
  /\ call[c].pc = "mint"
  /\ links' = [links EXCEPT ![call[c].link] = [grant |-> call[c].grant, status |-> "pending"]]
  /\ Ends(c)
  /\ UNCHANGED <<rows, registry, audit, route, Seen>>

\* A second insert of one key is a conflict.
MintLink(c) ==
  /\ call[c].pc = "mint"
  /\ links' = IF links[call[c].link] # None THEN links
              ELSE [links EXCEPT ![call[c].link] =
                      [grant |-> call[c].grant, status |-> "pending"]]
  /\ Ends(c)
  /\ UNCHANGED <<rows, registry, audit, route, Seen>>

\* The status is read in one statement and written in another that does not
\* look at it again: a revoke in between is overwritten.
ApproveLink(c, l) ==
  /\ links[l] # None /\ links[l].status = "pending"
  /\ Begins(c, [Idle EXCEPT !.pc = "approve", !.link = l, !.seen = links[l].status])
  /\ UNCHANGED <<Stores, route, Seen>>

RevokeLink(c, l) ==
  /\ links[l] # None /\ links[l].status # "revoked"
  /\ Begins(c, [Idle EXCEPT !.pc = "revoke", !.link = l, !.seen = links[l].status])
  /\ UNCHANGED <<Stores, route, Seen>>

SetStatus(c) ==
  /\ \/ call[c].pc = "approve" /\ links' = [links EXCEPT ![call[c].link].status = "approved"]
     \/ call[c].pc = "revoke"  /\ links' = [links EXCEPT ![call[c].link].status = "revoked"]
  /\ Ends(c)
  /\ UNCHANGED <<rows, registry, audit, route, Seen>>

-----------------------------------------------------------------------------

Onboarding(c) ==
  \/ \E w \in Workspaces, t \in Types, n \in Names : Provision(c, w, t, n)
  \/ Insert(c) \/ Update(c) \/ ReadRegistry(c) \/ PutRegistry(c)
Egress(c) ==
  \/ \E w \in Workspaces : Revoke(c, w) \/ Ask(c, w)
  \/ WriteRevoked(c) \/ AuditRevoked(c) \/ Retrieve(c)
  \/ ResolvePosture(c) \/ Synthesize(c)
Linking(c) ==
  \/ \E l \in Links, g \in Grants : CreateLink(c, l, g)
  \/ \E l \in Links : ApproveLink(c, l) \/ RevokeLink(c, l)
  \/ CheckSource(c) \/ FindLink(c) \/ MintLink(c) \/ SetStatus(c)

Next == Restart \/ \E c \in Calls : Onboarding(c) \/ Egress(c) \/ Linking(c) \/ Fail(c)

Spec == Init /\ [][Next]_vars

-----------------------------------------------------------------------------
(* Properties *)

\* A revoke the owner was told of stays off and stays on record, whatever
\* onboarding of the same id is under way, retried or replayed, and whatever
\* other revoke writes back a row it read earlier (provisionWorkspace.ts: no
\* re-provision of that id can restore it, racing or not).
RevokeHolds ==
  \A w \in told : rows[w] # None /\ ~ rows[w].ack /\ w \in audit

\* Of a question asked while an employer's acknowledgement is off, no prompt reaches a
\* model in the cloud, although its posture is read later and used after an await
\* (storeBackedWorkspacePosture.ts, egress.ts).  The question itself may have left
\* before: the veto comes after the retrieval (copilot.ts:610-612, a tracked finding).
NoPromptOnceShut == "prompt" \notin sent

\* A registered workspace has a row: no scoped read resolves a workspace whose
\* posture does not exist (provisionWorkspace.ts: the insert comes first).
RegisteredHasRow == \A w \in registry : rows[w] # None

\* A revoked link comes back only by an approval that had read it as pending
\* before the revoke, never by one begun later or by creating it again; and
\* what a link grants never changes (crossWorkspaceLink.ts).
LinksStayRevoked ==
  [][\A l \in Links : links[l] # None =>
       /\ links'[l] # None /\ links'[l].grant = links[l].grant
       /\ links[l].status = "revoked" /\ links'[l].status # "revoked" =>
            \E c \in Calls : call[c].pc = "approve" /\ call[c].link = l /\ call[c].seen = "pending"
    ]_vars
=============================================================================
