----------------------- MODULE WorkspacePostureProofs -----------------------
(***************************************************************************)
(* What WorkspacePosture keeps, for every set of workspaces, requests and  *)
(* links.  A request that holds a row it read earlier is where the         *)
(* properties could break, so the invariant says of each such request how  *)
(* what it holds relates to the row as it is now.                          *)
(***************************************************************************)
EXTENDS WorkspacePosture, TLAPS

\* A request past the insert or the update has a row behind it; a revoke past
\* its write has an acknowledgement that is off.
HasRow(c) ==
  /\ call[c].pc \in {"update", "register", "union", "upsert", "audit"} =>
       rows[call[c].workspace] # None
  /\ call[c].pc = "audit" => ~ rows[call[c].workspace].ack

\* The row a revoke will write back has the type the row has now.
HeldTypeIsCurrent(c) ==
  call[c].pc = "upsert" => call[c].row.type = rows[call[c].workspace].type

\* What a request read of the registry has rows behind it.
ReadIdsHaveRows(c) == call[c].pc = "union" => \A w \in call[c].ids : rows[w] # None

\* The workspace of a question asked while it was shut is shut still, and so is
\* the posture the question holds.
ShutIsKept(c) ==
  call[c].pc \in {"retrieve", "posture", "veto"} /\ call[c].shut =>
    /\ Shut(call[c].workspace)
    /\ call[c].pc = "veto" => call[c].row.type = Employer /\ ~ call[c].row.ack

\* A link about to be approved or revoked is there, and an approval read it as
\* pending.
DecidedLinkExists(c) ==
  /\ call[c].pc \in {"approve", "revoke"} => links[call[c].link] # None
  /\ call[c].pc = "approve" => call[c].seen = "pending"

Known(c) ==
  /\ HasRow(c) /\ HeldTypeIsCurrent(c) /\ ReadIdsHaveRows(c)
  /\ ShutIsKept(c) /\ DecidedLinkExists(c)

IInv ==
  /\ TypeOK /\ \A c \in Calls : Known(c)
  /\ RegisteredHasRow /\ RevokeHolds /\ NoPromptOnceShut

\* What a step by request c is.
Handles(c) == Onboarding(c) \/ Egress(c) \/ Linking(c) \/ Fail(c)

-----------------------------------------------------------------------------
(* Requests *)

LEMMA IdleTyped == Idle \in Request /\ Placed(Idle)
BY DEF Idle, Request, Placed, OnPlace, OnRow, OnLink

LEMMA SeededTyped ==
  ASSUME NEW t \in Types, NEW n \in Names
  PROVE  Seeded(t, n) \in Row
BY DEF Seeded, Row

\* A request that moves to a well-formed record leaves the others as they are.
LEMMA CallTyped ==
  ASSUME TypeOK, NEW c \in Calls, NEW r \in Request, Placed(r),
         call' = [call EXCEPT ![c] = r]
  PROVE  call' \in [Calls -> Request] /\ \A d \in Calls : Placed(call'[d])
BY DEF TypeOK

\* The record a request goes on with, when only its place changes.
LEMMA GoesTyped ==
  ASSUME TypeOK, NEW c \in Calls, NEW pc,
         \/ pc \in {"register", "audit", "posture"} /\ call[c].pc \in OnPlace
         \/ pc \in {"find", "mint"} /\ call[c].pc \in {"source", "find"},
         Goes(c, pc)
  PROVE  call' \in [Calls -> Request] /\ \A d \in Calls : Placed(call'[d])
<1> DEFINE r == [call[c] EXCEPT !.pc = pc]
<1>1. call[c] \in Request /\ Placed(call[c])
  BY DEF TypeOK
<1>2. r \in Request
  BY <1>1 DEF Request, OnPlace, OnLink
<1>3. /\ r.pc = pc /\ r.workspace = call[c].workspace
      /\ r.row = call[c].row /\ r.link = call[c].link /\ r.grant = call[c].grant
  BY <1>1 DEF Request
<1>4. Placed(r)
  BY <1>1, <1>3 DEF Placed, OnPlace, OnRow, OnLink
<1>5. call' = [call EXCEPT ![c] = r]
  BY DEF Goes
<1> QED BY <1>2, <1>4, <1>5, CallTyped

LEMMA EndsTyped ==
  ASSUME TypeOK, NEW c \in Calls, Ends(c)
  PROVE  call' \in [Calls -> Request] /\ \A d \in Calls : Placed(call'[d])
BY IdleTyped, CallTyped DEF Ends

LEMMA BeginsTyped ==
  ASSUME TypeOK, NEW c \in Calls, NEW r \in Request, Placed(r), Begins(c, r)
  PROVE  call' \in [Calls -> Request] /\ \A d \in Calls : Placed(call'[d])
BY CallTyped DEF Begins

-----------------------------------------------------------------------------
(* The invariant *)

LEMMA InitInv == Init => IInv
<1> SUFFICES ASSUME Init PROVE IInv
  OBVIOUS
<1>1. ASSUME NEW t \in Types, NEW n \in Names
      PROVE  [type |-> t, name |-> n, ack |-> FALSE, allowed |-> {}, raw |-> {}] \in Row
  BY DEF Row
<1>2. \A c \in Calls : call[c] = Idle
  BY DEF Init
<1>3. Legacy \subseteq Row
  BY <1>1 DEF Legacy
<1>4. TypeOK
  BY <1>2, <1>3, IdleTyped DEF Init, TypeOK
<1>5. ASSUME NEW c \in Calls PROVE Known(c)
  <2>1. call[c].pc = "idle"
    BY <1>2 DEF Idle
  <2> QED BY <2>1 DEF Known, HasRow, HeldTypeIsCurrent, ReadIdsHaveRows, ShutIsKept,
                      DecidedLinkExists
<1>6. registry = {w \in Workspaces : rows[w] # None} /\ told = {} /\ sent = {}
  BY DEF Init
<1>7. RegisteredHasRow /\ RevokeHolds /\ NoPromptOnceShut
  BY <1>6 DEF RegisteredHasRow, RevokeHolds, NoPromptOnceShut
<1> QED BY <1>4, <1>5, <1>7 DEF IInv

LEMMA OnboardingTyped ==
  ASSUME TypeOK, NEW c \in Calls, HasRow(c), Onboarding(c)
  PROVE  TypeOK'
<1>1. ASSUME NEW w \in Workspaces, NEW t \in Types, NEW n \in Names, Provision(c, w, t, n)
      PROVE  TypeOK'
  <2> DEFINE r(pc) == [Idle EXCEPT !.pc = pc, !.workspace = w, !.row = Seeded(t, n)]
  <2>1. \A pc \in {"insert", "update"} : r(pc) \in Request /\ Placed(r(pc))
    BY SeededTyped DEF Idle, Request, Placed, OnPlace, OnRow, OnLink
  <2>2. \E pc \in {"insert", "update"} : Begins(c, r(pc))
    BY <1>1 DEF Provision
  <2>3. call' \in [Calls -> Request] /\ \A d \in Calls : Placed(call'[d])
    BY <2>1, <2>2, BeginsTyped
  <2> QED BY <1>1, <2>3 DEF Provision, TypeOK, Stores, Seen
<1>2. CASE Insert(c)
  <2>1. call[c].workspace \in Workspaces /\ call[c].row \in Row
    BY <1>2 DEF Insert, TypeOK, Placed, OnPlace, OnRow
  <2>2. rows' \in [Workspaces -> Row \cup {None}]
    BY <1>2, <2>1 DEF Insert, TypeOK
  <2>3. call' \in [Calls -> Request] /\ \A d \in Calls : Placed(call'[d])
    BY <1>2, GoesTyped, EndsTyped DEF Insert, OnPlace, OnRow
  <2> QED BY <1>2, <2>2, <2>3 DEF Insert, TypeOK, Seen
<1>3. CASE Update(c)
  <2>1. call[c].workspace \in Workspaces /\ call[c].row \in Row /\ rows[call[c].workspace] \in Row
    BY <1>3 DEF Update, TypeOK, Placed, OnPlace, OnRow, HasRow
  <2>2. [rows[call[c].workspace] EXCEPT !.name = call[c].row.name] \in Row
    BY <2>1 DEF Row
  <2>3. rows' \in [Workspaces -> Row \cup {None}]
    BY <1>3, <2>1, <2>2 DEF Update, TypeOK
  <2>4. call' \in [Calls -> Request] /\ \A d \in Calls : Placed(call'[d])
    BY <1>3, GoesTyped DEF Update, OnPlace, OnRow
  <2> QED BY <1>3, <2>3, <2>4 DEF Update, TypeOK, Seen
<1>4. CASE ReadRegistry(c)
  <2> DEFINE r == [call[c] EXCEPT !.pc = "union", !.ids = registry]
  <2>1. call[c] \in Request /\ Placed(call[c]) /\ call[c].workspace \in Workspaces
    BY <1>4 DEF ReadRegistry, TypeOK, Placed, OnPlace
  <2>2. r \in Request
    BY <2>1 DEF Request, OnPlace, TypeOK
  <2>3. r.pc = "union" /\ r.workspace = call[c].workspace
    BY <2>1 DEF Request
  <2>4. Placed(r)
    BY <2>1, <2>3 DEF Placed, OnRow, OnLink
  <2>5. call' = [call EXCEPT ![c] = r]
    BY <1>4 DEF ReadRegistry
  <2>6. call' \in [Calls -> Request] /\ \A d \in Calls : Placed(call'[d])
    BY <2>2, <2>4, <2>5, CallTyped
  <2> QED BY <1>4, <2>6 DEF ReadRegistry, TypeOK, Stores, Seen
<1>5. CASE PutRegistry(c)
  <2>1. call[c].workspace \in Workspaces /\ call[c].ids \subseteq Workspaces
    BY <1>5 DEF PutRegistry, TypeOK, Placed, OnPlace, Request
  <2>2. call' \in [Calls -> Request] /\ \A d \in Calls : Placed(call'[d])
    BY <1>5, EndsTyped DEF PutRegistry
  <2> QED BY <1>5, <2>1, <2>2 DEF PutRegistry, TypeOK, Seen
<1> QED BY <1>1, <1>2, <1>3, <1>4, <1>5 DEF Onboarding

LEMMA EgressTyped ==
  ASSUME TypeOK, NEW c \in Calls, HasRow(c), Egress(c)
  PROVE  TypeOK'
<1>1. ASSUME NEW w \in Workspaces, Revoke(c, w) PROVE TypeOK'
  <2> DEFINE r == [Idle EXCEPT !.pc = "upsert", !.workspace = w, !.row = rows[w]]
  <2>1. rows[w] \in Row
    BY <1>1 DEF Revoke, TypeOK
  <2>2. r \in Request /\ Placed(r)
    BY <2>1 DEF Idle, Request, Placed, OnPlace, OnRow, OnLink
  <2>3. call' \in [Calls -> Request] /\ \A d \in Calls : Placed(call'[d])
    BY <1>1, <2>2, BeginsTyped DEF Revoke
  <2> QED BY <1>1, <2>3 DEF Revoke, TypeOK, Stores, Seen
<1>2. ASSUME NEW w \in Workspaces, Ask(c, w) PROVE TypeOK'
  <2> DEFINE r == [Idle EXCEPT !.pc = "retrieve", !.workspace = w, !.shut = Shut(w)]
  <2>1. Shut(w) \in BOOLEAN
    BY DEF Shut
  <2>2. r \in Request /\ Placed(r)
    BY <2>1 DEF Idle, Request, Placed, OnPlace, OnRow, OnLink
  <2>3. call' \in [Calls -> Request] /\ \A d \in Calls : Placed(call'[d])
    BY <1>2, <2>2, BeginsTyped DEF Ask
  <2> QED BY <1>2, <2>3 DEF Ask, TypeOK, Stores, Seen
<1>3. CASE WriteRevoked(c)
  <2>1. call[c].workspace \in Workspaces /\ call[c].row \in Row
    BY <1>3 DEF WriteRevoked, TypeOK, Placed, OnPlace, OnRow
  <2>2. [call[c].row EXCEPT !.ack = FALSE] \in Row
    BY <2>1 DEF Row
  <2>3. rows' \in [Workspaces -> Row \cup {None}]
    BY <1>3, <2>1, <2>2 DEF WriteRevoked, TypeOK
  <2>4. call' \in [Calls -> Request] /\ \A d \in Calls : Placed(call'[d])
    BY <1>3, GoesTyped DEF WriteRevoked, OnPlace, OnRow
  <2> QED BY <1>3, <2>3, <2>4 DEF WriteRevoked, TypeOK, Seen
<1>4. CASE AuditRevoked(c)
  <2>1. call[c].workspace \in Workspaces
    BY <1>4 DEF AuditRevoked, TypeOK, Placed, OnPlace
  <2>2. call' \in [Calls -> Request] /\ \A d \in Calls : Placed(call'[d])
    BY <1>4, EndsTyped DEF AuditRevoked
  <2> QED BY <1>4, <2>1, <2>2 DEF AuditRevoked, TypeOK
<1>5. CASE ResolvePosture(c)
  <2> DEFINE r == [call[c] EXCEPT !.pc = "veto", !.row = rows[call[c].workspace]]
  <2>1. call[c] \in Request /\ Placed(call[c]) /\ call[c].workspace \in Workspaces
    BY <1>5 DEF ResolvePosture, TypeOK, Placed, OnPlace
  <2>2. CASE rows[call[c].workspace] # None
    <3>1. rows[call[c].workspace] \in Row
      BY <2>1, <2>2 DEF TypeOK
    <3>2. r \in Request
      BY <2>1, <3>1 DEF Request, OnPlace, OnRow
    <3>3. r.pc = "veto" /\ r.workspace = call[c].workspace /\ r.row = rows[call[c].workspace]
      BY <2>1 DEF Request
    <3>4. Placed(r)
      BY <2>1, <3>1, <3>3 DEF Placed, OnRow, OnLink
    <3>5. call' = [call EXCEPT ![c] = r]
      BY <1>5, <2>2 DEF ResolvePosture
    <3> QED BY <3>2, <3>4, <3>5, <1>5, CallTyped DEF ResolvePosture, TypeOK, Stores, Seen
  <2>3. CASE rows[call[c].workspace] = None
    BY <1>5, <2>3, EndsTyped DEF ResolvePosture, TypeOK, Stores, Seen
  <2> QED BY <2>2, <2>3
<1>6. CASE Synthesize(c)
  <2>1. call[c].workspace \in Workspaces /\ call[c].shut \in BOOLEAN
    BY <1>6 DEF Synthesize, TypeOK, Placed, OnPlace, OnRow, Request
  <2>2. call' \in [Calls -> Request] /\ \A d \in Calls : Placed(call'[d])
    BY <1>6, EndsTyped DEF Synthesize
  <2>3. sent' \subseteq Sent
    BY <1>6 DEF Synthesize, Sends, Sent, TypeOK
  <2> QED BY <1>6, <2>2, <2>3 DEF Synthesize, TypeOK, Stores
<1>7. CASE Retrieve(c)
  <2>1. sent' \subseteq Sent
    BY <1>7 DEF Retrieve, Sends, Sent, TypeOK
  <2>2. call' \in [Calls -> Request] /\ \A d \in Calls : Placed(call'[d])
    BY <1>7, GoesTyped DEF Retrieve, OnPlace
  <2> QED BY <1>7, <2>1, <2>2 DEF Retrieve, TypeOK, Stores
<1> QED BY <1>1, <1>2, <1>3, <1>4, <1>5, <1>6, <1>7 DEF Egress

LEMMA LinkingTyped ==
  ASSUME TypeOK, NEW c \in Calls, DecidedLinkExists(c), Linking(c)
  PROVE  TypeOK'
<1>1. ASSUME NEW l \in Links, NEW g \in Grants, CreateLink(c, l, g) PROVE TypeOK'
  <2> DEFINE r == [Idle EXCEPT !.pc = "source", !.link = l, !.grant = g]
  <2>1. r \in Request /\ Placed(r)
    BY DEF Idle, Request, Placed, OnPlace, OnRow, OnLink
  <2>2. call' \in [Calls -> Request] /\ \A d \in Calls : Placed(call'[d])
    BY <1>1, <2>1, BeginsTyped DEF CreateLink
  <2> QED BY <1>1, <2>2 DEF CreateLink, TypeOK, Stores, Seen
<1>2. CASE CheckSource(c) \/ FindLink(c)
  <2>1. call' \in [Calls -> Request] /\ \A d \in Calls : Placed(call'[d])
    BY <1>2, GoesTyped, EndsTyped DEF CheckSource, FindLink
  <2> QED BY <1>2, <2>1 DEF CheckSource, FindLink, TypeOK, Stores, Seen
<1>3. CASE MintLink(c)
  <2>1. call[c].link \in Links /\ call[c].grant \in Grants
    BY <1>3 DEF MintLink, TypeOK, Placed, OnLink
  <2>2. links' \in [Links -> Link \cup {None}]
    BY <1>3, <2>1 DEF MintLink, TypeOK, Link, Status
  <2>3. call' \in [Calls -> Request] /\ \A d \in Calls : Placed(call'[d])
    BY <1>3, EndsTyped DEF MintLink
  <2> QED BY <1>3, <2>2, <2>3 DEF MintLink, TypeOK, Seen
<1>4. ASSUME NEW l \in Links, ApproveLink(c, l) \/ RevokeLink(c, l) PROVE TypeOK'
  <2> DEFINE r(pc) == [Idle EXCEPT !.pc = pc, !.link = l, !.seen = links[l].status]
  <2>1. links[l] \in Link
    BY <1>4 DEF ApproveLink, RevokeLink, TypeOK
  <2>2. \A pc \in {"approve", "revoke"} : r(pc) \in Request /\ Placed(r(pc))
    BY <2>1 DEF Idle, Request, Placed, OnPlace, OnRow, OnLink, Link
  <2>3. \E pc \in {"approve", "revoke"} : Begins(c, r(pc))
    BY <1>4 DEF ApproveLink, RevokeLink
  <2>4. call' \in [Calls -> Request] /\ \A d \in Calls : Placed(call'[d])
    BY <2>2, <2>3, BeginsTyped
  <2> QED BY <1>4, <2>4 DEF ApproveLink, RevokeLink, TypeOK, Stores, Seen
<1>5. CASE SetStatus(c)
  <2>1. call[c].link \in Links /\ links[call[c].link] \in Link
    BY <1>5 DEF SetStatus, TypeOK, Placed, OnLink, DecidedLinkExists
  <2>2. \A s \in Status : [links[call[c].link] EXCEPT !.status = s] \in Link
    BY <2>1 DEF Link
  <2>3. links' \in [Links -> Link \cup {None}]
    BY <1>5, <2>1, <2>2 DEF SetStatus, TypeOK, Status
  <2>4. call' \in [Calls -> Request] /\ \A d \in Calls : Placed(call'[d])
    BY <1>5, EndsTyped DEF SetStatus
  <2> QED BY <1>5, <2>3, <2>4 DEF SetStatus, TypeOK, Seen
<1> QED BY <1>1, <1>2, <1>3, <1>4, <1>5 DEF Linking

LEMMA TypeStep == IInv /\ [Next]_vars => TypeOK'
<1> SUFFICES ASSUME IInv, [Next]_vars PROVE TypeOK'
  OBVIOUS
<1> USE DEF IInv, Known
<1>1. CASE Restart
  <2>1. call' \in [Calls -> Request] /\ \A c \in Calls : Placed(call'[c])
    BY <1>1, IdleTyped DEF Restart
  <2> QED BY <1>1, <2>1 DEF Restart, TypeOK, Stores, Seen
<1>2. ASSUME NEW c \in Calls, Handles(c) PROVE TypeOK'
  <2>1. CASE Fail(c)
    BY <2>1, EndsTyped DEF Fail, TypeOK, Stores, Seen
  <2> QED BY <1>2, <2>1, OnboardingTyped, EgressTyped, LinkingTyped DEF Handles
<1>3. CASE UNCHANGED vars
  BY <1>3 DEF vars, TypeOK
<1> QED BY <1>1, <1>2, <1>3 DEF Next, Handles

-----------------------------------------------------------------------------
(* What no step undoes *)

\* Three statements write rows.
LEMMA RowsWritten ==
  ASSUME NEW c, Handles(c)
  PROVE  UNCHANGED rows \/ Insert(c) \/ Update(c) \/ WriteRevoked(c)
<1>1. CASE Onboarding(c)
  BY <1>1 DEF Onboarding, Provision, ReadRegistry, PutRegistry, Stores
<1>2. CASE Egress(c)
  BY <1>2 DEF Egress, Revoke, Ask, Retrieve, AuditRevoked, ResolvePosture, Synthesize, Stores
<1>3. CASE Linking(c) \/ Fail(c)
  BY <1>3 DEF Linking, CreateLink, CheckSource, FindLink, MintLink, ApproveLink,
              RevokeLink, SetStatus, Fail, Stores
<1> QED BY <1>1, <1>2, <1>3 DEF Handles

\* A row stays, with its type, and an acknowledgement that is off stays off: an
\* insert finds no row, an update writes no policy, a revoke writes its type back.
LEMMA RowsKept ==
  ASSUME IInv, NEW c \in Calls, Handles(c), NEW w \in Workspaces, rows[w] # None
  PROVE  /\ rows'[w] # None /\ rows'[w].type = rows[w].type
         /\ ~ rows[w].ack => ~ rows'[w].ack
<1> DEFINE v == call[c].workspace
<1> USE DEF IInv, Known
<1>1. rows \in [Workspaces -> Row \cup {None}] /\ rows[w] \in Row /\ Placed(call[c])
  BY DEF TypeOK
<1>2. CASE UNCHANGED rows
  BY <1>2
<1>3. CASE Insert(c)
  BY <1>1, <1>3 DEF Insert
<1>4. CASE Update(c)
  <2>1. CASE v # w
    BY <1>1, <1>4, <2>1 DEF Update
  <2>2. CASE v = w
    <3> DEFINE r == [rows[w] EXCEPT !.name = call[c].row.name]
    <3>1. call[c].row \in Row
      BY <1>1, <1>4 DEF Update, Placed, OnRow
    <3>2. r \in Row /\ r.type = rows[w].type /\ r.ack = rows[w].ack
      BY <1>1, <3>1 DEF Row
    <3>3. rows'[w] = r
      BY <1>1, <1>4, <2>2 DEF Update
    <3> QED BY <3>2, <3>3, NoneAssumption
  <2> QED BY <2>1, <2>2
<1>5. CASE WriteRevoked(c)
  <2>1. CASE v # w
    BY <1>1, <1>5, <2>1 DEF WriteRevoked
  <2>2. CASE v = w
    <3> DEFINE r == [call[c].row EXCEPT !.ack = FALSE]
    <3>1. call[c].row \in Row
      BY <1>1, <1>5 DEF WriteRevoked, Placed, OnRow
    <3>2. r \in Row /\ r.type = call[c].row.type /\ ~ r.ack
      BY <3>1 DEF Row
    <3>3. rows'[w] = r /\ call[c].row.type = rows[w].type
      BY <1>1, <1>5, <2>2 DEF WriteRevoked, HeldTypeIsCurrent
    <3> QED BY <3>2, <3>3, NoneAssumption
  <2> QED BY <2>1, <2>2
<1> QED BY <1>2, <1>3, <1>4, <1>5, RowsWritten

\* A link stays, with what it grants; its status changes where it is decided.
LEMMA LinksKept ==
  ASSUME IInv, NEW c \in Calls, Handles(c), NEW l \in Links, links[l] # None
  PROVE  /\ links'[l] # None /\ links'[l].grant = links[l].grant
         /\ links'[l].status # links[l].status =>
              /\ call[c].link = l
              /\ \/ call[c].pc = "approve" /\ links'[l].status = "approved"
                 \/ call[c].pc = "revoke" /\ links'[l].status = "revoked"
<1> USE DEF IInv, Known
<1>1. links \in [Links -> Link \cup {None}] /\ links[l] \in Link
  BY DEF TypeOK
<1>2. CASE UNCHANGED links
  BY <1>2
<1>3. CASE MintLink(c)
  BY <1>1, <1>3 DEF MintLink
<1>4. CASE SetStatus(c)
  <2>1. CASE call[c].link # l
    BY <1>1, <1>4, <2>1 DEF SetStatus
  <2>2. CASE call[c].link = l
    <3> DEFINE r(s) == [links[l] EXCEPT !.status = s]
    <3>1. \A s \in Status : r(s) \in Link /\ r(s).grant = links[l].grant /\ r(s).status = s
      BY <1>1 DEF Link
    <3>2. \/ call[c].pc = "approve" /\ links'[l] = r("approved")
          \/ call[c].pc = "revoke" /\ links'[l] = r("revoked")
      BY <1>1, <1>4, <2>2 DEF SetStatus
    <3> QED BY <2>2, <3>1, <3>2, NoneAssumption DEF Status
  <2> QED BY <2>1, <2>2
<1>5. UNCHANGED links \/ MintLink(c) \/ SetStatus(c)
  <2>1. CASE Onboarding(c)
    BY <2>1 DEF Onboarding, Provision, Insert, Update, ReadRegistry, PutRegistry, Stores
  <2>2. CASE Egress(c)
    BY <2>2 DEF Egress, Revoke, Ask, Retrieve, WriteRevoked, AuditRevoked, ResolvePosture, Synthesize, Stores
  <2>3. CASE Linking(c) \/ Fail(c)
    BY <2>3 DEF Linking, CreateLink, CheckSource, FindLink, ApproveLink, RevokeLink, Fail, Stores
  <2> QED BY <2>1, <2>2, <2>3 DEF Handles
<1> QED BY <1>2, <1>3, <1>4, <1>5

-----------------------------------------------------------------------------
(* Each request after a step *)

\* A request that does not move knows what it knew.
LEMMA OthersKnow ==
  ASSUME IInv, NEW c \in Calls, Handles(c), NEW d \in Calls, call'[d] = call[d]
  PROVE  Known(d)'
<1> USE DEF IInv
<1>1. Known(d) /\ call[d] \in Request /\ Placed(call[d]) /\ registry \subseteq Workspaces
  BY DEF TypeOK
<1>2. HasRow(d)' /\ HeldTypeIsCurrent(d)'
  BY <1>1, RowsKept DEF Known, HasRow, HeldTypeIsCurrent, Placed, OnPlace, OnRow
<1>3. ReadIdsHaveRows(d)'
  BY <1>1, RowsKept DEF Known, ReadIdsHaveRows, Request
<1>4. ShutIsKept(d)'
  BY <1>1, RowsKept DEF Known, ShutIsKept, Shut, Placed, OnPlace, OnRow
<1>5. DecidedLinkExists(d)'
  BY <1>1, LinksKept DEF Known, DecidedLinkExists, Placed, OnLink
<1> QED BY <1>2, <1>3, <1>4, <1>5 DEF Known

\* Only the request that moves changes.
LEMMA OneMoves ==
  ASSUME TypeOK, NEW c \in Calls, Handles(c), NEW d \in Calls, d # c
  PROVE  call'[d] = call[d]
<1> USE DEF Begins, Goes, Ends, TypeOK
<1>1. CASE Onboarding(c)
  BY <1>1 DEF Onboarding, Provision, Insert, Update, ReadRegistry, PutRegistry
<1>2. CASE Egress(c)
  BY <1>2 DEF Egress, Revoke, Ask, Retrieve, WriteRevoked, AuditRevoked, ResolvePosture, Synthesize
<1>3. CASE Linking(c) \/ Fail(c)
  BY <1>3 DEF Linking, CreateLink, CheckSource, FindLink, MintLink, ApproveLink,
              RevokeLink, SetStatus, Fail
<1> QED BY <1>1, <1>2, <1>3 DEF Handles

\* A request that ends, or waits for nothing, knows nothing.
LEMMA EndsKnow ==
  ASSUME TypeOK, NEW c \in Calls, call'[c].pc \in {"idle", "insert", "source", "find", "mint"}
  PROVE  Known(c)'
BY DEF Known, HasRow, HeldTypeIsCurrent, ReadIdsHaveRows, ShutIsKept, DecidedLinkExists

\* A request that begins is the one it was given.
LEMMA BeginsAs ==
  ASSUME call \in [Calls -> Request], NEW c \in Calls, NEW r, Begins(c, r)
  PROVE  call'[c] = r
BY DEF Begins

LEMMA MoverKnows ==
  ASSUME IInv, NEW c \in Calls, Handles(c)
  PROVE  Known(c)'
<1>0. TypeOK /\ Known(c) /\ call \in [Calls -> Request] /\ call[c] \in Request /\ Placed(call[c])
  BY DEF IInv, TypeOK
<1> USE <1>0
<1>1. ASSUME Ends(c) PROVE Known(c)'
  BY <1>1, EndsKnow DEF Ends, Idle
<1>2. ASSUME NEW w \in Workspaces, NEW t \in Types, NEW n \in Names, Provision(c, w, t, n)
      PROVE  Known(c)'
  <2>1. CASE rows[w] = None
    <3> DEFINE r == [Idle EXCEPT !.pc = "insert", !.workspace = w, !.row = Seeded(t, n)]
    <3>0. Begins(c, r)
      BY ONLY <1>2, <2>1 DEF Provision
    <3>1. call'[c].pc = "insert"
      <4>1. call'[c] = r
        BY ONLY <1>0, <3>0, BeginsAs
      <4>2. r.pc = "insert"
        BY ONLY TRUE DEF Idle
      <4> QED BY ONLY <4>1, <4>2
    <3> QED BY <3>1, EndsKnow
  <2>2. CASE rows[w] # None
    <3> DEFINE r == [Idle EXCEPT !.pc = "update", !.workspace = w, !.row = Seeded(t, n)]
    <3>0. Begins(c, r) /\ UNCHANGED rows
      BY ONLY <1>2, <2>2 DEF Provision, Stores
    <3>1. call'[c].pc = "update" /\ call'[c].workspace = w /\ UNCHANGED rows
      <4>1. call'[c] = r
        BY ONLY <1>0, <3>0, BeginsAs
      <4>2. r.pc = "update" /\ r.workspace = w
        BY ONLY TRUE DEF Idle
      <4> QED BY ONLY <3>0, <4>1, <4>2
    <3> QED BY <2>2, <3>1 DEF Known, HasRow, HeldTypeIsCurrent, ReadIdsHaveRows,
                              ShutIsKept, DecidedLinkExists
  <2> QED BY <2>1, <2>2
<1>3. ASSUME Goes(c, "register"), Insert(c) \/ Update(c) PROVE Known(c)'
  <2>1. call'[c].pc = "register" /\ call'[c].workspace = call[c].workspace
    BY <1>3 DEF Goes, Request
  <2>2. call[c].workspace \in Workspaces /\ rows'[call[c].workspace] # None
    <3>1. call[c].workspace \in Workspaces /\ call[c].row \in Row
      BY <1>3 DEF Insert, Update, Placed, OnPlace, OnRow
    <3>2. CASE rows[call[c].workspace] # None
      BY <3>1, <3>2, RowsKept
    <3>3. CASE rows[call[c].workspace] = None
      BY <1>3, <3>1, <3>3, NoneAssumption DEF Insert, Update, HasRow, Known, TypeOK
    <3> QED BY <3>1, <3>2, <3>3
  <2> QED BY <2>1, <2>2 DEF Known, HasRow, HeldTypeIsCurrent, ReadIdsHaveRows,
                            ShutIsKept, DecidedLinkExists
<1>4. ASSUME ReadRegistry(c) PROVE Known(c)'
  <2>1. /\ call'[c].pc = "union" /\ call'[c].workspace = call[c].workspace
        /\ call'[c].ids = registry /\ UNCHANGED rows
    BY <1>4 DEF ReadRegistry, Request, Stores
  <2>2. rows[call[c].workspace] # None
    BY <1>4 DEF ReadRegistry, Known, HasRow
  <2>3. \A w \in registry : rows[w] # None
    BY DEF IInv, RegisteredHasRow
  <2> QED BY <2>1, <2>2, <2>3 DEF Known, HasRow, HeldTypeIsCurrent, ReadIdsHaveRows,
                                  ShutIsKept, DecidedLinkExists
<1>5. ASSUME NEW w \in Workspaces, Revoke(c, w) PROVE Known(c)'
  <2>1. /\ call'[c].pc = "upsert" /\ call'[c].workspace = w /\ call'[c].row = rows[w]
        /\ rows[w] # None /\ UNCHANGED rows
    BY <1>5 DEF Revoke, Begins, Idle, Stores
  <2> QED BY <2>1 DEF Known, HasRow, HeldTypeIsCurrent, ReadIdsHaveRows,
                      ShutIsKept, DecidedLinkExists
<1>6. ASSUME WriteRevoked(c) PROVE Known(c)'
  <2>1. call'[c].pc = "audit" /\ call'[c].workspace = call[c].workspace
    BY <1>6 DEF WriteRevoked, Goes, Request
  <2>2. call[c].workspace \in Workspaces /\ call[c].row \in Row
    BY <1>6 DEF WriteRevoked, Placed, OnPlace, OnRow
  <2>3. [call[c].row EXCEPT !.ack = FALSE] \in Row /\ ~ [call[c].row EXCEPT !.ack = FALSE].ack
    BY <2>2 DEF Row
  <2>4. rows'[call[c].workspace] # None /\ ~ rows'[call[c].workspace].ack
    BY <1>6, <2>2, <2>3, NoneAssumption DEF WriteRevoked, TypeOK
  <2> QED BY <2>1, <2>4 DEF Known, HasRow, HeldTypeIsCurrent, ReadIdsHaveRows,
                            ShutIsKept, DecidedLinkExists
<1>7. ASSUME NEW w \in Workspaces, Ask(c, w) PROVE Known(c)'
  <2>1. /\ call'[c].pc = "retrieve" /\ call'[c].workspace = w /\ call'[c].shut = Shut(w)
        /\ UNCHANGED rows
    BY <1>7 DEF Ask, Begins, Idle, Stores
  <2>2. Shut(w)' <=> Shut(w)
    BY <2>1 DEF Shut
  <2> QED BY <2>1, <2>2 DEF Known, HasRow, HeldTypeIsCurrent, ReadIdsHaveRows,
                            ShutIsKept, DecidedLinkExists
<1>14. ASSUME Retrieve(c) PROVE Known(c)'
  <2>1. /\ call'[c].pc = "posture" /\ call'[c].workspace = call[c].workspace
        /\ call'[c].shut = call[c].shut /\ UNCHANGED rows
    BY <1>14 DEF Retrieve, Goes, Request, Stores
  <2>2. call[c].shut => Shut(call[c].workspace)
    BY <1>14 DEF Retrieve, Known, ShutIsKept
  <2> QED BY <2>1, <2>2 DEF Known, HasRow, HeldTypeIsCurrent, ReadIdsHaveRows,
                            ShutIsKept, DecidedLinkExists, Shut
<1>8. ASSUME ResolvePosture(c) PROVE Known(c)'
  <2>1. CASE rows[call[c].workspace] = None
    BY <1>1, <1>8, <2>1 DEF ResolvePosture
  <2>2. CASE rows[call[c].workspace] # None
    <3>1. /\ call'[c].pc = "veto" /\ call'[c].workspace = call[c].workspace
          /\ call'[c].row = rows[call[c].workspace] /\ call'[c].shut = call[c].shut
          /\ UNCHANGED rows
      BY <1>8, <2>2 DEF ResolvePosture, Request, Stores
    <3>2. call[c].shut => Shut(call[c].workspace)
      BY <1>8 DEF ResolvePosture, Known, ShutIsKept
    <3> QED BY <3>1, <3>2 DEF Known, HasRow, HeldTypeIsCurrent, ReadIdsHaveRows,
                              ShutIsKept, DecidedLinkExists, Shut
  <2> QED BY <2>1, <2>2
<1>9. ASSUME NEW l \in Links, ApproveLink(c, l) \/ RevokeLink(c, l) PROVE Known(c)'
  <2>1. /\ call'[c].link = l /\ links[l] # None /\ UNCHANGED links
        /\ call'[c].pc \in {"approve", "revoke"}
        /\ call'[c].pc = "approve" => call'[c].seen = "pending"
    BY <1>9 DEF ApproveLink, RevokeLink, Begins, Idle, Stores
  <2> QED BY <2>1 DEF Known, HasRow, HeldTypeIsCurrent, ReadIdsHaveRows,
                      ShutIsKept, DecidedLinkExists
<1>10. CASE Onboarding(c)
  BY <1>1, <1>2, <1>3, <1>4, <1>10 DEF Onboarding, Insert, Update, PutRegistry
<1>11. CASE Egress(c)
  BY <1>1, <1>5, <1>6, <1>7, <1>8, <1>11, <1>14 DEF Egress, AuditRevoked, Synthesize
<1>12. CASE Linking(c)
  <2>1. ASSUME NEW l \in Links, NEW g \in Grants, CreateLink(c, l, g) PROVE Known(c)'
    <3>1. call'[c].pc = "source"
      BY <2>1 DEF CreateLink, Begins, Idle
    <3> QED BY <3>1, EndsKnow
  <2>2. CASE Goes(c, "find") \/ Goes(c, "mint")
    <3>1. call'[c].pc \in {"find", "mint"}
      BY <2>2 DEF Goes, Request
    <3> QED BY <3>1, EndsKnow
  <2> QED BY <1>1, <1>9, <1>12, <2>1, <2>2 DEF Linking, CheckSource, FindLink, MintLink, SetStatus
<1>13. CASE Fail(c)
  BY <1>1, <1>13 DEF Fail
<1> QED BY <1>10, <1>11, <1>12, <1>13 DEF Handles

-----------------------------------------------------------------------------
(* The properties *)

LEMMA PropertiesStep ==
  ASSUME IInv, NEW c \in Calls, Handles(c)
  PROVE  RegisteredHasRow' /\ RevokeHolds' /\ NoPromptOnceShut'
<1>0. /\ TypeOK /\ RegisteredHasRow /\ RevokeHolds /\ NoPromptOnceShut
      /\ Known(c) /\ Placed(call[c]) /\ call[c] \in Request
  BY DEF IInv, TypeOK
<1> USE <1>0
<1>1. \/ UNCHANGED registry
      \/ /\ call[c].pc = "union" /\ registry' = call[c].ids \cup {call[c].workspace}
         /\ UNCHANGED rows
  <2>1. CASE Onboarding(c)
    BY <2>1 DEF Onboarding, Provision, Insert, Update, ReadRegistry, PutRegistry, Stores
  <2>2. CASE Egress(c)
    BY <2>2 DEF Egress, Revoke, Ask, Retrieve, WriteRevoked, AuditRevoked, ResolvePosture, Synthesize, Stores
  <2>3. CASE Linking(c) \/ Fail(c)
    BY <2>3 DEF Linking, CreateLink, CheckSource, FindLink, MintLink, ApproveLink,
                RevokeLink, SetStatus, Fail, Stores
  <2> QED BY <2>1, <2>2, <2>3 DEF Handles
<1>2. RegisteredHasRow'
  <2>1. CASE UNCHANGED registry
    BY <2>1, RowsKept DEF RegisteredHasRow, TypeOK
  <2>2. CASE ~ UNCHANGED registry
    BY <1>1, <2>2 DEF RegisteredHasRow, Known, HasRow, ReadIdsHaveRows
  <2> QED BY <2>1, <2>2
<1>3. \/ UNCHANGED told /\ audit \subseteq audit'
      \/ AuditRevoked(c)
  <2>1. CASE Onboarding(c)
    BY <2>1 DEF Onboarding, Provision, Insert, Update, ReadRegistry, PutRegistry, Stores, Seen
  <2>2. CASE Egress(c)
    BY <2>2 DEF Egress, Revoke, Ask, Retrieve, WriteRevoked, ResolvePosture, Synthesize, Stores, Seen
  <2>3. CASE Linking(c) \/ Fail(c)
    BY <2>3 DEF Linking, CreateLink, CheckSource, FindLink, MintLink, ApproveLink,
                RevokeLink, SetStatus, Fail, Stores, Seen
  <2> QED BY <2>1, <2>2, <2>3 DEF Handles
<1>4. RevokeHolds'
  <2>1. CASE UNCHANGED told /\ audit \subseteq audit'
    BY <2>1, RowsKept DEF RevokeHolds, TypeOK
  <2>2. CASE AuditRevoked(c)
    <3>1. rows[call[c].workspace] # None /\ ~ rows[call[c].workspace].ack /\ UNCHANGED rows
      BY <2>2 DEF AuditRevoked, Known, HasRow
    <3> QED BY <2>2, <3>1 DEF AuditRevoked, RevokeHolds
  <2> QED BY <1>3, <2>1, <2>2
<1>5. UNCHANGED sent \/ Retrieve(c) \/ Synthesize(c)
  <2>1. CASE Onboarding(c)
    BY <2>1 DEF Onboarding, Provision, Insert, Update, ReadRegistry, PutRegistry, Seen
  <2>2. CASE Egress(c)
    BY <2>2 DEF Egress, Revoke, Ask, Retrieve, WriteRevoked, AuditRevoked, ResolvePosture, Seen
  <2>3. CASE Linking(c) \/ Fail(c)
    BY <2>3 DEF Linking, CreateLink, CheckSource, FindLink, MintLink, ApproveLink,
                RevokeLink, SetStatus, Fail, Seen
  <2> QED BY <2>1, <2>2, <2>3 DEF Handles
<1>6. NoPromptOnceShut'
  <2>1. CASE UNCHANGED sent
    BY <2>1 DEF NoPromptOnceShut
  <2>2. CASE Synthesize(c)
    <3>1. CASE call[c].shut
      <4>1. call[c].row.type = Employer /\ ~ call[c].row.ack
        BY <2>2, <3>1 DEF Synthesize, Known, ShutIsKept
      <4>2. UNCHANGED sent
        BY <2>2, <4>1 DEF Synthesize, Clears
      <4> QED BY <4>2 DEF NoPromptOnceShut
    <3>2. CASE ~ call[c].shut
      BY <2>2, <3>2 DEF Synthesize, NoPromptOnceShut, Sends
    <3> QED BY <3>1, <3>2
  <2>3. CASE Retrieve(c)
    BY <2>3 DEF Retrieve, NoPromptOnceShut, Sends
  <2> QED BY <1>5, <2>1, <2>2, <2>3
<1> QED BY <1>2, <1>4, <1>6

LEMMA InvStep == IInv /\ [Next]_vars => IInv'
<1> SUFFICES ASSUME IInv, [Next]_vars PROVE IInv'
  OBVIOUS
<1>0. TypeOK'
  BY TypeStep
<1>1. CASE Restart
  <2>1. \A c \in Calls : call'[c].pc = "idle"
    BY <1>1 DEF Restart, Idle
  <2>2. \A c \in Calls : Known(c)'
    BY <2>1, EndsKnow DEF IInv
  <2> QED BY <1>0, <1>1, <2>2 DEF Restart, IInv, RegisteredHasRow, RevokeHolds, NoPromptOnceShut,
                                 Stores, Seen
<1>2. ASSUME NEW c \in Calls, Handles(c) PROVE IInv'
  <2>1. ASSUME NEW d \in Calls PROVE Known(d)'
    <3>1. CASE d = c
      BY <1>2, <3>1, MoverKnows
    <3>2. CASE d # c
      BY <1>2, <3>2, OneMoves, OthersKnow DEF IInv
    <3> QED BY <3>1, <3>2
  <2> QED BY <1>0, <1>2, <2>1, PropertiesStep DEF IInv
<1>3. CASE UNCHANGED vars
  BY <1>0, <1>3 DEF IInv, vars, Known, HasRow, HeldTypeIsCurrent, ReadIdsHaveRows, ShutIsKept,
                 Shut, DecidedLinkExists, RegisteredHasRow, RevokeHolds, NoPromptOnceShut
<1> QED BY <1>1, <1>2, <1>3 DEF Next, Handles

\* Every request stays well formed and every row a row: no field of the store is
\* written from a row that was not read (egressRevoke.ts, provisionWorkspace.ts).
THEOREM PostureTyped == Spec => []TypeOK
<1>1. IInv => TypeOK
  BY DEF IInv
<1> QED BY <1>1, InitInv, InvStep, PTL DEF Spec

\* A revoke the owner was told of is kept and on record, whatever races it
\* (provisionWorkspace.ts, egressRevoke.ts).
THEOREM RevokesAreKept == Spec => []RevokeHolds
<1>1. IInv => RevokeHolds
  BY DEF IInv
<1> QED BY <1>1, InitInv, InvStep, PTL DEF Spec

\* No prompt of a question asked while the door was shut reaches a model in the cloud:
\* the question itself is all that leaves (egress.ts, copilot.ts).
THEOREM ShutMeansNoPrompt == Spec => []NoPromptOnceShut
<1>1. IInv => NoPromptOnceShut
  BY DEF IInv
<1> QED BY <1>1, InitInv, InvStep, PTL DEF Spec

\* No scoped read resolves a workspace without a posture (provisionWorkspace.ts,
\* workspaceRegistry.ts).
THEOREM RegisteredHavePosture == Spec => []RegisteredHasRow
<1>1. IInv => RegisteredHasRow
  BY DEF IInv
<1> QED BY <1>1, InitInv, InvStep, PTL DEF Spec

LEMMA LinkStep ==
  ASSUME IInv, [Next]_vars, NEW l \in Links, links[l] # None
  PROVE  /\ links'[l] # None /\ links'[l].grant = links[l].grant
         /\ links[l].status = "revoked" /\ links'[l].status # "revoked" =>
              \E c \in Calls : call[c].pc = "approve" /\ call[c].link = l /\ call[c].seen = "pending"
<1>1. CASE UNCHANGED links
  BY <1>1
<1>2. ASSUME NEW c \in Calls, Handles(c)
      PROVE  /\ links'[l] # None /\ links'[l].grant = links[l].grant
             /\ links[l].status = "revoked" /\ links'[l].status # "revoked" =>
                  call[c].pc = "approve" /\ call[c].link = l /\ call[c].seen = "pending"
  BY <1>2, LinksKept DEF IInv, Known, DecidedLinkExists
<1> QED BY <1>1, <1>2 DEF Next, Handles, Restart, Stores, vars

\* Only an approval that read a link as pending brings it back from revoked, and
\* nothing changes what it grants (crossWorkspaceLink.ts).
THEOREM RevokedLinksStay == Spec => LinksStayRevoked
<1>1. IInv /\ [Next]_vars =>
        [\A l \in Links : links[l] # None =>
           /\ links'[l] # None /\ links'[l].grant = links[l].grant
           /\ links[l].status = "revoked" /\ links'[l].status # "revoked" =>
                \E c \in Calls : call[c].pc = "approve" /\ call[c].link = l /\ call[c].seen = "pending"
        ]_vars
  BY LinkStep
<1> QED BY <1>1, InitInv, InvStep, PTL DEF Spec, LinksStayRevoked

=============================================================================
