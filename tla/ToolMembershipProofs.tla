------------------------ MODULE ToolMembershipProofs ------------------------
(* What ToolMembership promises for every set of users, analyses and        *)
(* requests.  The lemmas are about the operators on the table; each theorem *)
(* then goes through the actions.                                           *)
EXTENDS ToolMembership, TLAPS

LEMMA AddRowType ==
    ASSUME NEW m \in Table, NEW t \in Tools, NEW u \in Users, NEW rs \in SUBSET Roles
    PROVE  AddRow(m, t, u, rs) \in Table
BY DEF AddRow, Table

LEMMA SetRowType ==
    ASSUME NEW m \in Table, NEW t \in Tools, NEW u \in Users, NEW rs \in SUBSET Roles
    PROVE  SetRow(m, t, u, rs) \in Table
BY DEF SetRow, Table

LEMMA SynchronizeType ==
    ASSUME NEW m \in Table, NEW a \in Tools
    PROVE  SynchronizeMembersWithParent(m, a) \in Table
BY DEF SynchronizeMembersWithParent, Table, Tools, Roles

LEMMA SetMembersType ==
    ASSUME NEW m \in Table, NEW a \in Tools, NEW o
    PROVE  SetMembersFromInventory(m, a, o) \in Table
<1>1. \A u \in Users : m[a][u] \in SUBSET Roles /\ m[Inventory][u] \in SUBSET Roles
  BY DEF Table, Tools
<1>2. {Participant} \in SUBSET Roles
  BY DEF Roles
<1> QED
  BY <1>1, <1>2 DEF SetMembersFromInventory, Table

LEMMA AfterSaveType ==
    ASSUME NEW m \in Table, NEW t \in Tools, NEW o \in Users
    PROVE  AfterSave(m, t, o) \in Table
<1>1. AddOwnerAsFacilitator(m, t, o) \in Table
  BY AddRowType DEF AddOwnerAsFacilitator, Roles
<1> QED
  BY <1>1, SynchronizeType DEF AfterSave

LEMMA SaveToolType ==
    ASSUME NEW m \in Table, NEW t \in Tools, owner[t] \in Users
    PROVE  SaveTool(m, t) \in Table
BY AfterSaveType DEF SaveTool

LEMMA MemberFromInviteType ==
    ASSUME NEW m \in Table, NEW t \in Tools, NEW v \in Users, NEW role \in InvitationRoles
    PROVE  MemberFromInvite(m, t, v, role) \in Table
<1>1. CreateFromInvite(m, t, v, role) \in Table
  BY AddRowType DEF CreateFromInvite
<1>2. PermittedRole(v, role) \in Roles => {PermittedRole(v, role)} \in SUBSET Roles
  OBVIOUS
<1> QED
  BY <1>1, <1>2, SetRowType DEF MemberFromInvite

LEMMA ExistingOwner ==
    ASSUME TypeOK, NEW t \in Tools, Exists(t)
    PROVE  owner[t] \in Users
BY DEF TypeOK, Exists

-----------------------------------------------------------------------------
(* What the save callbacks do to the members and the facilitators.          *)

LEMMA AddRowGrows ==
    ASSUME NEW m \in Table, NEW t \in Tools, NEW u \in Users, NEW rs \in SUBSET Roles
    PROVE  /\ \A x \in Tools : Members(m, x) \subseteq Members(AddRow(m, t, u, rs), x)
           /\ rs # {} => u \in Members(AddRow(m, t, u, rs), t)
BY DEF AddRow, Members, Table

LEMMA SynchronizeGrows ==
    ASSUME NEW m \in Table, NEW a \in Analyses
    PROVE  LET n == SynchronizeMembersWithParent(m, a)
           IN  /\ \A x \in Tools : Members(m, x) \subseteq Members(n, x)
               /\ Members(n, a) \subseteq Members(n, Inventory)
<1> DEFINE n == SynchronizeMembersWithParent(m, a)
<1>1. \A u \in Users : n[Inventory][u] = IF m[Inventory][u] = {} /\ m[a][u] # {}
                                        THEN {Participant} ELSE m[Inventory][u]
  BY DEF SynchronizeMembersWithParent, Table, Tools
<1>2. \A x \in Tools \ {Inventory} : n[x] = m[x]
  BY DEF SynchronizeMembersWithParent, Table
<1>3. a \in Tools \ {Inventory}
  BY ConstantsOK DEF Tools
<1> HIDE DEF n
<1>4. \A x \in Tools : Members(m, x) \subseteq Members(n, x)
  BY <1>1, <1>2 DEF Members
<1>5. Members(n, a) \subseteq Members(n, Inventory)
  BY <1>1, <1>2, <1>3 DEF Members
<1> QED
  BY <1>4, <1>5 DEF n

\* The two halves of CallbacksSettled, and that a save removes nobody.
LEMMA AfterSaveSettles ==
    ASSUME NEW m \in Table, NEW t \in Tools, NEW o \in Users
    PROVE  LET n == AfterSave(m, t, o)
           IN  /\ o \in Members(n, t)
               /\ t # Inventory => Members(n, t) \subseteq Members(n, Inventory)
               /\ \A x \in Tools : Members(m, x) \subseteq Members(n, x)
<1> DEFINE w == AddOwnerAsFacilitator(m, t, o)
<1>1. w \in Table
  BY AddRowType DEF AddOwnerAsFacilitator, Roles
<1>2. /\ \A x \in Tools : Members(m, x) \subseteq Members(w, x)
      /\ o \in Members(w, t)
  BY AddRowGrows DEF AddOwnerAsFacilitator, Roles
<1> HIDE DEF w
<1>3. CASE t = Inventory
  BY <1>2, <1>3 DEF AfterSave, w
<1>4. CASE t # Inventory
  <2>1. t \in Analyses
    BY <1>4 DEF Tools
  <2>2. AfterSave(m, t, o) = SynchronizeMembersWithParent(w, t)
    BY <1>4 DEF AfterSave, w
  <2> QED
    BY <1>1, <1>2, <2>1, <2>2, SynchronizeGrows
<1> QED
  BY <1>3, <1>4

LEMMA AddRowFacilitators ==
    ASSUME NEW m \in Table, NEW t \in Tools, NEW v \in Users, NEW rs \in SUBSET Roles,
           NEW x \in Tools, NEW u \in Users,
           Facilitator \in AddRow(m, t, v, rs)[x][u]
    PROVE  Facilitator \in m[x][u] \/ (x = t /\ u = v)
BY DEF AddRow, Table

LEMMA SynchronizeFacilitators ==
    ASSUME NEW m \in Table, NEW a \in Tools, NEW x \in Tools, NEW u \in Users,
           Facilitator \in SynchronizeMembersWithParent(m, a)[x][u]
    PROVE  Facilitator \in m[x][u]
<1>1. CASE x = Inventory
  <2>1. SynchronizeMembersWithParent(m, a)[x][u] \in {m[x][u], {Participant}}
    BY <1>1 DEF SynchronizeMembersWithParent, Table, Tools
  <2>2. Facilitator # Participant
    BY DEF Facilitator, Participant
  <2> QED
    BY <2>1, <2>2
<1>2. CASE x # Inventory
  BY <1>2 DEF SynchronizeMembersWithParent, Table
<1> QED
  BY <1>1, <1>2

\* Of the callbacks, only add_owner_as_tool_facilitator makes a facilitator.
LEMMA AfterSaveFacilitators ==
    ASSUME NEW m \in Table, NEW t \in Tools, NEW o \in Users,
           NEW x \in Tools, NEW u \in Users,
           Facilitator \in AfterSave(m, t, o)[x][u]
    PROVE  Facilitator \in m[x][u] \/ (x = t /\ u = o)
<1> DEFINE w == AddOwnerAsFacilitator(m, t, o)
<1>1. w \in Table
  BY AddRowType DEF AddOwnerAsFacilitator, Roles
<1>2. Facilitator \in w[x][u] => Facilitator \in m[x][u] \/ (x = t /\ u = o)
  BY AddRowFacilitators DEF AddOwnerAsFacilitator, Roles
<1>3. Facilitator \in w[x][u]
  BY <1>1, SynchronizeFacilitators DEF AfterSave
<1> QED
  BY <1>2, <1>3

-----------------------------------------------------------------------------
(* Type correctness, one lemma per family of handlers.                      *)

LEMMA RespondType ==
    ASSUME NEW u \in Users \cup {NoOne}, NEW status \in {"ok", "bad_request"},
           NEW jobs \in SUBSET Jobs, NEW saved \in SUBSET Tools,
           Respond(u, status, jobs, saved)
    PROVE  reply' \in Reply
BY DEF Respond, Reply

LEMMA PutMemberType ==
    ASSUME TypeOK, NEW u \in Users, NEW t \in Tools, NEW v \in Users,
           NEW rs \in SUBSET Roles, IsFacilitator(t, u), PutMember(u, t, v, rs)
    PROVE  roles' \in Table /\ reply' \in Reply
<1>1. SetRow(roles, t, v, rs) \in Table
  BY SetRowType DEF TypeOK
<1>2. owner[t] \in Users
  BY ExistingOwner DEF IsFacilitator
<1>3. roles' \in Table
  BY <1>1, <1>2, SaveToolType DEF PutMember
<1>4. reply' \in Reply
  BY RespondType DEF PutMember, Jobs, Granted, SavedTools
<1> QED
  BY <1>3, <1>4

LEMMA ToolStepType ==
    ASSUME TypeOK, NEW u \in Users, ToolStep(u)
    PROVE  TypeOK'
<1>0. roles \in Table
  BY DEF TypeOK
<1>1. CASE CreateInventory(u)
  <2>1. roles' \in Table
    BY <1>0, <1>1, AfterSaveType DEF CreateInventory, Tools
  <2>2. reply' \in Reply
    BY <1>1, RespondType DEF CreateInventory, Tools
  <2> QED
    BY <1>1, <2>1, <2>2 DEF TypeOK, CreateInventory, Tools
<1>2. ASSUME NEW a \in Analyses, CreateAnalysis(u, a)
      PROVE  TypeOK'
  <2>1. a \in Tools
    BY DEF Tools
  <2>2. roles' \in Table
    BY <1>0, <1>2, <2>1, AfterSaveType, SetMembersType DEF CreateAnalysis
  <2>3. reply' \in Reply
    BY <1>2, <2>1, RespondType DEF CreateAnalysis
  <2> QED
    BY <1>2, <2>1, <2>2, <2>3 DEF TypeOK, CreateAnalysis
<1>3. ASSUME NEW t \in Tools, NEW extend \in BOOLEAN, UpdateTool(u, t, extend)
      PROVE  TypeOK'
  <2>1. owner[t] \in Users
    BY <1>3, ExistingOwner DEF UpdateTool, IsFacilitator
  <2>2. roles' \in Table
    BY <1>0, <1>3, <2>1, AfterSaveType DEF UpdateTool
  <2>3. reply' \in Reply
    BY <1>3, RespondType DEF UpdateTool
  <2>4. expired' \in BOOLEAN
    BY <1>3 DEF UpdateTool, TypeOK
  <2> QED
    BY <1>3, <2>2, <2>3, <2>4 DEF TypeOK, UpdateTool
<1> QED
  BY <1>1, <1>2, <1>3 DEF ToolStep

LEMMA MemberStepType ==
    ASSUME TypeOK, NEW u \in Users, MemberStep(u)
    PROVE  TypeOK'
<1>1. PICK t \in Tools, v \in Users :
         \/ \E list \in RoleLists : CreateMember(u, t, v, list)
         \/ DestroyMember(u, t, v)
  BY DEF MemberStep
<1>2. ASSUME NEW list \in RoleLists, CreateMember(u, t, v, list)
      PROVE  TypeOK'
  <2>1. Range(list) \in SUBSET Roles
    BY <1>2 DEF CreateMember, RolesValid
  <2>2. roles' \in Table /\ reply' \in Reply
    BY <1>2, <2>1, PutMemberType DEF CreateMember
  <2> QED
    BY <1>2, <2>2 DEF TypeOK, CreateMember, PutMember
<1>3. CASE DestroyMember(u, t, v)
  <2>1. roles' \in Table
    BY <1>3, SetRowType DEF DestroyMember, TypeOK
  <2>2. reply' \in Reply
    BY <1>3, RespondType DEF DestroyMember
  <2> QED
    BY <1>3, <2>1, <2>2 DEF TypeOK, DestroyMember
<1> QED
  BY <1>1, <1>2, <1>3

LEMMA RangeNonEmpty ==
    ASSUME NEW list \in RoleLists, list # <<>>
    PROVE  Range(list) # {}
<1>1. list \in Seq(Roles \cup {InvalidRole})
  BY ConstantsOK
<1>2. 1 \in DOMAIN list
  BY <1>1
<1> QED
  BY <1>2 DEF Range

LEMMA RequestStepType ==
    ASSUME TypeOK, NEW u \in Users, RequestStep(u)
    PROVE  TypeOK'
<1>1. ASSUME NEW t \in Tools, NEW i \in RequestIds, NEW list \in RoleLists,
             RequestAccess(u, t, i, list)
      PROVE  TypeOK'
  <2>0. Range(list) \in SUBSET (Roles \cup {InvalidRole})
    BY ConstantsOK DEF Range
  <2>1. Range(list) \in RequestedRoles
    <3>1. Range(list) # {}
      BY <1>1, RangeNonEmpty DEF RequestAccess
    <3> QED
      BY <2>0, <3>1 DEF RequestedRoles
  <2>2. requests' \in [RequestIds -> Request \cup {NoRequest}]
    <3>1. [tool |-> t, user |-> u, roles |-> Range(list)] \in Request
      BY <2>1 DEF Request
    <3> QED
      BY <1>1, <3>1 DEF RequestAccess, TypeOK
  <2>3. reply' \in Reply
    BY <1>1, RespondType DEF RequestAccess, Jobs
  <2> QED
    BY <1>1, <2>2, <2>3 DEF TypeOK, RequestAccess
<1>2. ASSUME NEW t \in Tools, NEW i \in RequestIds, GrantRequest(u, t, i)
      PROVE  TypeOK'
  <2>1. requests[i] \in Request
    BY <1>2 DEF GrantRequest, TypeOK
  <2>2. candidate' \in [Users -> Candidate \cup {NoCandidate}]
    BY <1>2, <2>1 DEF GrantRequest, TypeOK, Request, Candidate
  <2>3. reply' \in Reply
    BY <1>2, RespondType DEF GrantRequest
  <2> QED
    BY <1>2, <2>2, <2>3 DEF TypeOK, GrantRequest
<1>3. ASSUME NEW t \in Tools, NEW i \in RequestIds, DenyRequest(u, t, i)
      PROVE  TypeOK'
  <2>1. reply' \in Reply
    BY <1>3, RespondType DEF DenyRequest
  <2> QED
    BY <1>3, <2>1 DEF TypeOK, DenyRequest
<1>4. CASE CreateCandidate(u)
  <2> DEFINE c == candidate[u]
  <2>1. c \in Candidate
    BY <1>4 DEF CreateCandidate, TypeOK
  <2>2. c.tool \in Tools /\ c.user \in Users
    BY <2>1 DEF Candidate
  <2> HIDE DEF c
  <2>3. CASE IsFacilitator(c.tool, u) /\ c.roles \cap Roles # {}
    <3>1. PutMember(u, c.tool, c.user, c.roles \cap Roles)
      BY <1>4, <2>3 DEF CreateCandidate, c
    <3>2. roles' \in Table /\ reply' \in Reply
      BY <2>2, <2>3, <3>1, PutMemberType
    <3> QED
      BY <1>4, <3>1, <3>2 DEF TypeOK, CreateCandidate, PutMember
  <2>4. CASE ~(IsFacilitator(c.tool, u) /\ c.roles \cap Roles # {})
    <3>1. Respond(u, "bad_request", {}, {})
      BY <1>4, <2>4 DEF CreateCandidate, c
    <3>2. UNCHANGED <<owner, roles, expired, requests, invitations>>
      BY <1>4, <2>4 DEF CreateCandidate, c
    <3>3. reply' \in Reply
      BY <3>1, RespondType
    <3> QED
      BY <1>4, <3>2, <3>3 DEF TypeOK, CreateCandidate
  <2> QED
    BY <2>3, <2>4
<1>5. CASE CloseBrowser(u)
  <2>1. reply' \in Reply
    BY <1>5 DEF CloseBrowser, Respond, Reply
  <2> QED
    BY <1>5, <2>1 DEF TypeOK, CloseBrowser
<1> QED
  BY <1>1, <1>2, <1>3, <1>4, <1>5 DEF RequestStep

LEMMA InviteStepType ==
    ASSUME TypeOK, NEW u \in Users, InviteStep(u)
    PROVE  TypeOK'
<1>1. ASSUME NEW t \in Tools, NEW v \in Invitable, NEW role \in InvitationRoles,
             NEW send \in BOOLEAN, Invite(u, t, v, role, send)
      PROVE  TypeOK'
  <2>1. v \in Users
    BY ConstantsOK
  <2>2. owner[t] \in Users
    BY <1>1, ExistingOwner DEF Invite, IsFacilitator
  <2>3. MemberFromInvite(roles, t, v, role) \in Table
    BY <2>1, MemberFromInviteType DEF TypeOK
  <2>4. roles' \in Table
    BY <1>1, <2>2, <2>3, AfterSaveType DEF Invite
  <2>5. InviteJobs(t, v, role, send) \in SUBSET Jobs
    BY <2>1 DEF InviteJobs, Jobs, Granted
  <2>6. reply' \in Reply
    <3> DEFINE saved == IF t # Inventory /\ send THEN {t} ELSE {}
    <3>1. saved \in SUBSET Tools
      OBVIOUS
    <3>2. Respond(u, "ok", InviteJobs(t, v, role, send), saved)
      BY <1>1 DEF Invite
    <3> QED
      BY <2>5, <3>1, <3>2, RespondType
  <2> QED
    BY <1>1, <2>1, <2>4, <2>6 DEF TypeOK, Invite
<1>2. ASSUME NEW t \in Tools, RedeemInvitation(t, u)
      PROVE  TypeOK'
  <2>1. reply' \in Reply
    BY <1>2, RespondType DEF RedeemInvitation
  <2> QED
    BY <1>2, <2>1 DEF TypeOK, RedeemInvitation
<1> QED
  BY <1>1, <1>2 DEF InviteStep

LEMMA TypeInit == Init => TypeOK
<1> SUFFICES ASSUME Init PROVE TypeOK
  OBVIOUS
<1>1. roles \in Table
  BY DEF Init, Table
<1>2. requests \in [RequestIds -> Request \cup {NoRequest}]
  BY DEF Init
<1>3. candidate \in [Users -> Candidate \cup {NoCandidate}]
  BY DEF Init
<1>4. reply \in Reply
  BY DEF Init, Reply
<1> QED
  BY <1>1, <1>2, <1>3, <1>4 DEF Init, TypeOK

LEMMA TypeStep == TypeOK /\ [Next]_vars => TypeOK'
<1> SUFFICES ASSUME TypeOK, [Next]_vars PROVE TypeOK'
  OBVIOUS
<1>1. CASE PassDeadline
  <2>1. reply' \in Reply
    BY <1>1, RespondType DEF PassDeadline
  <2> QED
    BY <1>1, <2>1 DEF TypeOK, PassDeadline
<1>2. CASE UNCHANGED vars
  BY <1>2 DEF TypeOK, vars
<1> QED
  BY <1>1, <1>2, ToolStepType, MemberStepType, RequestStepType, InviteStepType DEF Next

\* Every reachable state is well typed: the roles stored are legal ones, and
\* jobs, requests and invitations name existing tools and users.
THEOREM TypeCorrect == Spec => []TypeOK
BY TypeInit, TypeStep, PTL DEF Spec

-----------------------------------------------------------------------------
(* The three safety results.  A write to the table is one of: a row set by a *)
(* facilitator, followed or not by the callbacks; a row deleted by another   *)
(* facilitator; the copy made with a new analysis.                           *)

LEMMA SetRowMembers ==
    ASSUME NEW m \in Table, NEW t \in Tools, NEW v \in Users, NEW rs \in SUBSET Roles
    PROVE  /\ \A x \in Tools : Members(m, x) \ {v} \subseteq Members(SetRow(m, t, v, rs), x)
           /\ rs # {} => \A x \in Tools : Members(m, x) \subseteq Members(SetRow(m, t, v, rs), x)
           /\ rs # {} => v \in Members(SetRow(m, t, v, rs), t)
           /\ \A x \in Tools, u \in Users :
                 Facilitator \in SetRow(m, t, v, rs)[x][u] => Facilitator \in m[x][u] \/ x = t
BY DEF SetRow, Members, Table

LEMMA MemberFromInviteMembers ==
    ASSUME NEW m \in Table, NEW t \in Tools, NEW v \in Users, NEW role \in InvitationRoles
    PROVE  LET n == MemberFromInvite(m, t, v, role)
           IN  /\ \A x \in Tools : Members(m, x) \subseteq Members(n, x)
               /\ \A x \in Tools, u \in Users :
                     Facilitator \in n[x][u] => Facilitator \in m[x][u] \/ x = t
<1> DEFINE created   == CreateFromInvite(m, t, v, role)
           permitted == PermittedRole(v, role)
<1>1. created \in Table
  BY AddRowType DEF CreateFromInvite
<1>2. \A x \in Tools : Members(m, x) \subseteq Members(created, x)
  BY AddRowGrows DEF CreateFromInvite
<1>3. \A x \in Tools, u \in Users :
         Facilitator \in created[x][u] => Facilitator \in m[x][u] \/ x = t
  BY AddRowFacilitators DEF CreateFromInvite
<1>4. \/ MemberFromInvite(m, t, v, role) = created
      \/ /\ permitted \in Roles
         /\ MemberFromInvite(m, t, v, role) = SetRow(created, t, v, {permitted})
  BY DEF MemberFromInvite
<1> HIDE DEF created, permitted
<1>5. CASE MemberFromInvite(m, t, v, role) = created
  BY <1>2, <1>3, <1>5
<1>6. CASE /\ permitted \in Roles
           /\ MemberFromInvite(m, t, v, role) = SetRow(created, t, v, {permitted})
  <2>1. /\ \A x \in Tools : Members(created, x) \subseteq Members(SetRow(created, t, v, {permitted}), x)
        /\ \A x \in Tools, u \in Users :
              Facilitator \in SetRow(created, t, v, {permitted})[x][u]
                 => Facilitator \in created[x][u] \/ x = t
    BY <1>1, <1>6, SetRowMembers
  <2> QED
    BY <1>2, <1>3, <1>6, <2>1
<1> QED
  BY <1>4, <1>5, <1>6

\* The rows #create writes: a non-empty legal set of roles.
LEMMA PutMemberEffect ==
    ASSUME TypeOK, NEW u \in Users, NEW t \in Tools, NEW v \in Users,
           NEW rs \in SUBSET Roles, rs # {}, IsFacilitator(t, u), PutMember(u, t, v, rs)
    PROVE  /\ \A x \in Tools : Members(roles, x) \subseteq Members(roles', x)
           /\ \A x \in Tools, w \in Users :
                 Facilitator \in roles'[x][w] => Facilitator \in roles[x][w] \/ x = t
           /\ Settles
           /\ reply'.by = u
           /\ owner' = owner
<1> DEFINE m == SetRow(roles, t, v, rs)
<1>1. m \in Table
  BY SetRowType DEF TypeOK
<1>2. owner[t] \in Users
  BY ExistingOwner DEF IsFacilitator
<1>3. /\ \A x \in Tools : Members(roles, x) \subseteq Members(m, x)
      /\ \A x \in Tools, w \in Users : Facilitator \in m[x][w] => Facilitator \in roles[x][w] \/ x = t
  BY SetRowMembers DEF TypeOK
<1>4. /\ roles' = IF Saves(t) THEN AfterSave(m, t, owner[t]) ELSE m
      /\ reply'.saved = IF Saves(t) THEN {t} ELSE {}
      /\ reply'.by = u
      /\ owner' = owner
  BY DEF PutMember, SaveTool, SavedTools, Respond
<1> HIDE DEF m
<1>5. CASE Saves(t)
  <2>1. /\ owner[t] \in Members(roles', t)
        /\ t # Inventory => Members(roles', t) \subseteq Members(roles', Inventory)
        /\ \A x \in Tools : Members(m, x) \subseteq Members(roles', x)
    BY <1>1, <1>2, <1>4, <1>5, AfterSaveSettles
  <2>2. \A x \in Tools, w \in Users : Facilitator \in roles'[x][w] => Facilitator \in m[x][w] \/ x = t
    BY <1>1, <1>2, <1>4, <1>5, AfterSaveFacilitators
  <2> QED
    BY <1>3, <1>4, <1>5, <2>1, <2>2 DEF Settles
<1>6. CASE ~Saves(t)
  BY <1>3, <1>4, <1>6 DEF Settles
<1> QED
  BY <1>5, <1>6

Provenance == \A t \in Tools, u \in Users :
                 BecomesFacilitator(t, u) => EntitledFacilitator(t, u)

SafeStep == NeverOrphaned' /\ Settles /\ Provenance

\* A step by a facilitator u of t that loses no member, leaves the tools that
\* exist as they are and makes facilitators of t alone is safe once it settles.
LEMMA GrowingStep ==
    ASSUME NeverOrphaned, NEW u \in Users, NEW t \in Tools, IsFacilitator(t, u),
           \A x \in Tools : Members(roles, x) \subseteq Members(roles', x),
           \A x \in Tools, w \in Users :
              Facilitator \in roles'[x][w] => Facilitator \in roles[x][w] \/ x = t,
           Settles, reply'.by = u, owner' = owner
    PROVE  SafeStep
<1>1. NeverOrphaned'
  BY DEF NeverOrphaned, Exists
<1>2. Provenance
  BY DEF Provenance, BecomesFacilitator, EntitledFacilitator
<1> QED
  BY <1>1, <1>2 DEF SafeStep

\* A step that leaves the table alone and saves no tool is safe.
LEMMA IdleStep ==
    ASSUME NeverOrphaned, UNCHANGED <<owner, roles>>, reply'.saved = {}
    PROVE  SafeStep
<1>1. NeverOrphaned'
  BY DEF NeverOrphaned, Exists, Members
<1>2. Provenance
  BY DEF Provenance, BecomesFacilitator
<1> QED
  BY <1>1, <1>2 DEF SafeStep, Settles

LEMMA ToolStepSafe ==
    ASSUME TypeOK, NeverOrphaned, NEW u \in Users, ToolStep(u)
    PROVE  SafeStep
<1>0. roles \in Table
  BY DEF TypeOK
<1>1. CASE CreateInventory(u)
  <2>0. Inventory \in Tools
    BY DEF Tools
  <2>1. /\ u \in Members(roles', Inventory)
        /\ \A x \in Tools : Members(roles, x) \subseteq Members(roles', x)
    BY <1>0, <1>1, <2>0, AfterSaveSettles DEF CreateInventory
  <2>2. \A x \in Tools, w \in Users :
           Facilitator \in roles'[x][w] => Facilitator \in roles[x][w] \/ (x = Inventory /\ w = u)
    BY <1>0, <1>1, <2>0, AfterSaveFacilitators DEF CreateInventory
  <2>3. /\ owner'[Inventory] = u
        /\ \A x \in Tools \ {Inventory} : owner'[x] = owner[x]
        /\ reply'.saved = {Inventory}
    BY <1>1, <2>0 DEF CreateInventory, TypeOK, Respond
  <2>4. NeverOrphaned'
    BY <2>1, <2>3 DEF NeverOrphaned, Exists
  <2>5. Settles
    BY <2>1, <2>3 DEF Settles
  <2>6. Provenance
    BY <2>2, <2>3 DEF Provenance, BecomesFacilitator, EntitledFacilitator
  <2> QED
    BY <2>4, <2>5, <2>6 DEF SafeStep
<1>2. ASSUME NEW a \in Analyses, CreateAnalysis(u, a)
      PROVE  SafeStep
  <2> DEFINE m == SetMembersFromInventory(roles, a, u)
  <2>0. a \in Tools /\ a # Inventory
    BY ConstantsOK DEF Tools
  <2>1. m \in Table
    BY <1>0, <2>0, SetMembersType
  <2>2. \A x \in Tools \ {a} : m[x] = roles[x]
    BY <1>0 DEF SetMembersFromInventory, Table
  <2>3. \A w \in Users : roles[a][w] # {} => m[a][w] = roles[a][w]
    BY <1>0, <2>0 DEF SetMembersFromInventory, Table
  <2>4. \A w \in Users : Facilitator \in m[a][w]
                          => Facilitator \in roles[a][w] \/ Facilitator \in roles[Inventory][w]
    <3>1. Facilitator # Participant
      BY DEF Facilitator, Participant
    <3>2. \A w \in Users : m[a][w] \in {roles[a][w], {Participant}, roles[Inventory][w]}
      BY <1>0, <2>0 DEF SetMembersFromInventory, Table
    <3> QED
      BY <3>1, <3>2
  <2>5. roles' = AfterSave(m, a, u)
    BY <1>2 DEF CreateAnalysis
  <2> HIDE DEF m
  <2>6. /\ u \in Members(roles', a)
        /\ Members(roles', a) \subseteq Members(roles', Inventory)
        /\ \A x \in Tools : Members(m, x) \subseteq Members(roles', x)
    BY <2>0, <2>1, <2>5, AfterSaveSettles
  <2>7. \A x \in Tools : Members(roles, x) \subseteq Members(roles', x)
    BY <2>2, <2>3, <2>6 DEF Members
  <2>8. \A x \in Tools, w \in Users :
           Facilitator \in roles'[x][w] => Facilitator \in m[x][w] \/ (x = a /\ w = u)
    BY <2>0, <2>1, <2>5, AfterSaveFacilitators
  <2>9. /\ ~Exists(a)
        /\ owner'[a] = u
        /\ \A x \in Tools \ {a} : owner'[x] = owner[x]
        /\ reply'.saved = {a}
    BY <1>2, <2>0 DEF CreateAnalysis, TypeOK, Respond
  <2>10. NeverOrphaned'
    BY <2>6, <2>7, <2>9 DEF NeverOrphaned, Exists
  <2>11. Settles
    BY <2>6, <2>9 DEF Settles
  <2>12. Provenance
    BY <2>2, <2>4, <2>8, <2>9 DEF Provenance, BecomesFacilitator, EntitledFacilitator
  <2> QED
    BY <2>10, <2>11, <2>12 DEF SafeStep
<1>3. ASSUME NEW t \in Tools, NEW extend \in BOOLEAN, UpdateTool(u, t, extend)
      PROVE  SafeStep
  <2>1. owner[t] \in Users /\ IsFacilitator(t, u)
    BY <1>3, ExistingOwner DEF UpdateTool, IsFacilitator
  <2>2. /\ roles' = AfterSave(roles, t, owner[t])
        /\ reply'.saved = {t} /\ reply'.by = u /\ owner' = owner
    BY <1>3 DEF UpdateTool, Respond
  <2>3. /\ owner[t] \in Members(roles', t)
        /\ t # Inventory => Members(roles', t) \subseteq Members(roles', Inventory)
        /\ \A x \in Tools : Members(roles, x) \subseteq Members(roles', x)
    BY <1>0, <2>1, <2>2, AfterSaveSettles
  <2>4. \A x \in Tools, w \in Users :
           Facilitator \in roles'[x][w] => Facilitator \in roles[x][w] \/ x = t
    BY <1>0, <2>1, <2>2, AfterSaveFacilitators
  <2>5. Settles
    BY <2>2, <2>3 DEF Settles
  <2> QED
    BY <2>1, <2>2, <2>3, <2>4, <2>5, GrowingStep
<1> QED
  BY <1>1, <1>2, <1>3 DEF ToolStep

LEMMA MemberStepSafe ==
    ASSUME TypeOK, NeverOrphaned, NEW u \in Users, MemberStep(u)
    PROVE  SafeStep
<1>1. PICK t \in Tools, v \in Users :
         \/ \E list \in RoleLists : CreateMember(u, t, v, list)
         \/ DestroyMember(u, t, v)
  BY DEF MemberStep
<1>2. ASSUME NEW list \in RoleLists, CreateMember(u, t, v, list)
      PROVE  SafeStep
  <2>1. Range(list) \in SUBSET Roles
    BY <1>2 DEF CreateMember, RolesValid
  <2>2. Range(list) # {}
    BY <1>2, RangeNonEmpty DEF CreateMember, RolesValid
  <2>3. IsFacilitator(t, u) /\ PutMember(u, t, v, Range(list))
    BY <1>2 DEF CreateMember
  <2>4. /\ \A x \in Tools : Members(roles, x) \subseteq Members(roles', x)
        /\ \A x \in Tools, w \in Users :
              Facilitator \in roles'[x][w] => Facilitator \in roles[x][w] \/ x = t
        /\ Settles /\ reply'.by = u /\ owner' = owner
    BY <2>1, <2>2, <2>3, PutMemberEffect
  <2> QED
    BY <2>3, <2>4, GrowingStep
<1>3. CASE DestroyMember(u, t, v)
  <2>1. /\ roles' = SetRow(roles, t, v, {})
        /\ owner' = owner /\ reply'.saved = {}
    BY <1>3 DEF DestroyMember, Respond
  <2>2. u # v /\ u \in Members(roles, t)
    BY <1>3 DEF DestroyMember, IsFacilitator, Members
  <2>3. roles \in Table
    BY DEF TypeOK
  <2>4. /\ \A x \in Tools \ {t} : roles'[x] = roles[x]
        /\ \A w \in Users \ {v} : roles'[t][w] = roles[t][w]
        /\ roles'[t][v] = {}
    BY <2>1, <2>3 DEF SetRow, Table
  <2>5. NeverOrphaned'
    BY <2>1, <2>2, <2>4 DEF NeverOrphaned, Exists, Members
  <2>6. Provenance
    BY <2>4 DEF Provenance, BecomesFacilitator
  <2> QED
    BY <2>1, <2>5, <2>6 DEF SafeStep, Settles
<1> QED
  BY <1>1, <1>2, <1>3

LEMMA RequestStepSafe ==
    ASSUME TypeOK, NeverOrphaned, NEW u \in Users, RequestStep(u)
    PROVE  SafeStep
<1>1. ASSUME NEW t \in Tools, NEW i \in RequestIds, NEW list \in RoleLists,
             RequestAccess(u, t, i, list)
      PROVE  SafeStep
  BY <1>1, IdleStep DEF RequestAccess, Respond
<1>2. ASSUME NEW t \in Tools, NEW i \in RequestIds, GrantRequest(u, t, i)
      PROVE  SafeStep
  BY <1>2, IdleStep DEF GrantRequest, Respond
<1>3. ASSUME NEW t \in Tools, NEW i \in RequestIds, DenyRequest(u, t, i)
      PROVE  SafeStep
  BY <1>3, IdleStep DEF DenyRequest, Respond
<1>4. CASE CreateCandidate(u)
  <2> DEFINE c == candidate[u]
  <2>1. c \in Candidate
    BY <1>4 DEF CreateCandidate, TypeOK
  <2>2. c.tool \in Tools /\ c.user \in Users /\ c.roles # {}
    BY <2>1 DEF Candidate, RequestedRoles
  <2> HIDE DEF c
  <2>3. CASE IsFacilitator(c.tool, u) /\ c.roles \cap Roles # {}
    <3>1. PutMember(u, c.tool, c.user, c.roles \cap Roles)
      BY <1>4, <2>3 DEF CreateCandidate, c
    <3>2. /\ \A x \in Tools : Members(roles, x) \subseteq Members(roles', x)
          /\ \A x \in Tools, w \in Users :
                Facilitator \in roles'[x][w] => Facilitator \in roles[x][w] \/ x = c.tool
          /\ Settles /\ reply'.by = u /\ owner' = owner
      BY <2>2, <2>3, <3>1, PutMemberEffect
    <3> QED
      BY <2>2, <2>3, <3>2, GrowingStep
  <2>4. CASE ~(IsFacilitator(c.tool, u) /\ c.roles \cap Roles # {})
    <3>1. Respond(u, "bad_request", {}, {})
      BY <1>4, <2>4 DEF CreateCandidate, c
    <3>2. UNCHANGED <<owner, roles>>
      BY <1>4, <2>4 DEF CreateCandidate, c
    <3> QED
      BY <3>1, <3>2, IdleStep DEF Respond
  <2> QED
    BY <2>3, <2>4
<1>5. CASE CloseBrowser(u)
  BY <1>5, IdleStep DEF CloseBrowser, Respond
<1> QED
  BY <1>1, <1>2, <1>3, <1>4, <1>5 DEF RequestStep

LEMMA InviteStepSafe ==
    ASSUME TypeOK, NeverOrphaned, NEW u \in Users, InviteStep(u)
    PROVE  SafeStep
<1>1. ASSUME NEW t \in Tools, NEW v \in Invitable, NEW role \in InvitationRoles,
             NEW send \in BOOLEAN, Invite(u, t, v, role, send)
      PROVE  SafeStep
  <2> DEFINE m == MemberFromInvite(roles, t, v, role)
             saved == IF t # Inventory /\ send THEN {t} ELSE {}
  <2>1. v \in Users
    BY ConstantsOK
  <2>2. owner[t] \in Users /\ IsFacilitator(t, u)
    BY <1>1, ExistingOwner DEF Invite, IsFacilitator
  <2>3. m \in Table
    BY <2>1, MemberFromInviteType DEF TypeOK
  <2>4. /\ \A x \in Tools : Members(roles, x) \subseteq Members(m, x)
        /\ \A x \in Tools, w \in Users :
              Facilitator \in m[x][w] => Facilitator \in roles[x][w] \/ x = t
    BY <2>1, MemberFromInviteMembers DEF TypeOK
  <2>5. /\ roles' = IF saved = {} THEN m ELSE AfterSave(m, t, owner[t])
        /\ reply'.saved = saved /\ reply'.by = u /\ owner' = owner
    BY <1>1 DEF Invite, Respond
  <2> HIDE DEF m
  <2>6. CASE saved = {}
    <3>1. Settles
      BY <2>5, <2>6 DEF Settles
    <3> QED
      BY <2>2, <2>4, <2>5, <2>6, <3>1, GrowingStep
  <2>7. CASE saved # {}
    <3>1. /\ owner[t] \in Members(roles', t)
          /\ t # Inventory => Members(roles', t) \subseteq Members(roles', Inventory)
          /\ \A x \in Tools : Members(m, x) \subseteq Members(roles', x)
      BY <2>2, <2>3, <2>5, <2>7, AfterSaveSettles
    <3>2. \A x \in Tools, w \in Users :
             Facilitator \in roles'[x][w] => Facilitator \in roles[x][w] \/ x = t
      BY <2>2, <2>3, <2>4, <2>5, <2>7, AfterSaveFacilitators
    <3>3. Settles
      BY <2>5, <3>1 DEF Settles
    <3> QED
      BY <2>2, <2>4, <2>5, <3>1, <3>2, <3>3, GrowingStep
  <2> QED
    BY <2>6, <2>7
<1>2. ASSUME NEW t \in Tools, RedeemInvitation(t, u)
      PROVE  SafeStep
  BY <1>2, IdleStep DEF RedeemInvitation, Respond
<1> QED
  BY <1>1, <1>2 DEF InviteStep

LEMMA NextSafe ==
    ASSUME TypeOK, NeverOrphaned, Next
    PROVE  SafeStep
<1>1. CASE PassDeadline
  BY <1>1, IdleStep DEF PassDeadline, Respond
<1> QED
  BY <1>1, ToolStepSafe, MemberStepSafe, RequestStepSafe, InviteStepSafe DEF Next

LEMMA OrphanedStep == TypeOK /\ NeverOrphaned /\ [Next]_vars => NeverOrphaned'
<1>1. TypeOK /\ NeverOrphaned /\ Next => NeverOrphaned'
  BY NextSafe DEF SafeStep
<1>2. NeverOrphaned /\ UNCHANGED vars => NeverOrphaned'
  BY DEF NeverOrphaned, Exists, Members, vars
<1> QED
  BY <1>1, <1>2

\* A tool that exists always has a member, whatever the facilitators do to
\* each other: needs TypeOK for the rows a grant or a create writes.
THEOREM ToolsNeverOrphaned == Spec => []NeverOrphaned
<1>1. Init => NeverOrphaned
  BY DEF Init, NeverOrphaned, Exists
<1> QED
  BY <1>1, OrphanedStep, TypeCorrect, PTL DEF Spec

\* Whenever a handler saves a tool, its owner is a member afterwards and every
\* member of an analysis is a member of the inventory.
THEOREM CallbacksAlwaysSettle == Spec => CallbacksSettled
<1>1. TypeOK /\ NeverOrphaned /\ [Next]_vars => [Settles]_vars
  BY NextSafe DEF SafeStep
<1> QED
  BY <1>1, TypeCorrect, ToolsNeverOrphaned, PTL DEF Spec, CallbacksSettled

\* Every facilitator was made one by a facilitator of the same tool, by owning
\* it, or by the copy from the inventory.
THEOREM FacilitatorsHaveProvenance == Spec => FacilitatorProvenance
<1>1. TypeOK /\ NeverOrphaned /\ [Next]_vars => [Provenance]_vars
  BY NextSafe DEF SafeStep
<1>2. [][Provenance]_vars => FacilitatorProvenance
  BY PTL DEF FacilitatorProvenance, Provenance
<1> QED
  BY <1>1, <1>2, TypeCorrect, ToolsNeverOrphaned, PTL DEF Spec

-----------------------------------------------------------------------------
(* Promotions and invitations: what a request tells, and what it leaves.    *)

Announced ==
    \A t \in Tools, u \in Users :
       BecomesFacilitator(t, u) /\ Exists(t) /\ u # owner[t] =>
          \/ \E job \in reply'.jobs : job.tool = t /\ job.user = u
          \/ <<t, u>> \in invitations' \ invitations

\* The callbacks leave a row that is there as it is.
LEMMA AfterSaveKeeps ==
    ASSUME NEW m \in Table, NEW t \in Tools, NEW o \in Users,
           NEW x \in Tools, NEW u \in Users, m[x][u] # {}
    PROVE  AfterSave(m, t, o)[x][u] = m[x][u]
<1> DEFINE w == AddOwnerAsFacilitator(m, t, o)
<1>1. w \in Table /\ w[x][u] = m[x][u]
  BY AddRowType DEF AddOwnerAsFacilitator, Roles, AddRow, Table
<1> HIDE DEF w
<1>2. CASE t = Inventory
  BY <1>1, <1>2 DEF AfterSave, w
<1>3. CASE t # Inventory
  <2>1. AfterSave(m, t, o) = SynchronizeMembersWithParent(w, t)
    BY <1>3 DEF AfterSave, w
  <2>2. SynchronizeMembersWithParent(w, t)[x][u] = w[x][u]
    BY <1>1 DEF SynchronizeMembersWithParent, Table
  <2> QED BY <1>1, <2>1, <2>2
<1> QED BY <1>2, <1>3

LEMMA MemberFromInviteRow ==
    ASSUME NEW m \in Table, NEW t \in Tools, NEW v \in Users, NEW role \in InvitationRoles
    PROVE  LET n == MemberFromInvite(m, t, v, role)
               permitted == PermittedRole(v, role)
           IN  /\ permitted \in Roles => permitted \in n[t][v]
               /\ permitted \notin Roles => n = m
               /\ \A x \in Tools, u \in Users : x # t \/ u # v => n[x][u] = m[x][u]
<1> DEFINE created   == CreateFromInvite(m, t, v, role)
           permitted == PermittedRole(v, role)
           n         == MemberFromInvite(m, t, v, role)
<1>1. created \in Table
  BY AddRowType DEF CreateFromInvite
<1>2. \A x \in Tools, u \in Users : x # t \/ u # v => created[x][u] = m[x][u]
  BY DEF CreateFromInvite, AddRow, Table
<1>3. n = IF permitted \notin Roles \/ permitted \in created[t][v] THEN created
          ELSE SetRow(created, t, v, {permitted})
  BY DEF MemberFromInvite
<1>4. permitted \notin Roles => created = m
  BY DEF PermittedRole, CreateFromInvite, Roles
<1> HIDE DEF created, permitted, n
<1>5. CASE permitted \notin Roles \/ permitted \in created[t][v]
  BY <1>2, <1>3, <1>4, <1>5 DEF n, permitted
<1>6. CASE permitted \in Roles /\ permitted \notin created[t][v]
  <2>1. n[t][v] = {permitted}
    BY <1>1, <1>3, <1>6 DEF SetRow, Table
  <2>2. \A x \in Tools, u \in Users : x # t \/ u # v => n[x][u] = created[x][u]
    BY <1>1, <1>3, <1>6 DEF SetRow, Table
  <2> QED BY <1>2, <1>6, <2>1, <2>2 DEF n, permitted
<1> QED BY <1>5, <1>6

\* Whoever a create makes a facilitator gets a mail; the callbacks only make
\* the owner one.
LEMMA PutMemberTold ==
    ASSUME TypeOK, NEW u \in Users, NEW t \in Tools, NEW v \in Users,
           NEW rs \in SUBSET Roles, IsFacilitator(t, u), PutMember(u, t, v, rs)
    PROVE  Announced
<1> DEFINE m == SetRow(roles, t, v, rs)
<1>1. m \in Table
  BY SetRowType DEF TypeOK
<1>2. owner[t] \in Users
  BY ExistingOwner DEF IsFacilitator
<1>3. \A x \in Tools, w \in Users :
         Facilitator \in m[x][w] => Facilitator \in roles[x][w]
                                    \/ (x = t /\ w = v /\ Facilitator \in rs)
  BY DEF SetRow, Table, TypeOK
<1>4. /\ roles' = IF Saves(t) THEN AfterSave(m, t, owner[t]) ELSE m
      /\ reply'.jobs = IF rs \subseteq roles[t][v] THEN {} ELSE {Granted(t, v)}
      /\ invitations' = invitations
  BY DEF PutMember, SaveTool, Respond
<1> HIDE DEF m
<1>5. \A x \in Tools, w \in Users :
         Facilitator \in roles'[x][w] => Facilitator \in m[x][w] \/ (x = t /\ w = owner[t])
  BY <1>1, <1>2, <1>4, AfterSaveFacilitators
<1>6. Facilitator \in rs /\ Facilitator \notin roles[t][v] =>
         \E job \in reply'.jobs : job.tool = t /\ job.user = v
  <2>1. Granted(t, v).tool = t /\ Granted(t, v).user = v
    BY DEF Granted
  <2>2. Facilitator \in rs /\ Facilitator \notin roles[t][v] => Granted(t, v) \in reply'.jobs
    BY <1>4
  <2> QED BY <2>1, <2>2
<1>7. Announced
  BY <1>3, <1>5, <1>6 DEF Announced, BecomesFacilitator
<1> QED BY <1>7

LEMMA QuietTold ==
    ASSUME \A x \in Tools, w \in Users :
              BecomesFacilitator(x, w) => ~Exists(x) \/ w = owner[x]
    PROVE  Announced
BY DEF Announced

LEMMA ToolStepTold ==
    ASSUME TypeOK, NEW u \in Users, ToolStep(u)
    PROVE  Announced
<1>0. roles \in Table /\ Inventory \in Tools
  BY DEF TypeOK, Tools
<1>1. CASE CreateInventory(u)
  <2>1. \A x \in Tools, w \in Users :
           Facilitator \in roles'[x][w] => Facilitator \in roles[x][w] \/ x = Inventory
    BY <1>0, <1>1, AfterSaveFacilitators DEF CreateInventory
  <2> QED BY <1>1, <2>1, QuietTold DEF CreateInventory, BecomesFacilitator
<1>2. ASSUME NEW a \in Analyses, CreateAnalysis(u, a)
      PROVE  Announced
  <2> DEFINE m == SetMembersFromInventory(roles, a, u)
  <2>0. a \in Tools
    BY DEF Tools
  <2>1. m \in Table
    BY <1>0, <2>0, SetMembersType
  <2>2. \A x \in Tools \ {a} : m[x] = roles[x]
    BY <1>0 DEF SetMembersFromInventory, Table
  <2>3. roles' = AfterSave(m, a, u)
    BY <1>2 DEF CreateAnalysis
  <2> HIDE DEF m
  <2>4. \A x \in Tools, w \in Users :
           Facilitator \in roles'[x][w] => Facilitator \in m[x][w] \/ x = a
    BY <2>0, <2>1, <2>3, AfterSaveFacilitators
  <2>5. \A x \in Tools, w \in Users : BecomesFacilitator(x, w) => x = a
    BY <2>2, <2>4 DEF BecomesFacilitator
  <2> QED BY <1>2, <2>5, QuietTold DEF CreateAnalysis
<1>3. ASSUME NEW t \in Tools, NEW extend \in BOOLEAN, UpdateTool(u, t, extend)
      PROVE  Announced
  <2>1. owner[t] \in Users /\ roles' = AfterSave(roles, t, owner[t])
    BY <1>3, ExistingOwner DEF UpdateTool, IsFacilitator
  <2>2. \A x \in Tools, w \in Users :
           Facilitator \in roles'[x][w] => Facilitator \in roles[x][w] \/ (x = t /\ w = owner[t])
    BY <1>0, <2>1, AfterSaveFacilitators
  <2> QED BY <1>3, <2>2, QuietTold DEF UpdateTool, BecomesFacilitator
<1> QED
  BY <1>1, <1>2, <1>3 DEF ToolStep

LEMMA MemberStepTold ==
    ASSUME TypeOK, NEW u \in Users, MemberStep(u)
    PROVE  Announced
<1>1. PICK t \in Tools, v \in Users :
         \/ \E list \in RoleLists : CreateMember(u, t, v, list)
         \/ DestroyMember(u, t, v)
  BY DEF MemberStep
<1>2. ASSUME NEW list \in RoleLists, CreateMember(u, t, v, list)
      PROVE  Announced
  BY <1>2, PutMemberTold DEF CreateMember, RolesValid
<1>3. CASE DestroyMember(u, t, v)
  <2>1. \A x \in Tools, w \in Users : ~BecomesFacilitator(x, w)
    BY <1>3 DEF DestroyMember, SetRow, TypeOK, Table, BecomesFacilitator
  <2> QED BY <1>3, <2>1, QuietTold DEF DestroyMember
<1> QED
  BY <1>1, <1>2, <1>3

LEMMA RequestStepTold ==
    ASSUME TypeOK, NEW u \in Users, RequestStep(u)
    PROVE  Announced
<1>1. ASSUME UNCHANGED <<roles, invitations>> PROVE Announced
  BY <1>1, QuietTold DEF BecomesFacilitator
<1>2. CASE CreateCandidate(u)
  <2> DEFINE c == candidate[u]
  <2>1. c.tool \in Tools /\ c.user \in Users
    BY <1>2 DEF CreateCandidate, TypeOK, Candidate
  <2>2. CASE IsFacilitator(c.tool, u) /\ c.roles \cap Roles # {}
    <3>1. PutMember(u, c.tool, c.user, c.roles \cap Roles)
      BY <1>2, <2>2 DEF CreateCandidate
    <3> HIDE DEF c
    <3> QED BY <2>1, <2>2, <3>1, PutMemberTold
  <2>3. CASE ~(IsFacilitator(c.tool, u) /\ c.roles \cap Roles # {})
    BY <1>1, <1>2, <2>3 DEF CreateCandidate
  <2> QED BY <2>2, <2>3
<1> QED
  BY <1>1, <1>2 DEF RequestStep, RequestAccess, GrantRequest, DenyRequest, CloseBrowser

\* A row the callbacks make is the owner's.
LEMMA AfterSaveOthers ==
    ASSUME NEW m \in Table, NEW t \in Tools, NEW o \in Users,
           NEW u \in Users, u # o
    PROVE  AfterSave(m, t, o)[t][u] = m[t][u]
<1> DEFINE w == AddOwnerAsFacilitator(m, t, o)
<1>1. w \in Table /\ w[t][u] = m[t][u]
  BY AddRowType DEF AddOwnerAsFacilitator, Roles, AddRow, Table
<1> HIDE DEF w
<1>2. CASE t = Inventory
  BY <1>1, <1>2 DEF AfterSave, w
<1>3. CASE t # Inventory
  <2>1. AfterSave(m, t, o) = SynchronizeMembersWithParent(w, t)
    BY <1>3 DEF AfterSave, w
  <2>2. SynchronizeMembersWithParent(w, t)[t][u] = w[t][u]
    BY <1>1, <1>3 DEF SynchronizeMembersWithParent, Table
  <2> QED BY <1>1, <2>1, <2>2
<1> QED BY <1>2, <1>3

LEMMA InviteTold ==
    ASSUME TypeOK, NEW u \in Users, NEW t \in Tools, NEW v \in Users,
           NEW role \in InvitationRoles, NEW send \in BOOLEAN, Invite(u, t, v, role, send)
    PROVE  /\ Announced
           /\ PermittedRole(v, role) \in Roles => PermittedRole(v, role) \in roles'[t][v]
           /\ PermittedRole(v, role) \notin Roles /\ v # owner[t] => roles'[t][v] = roles[t][v]
<1> DEFINE m == MemberFromInvite(roles, t, v, role)
           permitted == PermittedRole(v, role)
<1>1. owner[t] \in Users
  BY ExistingOwner DEF Invite, IsFacilitator
<1>2. m \in Table
  BY MemberFromInviteType DEF TypeOK
<1>3. /\ permitted \in Roles => permitted \in m[t][v]
      /\ permitted \notin Roles => m = roles
      /\ \A x \in Tools, w \in Users : x # t \/ w # v => m[x][w] = roles[x][w]
  BY MemberFromInviteRow DEF TypeOK
<1>4. /\ roles' = m \/ roles' = AfterSave(m, t, owner[t])
      /\ <<t, v>> \in invitations' \ invitations
  BY DEF Invite
<1> HIDE DEF m, permitted
<1>5. \A x \in Tools, w \in Users :
         Facilitator \in roles'[x][w] => Facilitator \in m[x][w] \/ (x = t /\ w = owner[t])
  BY <1>1, <1>2, <1>4, AfterSaveFacilitators
<1>6. Announced
  BY <1>3, <1>4, <1>5 DEF Announced, BecomesFacilitator
<1>7. m[t][v] # {} => roles'[t][v] = m[t][v]
  BY <1>1, <1>2, <1>4, AfterSaveKeeps
<1>8. v # owner[t] => roles'[t][v] = m[t][v]
  BY <1>1, <1>2, <1>4, AfterSaveOthers
<1> QED BY <1>3, <1>6, <1>7, <1>8 DEF permitted

LEMMA InviteStepTold ==
    ASSUME TypeOK, NEW u \in Users, InviteStep(u)
    PROVE  Announced
<1>1. ASSUME NEW t \in Tools, NEW v \in Invitable, NEW role \in InvitationRoles,
             NEW send \in BOOLEAN, Invite(u, t, v, role, send)
      PROVE  Announced
  BY <1>1, ConstantsOK, InviteTold
<1>2. ASSUME NEW t \in Tools, RedeemInvitation(t, u)
      PROVE  Announced
  BY <1>2, QuietTold DEF RedeemInvitation, BecomesFacilitator
<1> QED
  BY <1>1, <1>2 DEF InviteStep

LEMMA NextTold == TypeOK /\ [Next]_vars => [Announced]_vars
<1>1. ASSUME TypeOK, PassDeadline PROVE Announced
  BY <1>1, QuietTold DEF PassDeadline, BecomesFacilitator
<1> QED
  BY <1>1, ToolStepTold, MemberStepTold, RequestStepTold, InviteStepTold DEF Next

\* Nobody but the owner is made a facilitator of a tool without a mail or an
\* invitation from the same request.
THEOREM PromotionsAlwaysAnnounced == Spec => PromotionAnnounced
<1>1. TypeOK /\ [Next]_vars => [Announced]_vars
  BY NextTold
<1>2. [][Announced]_vars => PromotionAnnounced
  BY PTL DEF PromotionAnnounced, Announced
<1> QED
  BY <1>1, <1>2, TypeCorrect, PTL DEF Spec

Invited ==
    \A t \in Tools, v \in Users : <<t, v>> \in invitations' \ invitations =>
       \A u \in Users, role \in InvitationRoles, send \in BOOLEAN :
          Invite(u, t, v, role, send) =>
             LET permitted == PermittedRole(v, role)
             IN  /\ permitted \in Roles => permitted \in roles'[t][v]
                 /\ permitted \notin Roles /\ v # owner[t] => roles'[t][v] = roles[t][v]

\* An invitation leaves its user with the permitted role, whatever row and roles
\* the user had before; one whose role is none leaves the row of anybody but the
\* owner as it was.
THEOREM InvitedAlwaysGetsRole == Spec => InvitedGetsRole
<1>1. TypeOK => Invited
  BY InviteTold DEF Invited
<1>2. [][Invited]_vars => InvitedGetsRole
  BY PTL DEF InvitedGetsRole, Invited
<1>3. TypeOK /\ [Next]_vars => [Invited]_vars
  BY <1>1
<1> QED
  BY <1>2, <1>3, TypeCorrect, PTL DEF Spec
=============================================================================
