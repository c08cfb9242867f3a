--------------------------- MODULE ToolMembership ---------------------------
(***************************************************************************)
(* Membership of an inventory and of the analyses made from it: the        *)
(* tool_members table, the access requests and the invitations that lead   *)
(* to a membership, and the ActiveRecord callbacks that run when a tool is *)
(* saved.  One action per controller action; each handler is atomic here   *)
(* (MembershipRace looks inside them).                                     *)
(*                                                                         *)
(* A tool_members row is the set of its roles, {} standing for "no row":   *)
(* validates_presence_of :roles keeps a stored row non-empty, and the      *)
(* uniqueness validation keeps one row per tool and user as long as the    *)
(* handlers do not overlap.  The order of the roles in the array, and a    *)
(* role stored twice by a first save, are abstracted.                      *)
(***************************************************************************)
EXTENDS Naturals, Sequences, FiniteSets, Functions

CONSTANTS
    Users,
    NetworkPartners,   \* users whose users.role is network_partner
    Inventory,         \* the inventory
    Analyses,          \* analyses that may be made from it
    Invitable,         \* users whose e-mail address somebody may invite
    RequestIds,        \* bound: access requests pending at a time
    RoleLists,         \* role arrays a client may post
    NoOne              \* not a user

Tools == {Inventory} \cup Analyses

Facilitator == "facilitator"
Participant == "participant"
Roles       == {Facilitator, Participant}
InvalidRole == "invalid"       \* any number that is not a member_role, or any
                               \* other word for a role

\* The role of an invitation is only validated for presence.
InvitationRoles == Roles \cup {InvalidRole}

ASSUME ConstantsOK ==
    /\ NetworkPartners \subseteq Users
    /\ Invitable \subseteq Users
    /\ Inventory \notin Analyses
    /\ NoOne \notin Users
    /\ RoleLists \subseteq Seq(Roles \cup {InvalidRole})

VARIABLES
    owner,        \* tool -> owner_id, NoOne while the tool does not exist
    roles,        \* tool -> user -> roles of the tool_members row
    expired,      \* the deadline of the inventory is in the past
    requests,     \* id -> access_requests row
    invitations,  \* <<tool, user>> with an inventory_/analysis_invitations row
    candidate,    \* facilitator -> member the browser is about to create
    reply         \* what the last request did: who asked, its status, the
                  \* jobs it enqueued, the tools whose save callbacks ran

vars == <<owner, roles, expired, requests, invitations, candidate, reply>>

\* validates_presence_of :roles, not of legal ones
RequestedRoles == (SUBSET (Roles \cup {InvalidRole})) \ {{}}

Request   == [tool: Tools, user: Users, roles: RequestedRoles]
NoRequest == [tool |-> NoOne]

Candidate   == [tool: Tools, user: Users, roles: RequestedRoles]
NoCandidate == [tool |-> NoOne]

Jobs == [kind: {"access_granted", "access_requested", "invitation"},
         tool: Tools, user: Users]

Reply == [by: Users \cup {NoOne}, status: {"ok", "bad_request"},
          jobs: SUBSET Jobs, saved: SUBSET Tools]

Table == [Tools -> [Users -> SUBSET Roles]]

TypeOK ==
    /\ owner \in [Tools -> Users \cup {NoOne}]
    /\ roles \in Table
    /\ expired \in BOOLEAN
    /\ requests \in [RequestIds -> Request \cup {NoRequest}]
    /\ invitations \subseteq Tools \X Users
    /\ candidate \in [Users -> Candidate \cup {NoCandidate}]
    /\ reply \in Reply

-----------------------------------------------------------------------------
(* The tool_members table, as a value m of Table.                          *)

Members(m, t) == {u \in Users : m[t][u] # {}}
Exists(t)     == owner[t] # NoOne
IsFacilitator(t, u) == Exists(t) /\ Facilitator \in roles[t][u]

\* Variant: without the check for unknown role numbers.
RolesUnchecked(list, isNew) ==
    list # <<>> /\ Len(list) <= Cardinality(Roles) /\ (isNew \/ IsInjective(list))

\* RoleValidator and validates_presence_of :roles; a role posted twice is
\* only refused when the record is already persisted.
RolesValid(list, isNew) ==
    /\ list # <<>>
    /\ Len(list) <= Cardinality(Roles)
    /\ Range(list) \subseteq Roles
    /\ isNew \/ IsInjective(list)

\* ToolMember.create: validates_uniqueness_of :user_id makes it a no-op for
\* a user who has a row, whatever its roles.
AddRow(m, t, u, rs) ==
    IF m[t][u] = {} THEN [m EXCEPT ![t][u] = rs] ELSE m

SetRow(m, t, u, rs) == [m EXCEPT ![t][u] = rs]

\* after_save :add_owner_as_tool_facilitator.  An owner who is a facilitator
\* is found; one who is a participant only is not, and the create that
\* follows fails on the uniqueness of user_id.
AddOwnerAsFacilitator(m, t, o) == AddRow(m, t, o, {Facilitator})

\* after_create :set_members_from_inventory.  Participants come first, so a
\* member with both roles is copied as a participant.
SetMembersFromInventory(m, a, o) ==
    [m EXCEPT ![a] = [u \in Users |->
        IF u = o \/ m[a][u] # {} THEN m[a][u]
        ELSE IF Participant \in m[Inventory][u] THEN {Participant}
        ELSE m[Inventory][u]]]

\* Variant: the synchronisation copies the roles of the analysis.
SynchronizeRolesWithParent(m, a) ==
    [m EXCEPT ![Inventory] = [u \in Users |->
        IF m[Inventory][u] = {} THEN m[a][u] ELSE m[Inventory][u]]]

\* after_save :synchronize_members_with_parent.
SynchronizeMembersWithParent(m, a) ==
    [m EXCEPT ![Inventory] = [u \in Users |->
        IF m[Inventory][u] = {} /\ m[a][u] # {}
        THEN {Participant} ELSE m[Inventory][u]]]

\* An inventory whose deadline has passed does not validate: save answers
\* false, which ToolMembersController#create ignores, and no callback runs.
Saves(t) == t # Inventory \/ ~expired

\* Variant: the synchronisation runs before the owner is added.
AfterSaveSyncFirst(m, t, o) ==
    AddOwnerAsFacilitator(
        IF t = Inventory THEN m ELSE SynchronizeMembersWithParent(m, t), t, o)

\* The after_save callbacks, in the order the model declares them.
AfterSave(m, t, o) ==
    LET withOwner == AddOwnerAsFacilitator(m, t, o)
    IN  IF t = Inventory THEN withOwner
        ELSE SynchronizeMembersWithParent(withOwner, t)

SaveTool(m, t) == IF Saves(t) THEN AfterSave(m, t, owner[t]) ELSE m
SavedTools(t)  == IF Saves(t) THEN {t} ELSE {}

Respond(u, status, jobs, saved) ==
    reply' = [by |-> u, status |-> status, jobs |-> jobs, saved |-> saved]

Granted(t, u) == [kind |-> "access_granted", tool |-> t, user |-> u]

-----------------------------------------------------------------------------
Init ==
    /\ owner = [t \in Tools |-> NoOne]
    /\ roles = [t \in Tools |-> [u \in Users |-> {}]]
    /\ expired = FALSE
    /\ requests = [i \in RequestIds |-> NoRequest]
    /\ invitations = {}
    /\ candidate = [u \in Users |-> NoCandidate]
    /\ reply = [by |-> NoOne, status |-> "ok", jobs |-> {}, saved |-> {}]

\* InventoriesController#create: anybody may; the deadline is in the future.
CreateInventory(u) ==
    /\ ~Exists(Inventory)
    /\ owner' = [owner EXCEPT ![Inventory] = u]
    /\ roles' = AfterSave(roles, Inventory, u)
    /\ Respond(u, "ok", {}, {Inventory})
    /\ UNCHANGED <<expired, requests, invitations, candidate>>

\* AnalysesController#create: anybody may, a member of the inventory or not.
CreateAnalysis(u, a) ==
    /\ Exists(Inventory) /\ ~Exists(a)
    /\ owner' = [owner EXCEPT ![a] = u]
    /\ roles' = AfterSave(SetMembersFromInventory(roles, a, u), a, u)
    /\ Respond(u, "ok", {}, {a})
    /\ UNCHANGED <<expired, requests, invitations, candidate>>

\* InventoriesController#update and AnalysesController#update.  extend: the
\* request carries a new deadline, which is in the future.
UpdateTool(u, t, extend) ==
    /\ IsFacilitator(t, u)
    /\ Saves(t) \/ extend
    /\ expired' = IF t = Inventory /\ extend THEN FALSE ELSE expired
    /\ roles' = AfterSave(roles, t, owner[t])
    /\ Respond(u, "ok", {}, {t})
    /\ UNCHANGED <<owner, requests, invitations, candidate>>

PassDeadline ==
    /\ Exists(Inventory) /\ ~expired
    /\ expired' = TRUE
    /\ Respond(NoOne, "ok", {}, {})
    /\ UNCHANGED <<owner, roles, requests, invitations, candidate>>

-----------------------------------------------------------------------------
(* ToolMembersController                                                   *)

\* Variant: the previous roles are read after the assignment, so nobody is told.
PutMemberUnannounced(u, t, v, rs) ==
    /\ roles' = SaveTool(SetRow(roles, t, v, rs), t)
    /\ Respond(u, "ok", {}, SavedTools(t))
    /\ UNCHANGED <<owner, expired, requests, invitations>>

\* The part of #create after validation: rs replaces the roles of v, every
\* role v did not have is announced, and the tool is saved.
PutMember(u, t, v, rs) ==
    /\ roles' = SaveTool(SetRow(roles, t, v, rs), t)
    /\ Respond(u, "ok",
               IF rs \subseteq roles[t][v] THEN {} ELSE {Granted(t, v)},
               SavedTools(t))
    /\ UNCHANGED <<owner, expired, requests, invitations>>

CreateMember(u, t, v, list) ==
    /\ IsFacilitator(t, u)
    /\ RolesValid(list, roles[t][v] = {})
    /\ PutMember(u, t, v, Range(list))
    /\ UNCHANGED candidate

\* Variant: a facilitator who is not the owner may remove the own row.
DestroyMemberOrSelf(u, t, v) ==
    /\ IsFacilitator(t, u)
    /\ roles[t][v] # {}
    /\ ~(v = owner[t] /\ Facilitator \in roles[t][v])
    /\ roles' = SetRow(roles, t, v, {})
    /\ Respond(u, "ok", {}, {})
    /\ UNCHANGED <<owner, expired, requests, invitations, candidate>>

DestroyMember(u, t, v) ==
    /\ IsFacilitator(t, u)
    /\ roles[t][v] # {}
    /\ ~(v = owner[t] /\ Facilitator \in roles[t][v])
    /\ ~(v = u /\ Facilitator \in roles[t][v])
    /\ roles' = SetRow(roles, t, v, {})
    /\ Respond(u, "ok", {}, {})
    /\ UNCHANGED <<owner, expired, requests, invitations, candidate>>

\* The row is created before it is validated, and stays when the answer is
\* bad_request.
RequestAccess(u, t, i, list) ==
    LET accepted == /\ Range(list) \subseteq Roles
                    /\ IsInjective(list)
                    /\ ~(Range(list) \subseteq roles[t][u])
    IN  /\ Exists(t) /\ requests[i] = NoRequest /\ list # <<>>
        /\ requests' = [requests EXCEPT ![i] =
                            [tool |-> t, user |-> u, roles |-> Range(list)]]
        /\ IF accepted
           THEN Respond(u, "ok", {[kind |-> "access_requested", tool |-> t, user |-> u]}, {})
           ELSE Respond(u, "bad_request", {}, {})
        /\ UNCHANGED <<owner, roles, expired, invitations, candidate>>

\* #grant destroys the request and answers with the member to create; the
\* browser of the facilitator posts it (CreateCandidate) or never does
\* (CloseBrowser).  The request is looked up by id alone.
GrantRequest(u, t, i) ==
    /\ IsFacilitator(t, u)
    /\ requests[i] # NoRequest
    /\ candidate[u] = NoCandidate
    /\ requests' = [requests EXCEPT ![i] = NoRequest]
    /\ candidate' = [candidate EXCEPT ![u] =
          [tool |-> t, user |-> requests[i].user, roles |-> requests[i].roles]]
    /\ Respond(u, "ok", {}, {})
    /\ UNCHANGED <<owner, roles, expired, invitations>>

DenyRequest(u, t, i) ==
    /\ IsFacilitator(t, u)
    /\ requests[i] # NoRequest
    /\ requests' = [requests EXCEPT ![i] = NoRequest]
    /\ Respond(u, "ok", {}, {})
    /\ UNCHANGED <<owner, roles, expired, invitations, candidate>>

\* Variant: the second call of the browser is not authorised again.
CreateCandidateUnauthorised(u) ==
    LET c == candidate[u]
    IN  /\ c # NoCandidate
        /\ candidate' = [candidate EXCEPT ![u] = NoCandidate]
        /\ IF c.roles \cap Roles # {}
           THEN PutMember(u, c.tool, c.user, c.roles \cap Roles)
           ELSE /\ Respond(u, "bad_request", {}, {})
                /\ UNCHANGED <<owner, roles, expired, requests, invitations>>

\* AccessRequestCtrl: createParticipant(newMember.user, newMember.user.roles),
\* for the tool of the page.  A role that is none is nil in the request and null
\* in the candidate, and Rails drops nulls from the posted array: the others are
\* granted.  A create that is refused, or fails for want of roles, changes nothing.
CreateCandidate(u) ==
    LET c == candidate[u]
    IN  /\ c # NoCandidate
        /\ candidate' = [candidate EXCEPT ![u] = NoCandidate]
        /\ IF IsFacilitator(c.tool, u) /\ c.roles \cap Roles # {}
           THEN PutMember(u, c.tool, c.user, c.roles \cap Roles)
           ELSE /\ Respond(u, "bad_request", {}, {})
                /\ UNCHANGED <<owner, roles, expired, requests, invitations>>

CloseBrowser(u) ==
    /\ candidate[u] # NoCandidate
    /\ candidate' = [candidate EXCEPT ![u] = NoCandidate]
    /\ Respond(NoOne, "ok", {}, {})
    /\ UNCHANGED <<owner, roles, expired, requests, invitations>>

-----------------------------------------------------------------------------
(* Invitations                                                             *)

\* MemberFromInvite#create_member: a word that is no role becomes nil, which
\* RoleValidator refuses.
CreateFromInvite(m, t, v, role) ==
    IF role \in Roles THEN AddRow(m, t, v, {role}) ELSE m

\* #set_permission makes a network partner a facilitator whatever was asked for.
PermittedRole(v, role) == IF v \in NetworkPartners THEN Facilitator ELSE role

\* Variant: without set_permission.
MemberWithoutPermission(m, t, v, role) == CreateFromInvite(m, t, v, role)

\* MemberFromInvite#create_member followed by #set_permission, whose
\* set_and_notify_role returns when the role is none, and else replaces the
\* roles of a member who lacks it.
MemberFromInvite(m, t, v, role) ==
    LET created   == CreateFromInvite(m, t, v, role)
        permitted == PermittedRole(v, role)
    IN  IF permitted \notin Roles \/ permitted \in created[t][v] THEN created
        ELSE SetRow(created, t, v, {permitted})

\* set_and_notify_role says nothing to a member who has the role already,
\* nor to one who becomes a participant.
InviteJobs(t, v, role, send) ==
    LET created  == CreateFromInvite(roles, t, v, role)[t][v]
        promoted == PermittedRole(v, role) = Facilitator /\ Facilitator \notin created
    IN  (IF promoted THEN {Granted(t, v)} ELSE {}) \cup
        (IF send THEN {[kind |-> "invitation", tool |-> t, user |-> v]} ELSE {})

\* InventoryInvitationsController#create and AnalysisInvitationsController
\* #create.  Only an analysis is saved afterwards, and only with send_invite.
\* The invitation is stored whatever becomes of the member.
Invite(u, t, v, role, send) ==
    LET invited == MemberFromInvite(roles, t, v, role)
        saved   == IF t # Inventory /\ send THEN {t} ELSE {}
    IN  /\ IsFacilitator(t, u)
        /\ <<t, v>> \notin invitations
        /\ invitations' = invitations \cup {<<t, v>>}
        /\ roles' = IF saved = {} THEN invited ELSE AfterSave(invited, t, owner[t])
        /\ Respond(u, "ok", InviteJobs(t, v, role, send), saved)
        /\ UNCHANGED <<owner, expired, requests, candidate>>

\* InvitationsController#redeem destroys the invitation it found.
RedeemInvitation(t, v) ==
    /\ <<t, v>> \in invitations
    /\ invitations' = invitations \ {<<t, v>>}
    /\ Respond(v, "ok", {}, {})
    /\ UNCHANGED <<owner, roles, expired, requests, candidate>>

-----------------------------------------------------------------------------
ToolStep(u) ==
    \/ CreateInventory(u)
    \/ \E a \in Analyses : CreateAnalysis(u, a)
    \/ \E t \in Tools, extend \in BOOLEAN : UpdateTool(u, t, extend)

MemberStep(u) ==
    \E t \in Tools, v \in Users :
        \/ \E list \in RoleLists : CreateMember(u, t, v, list)
        \/ DestroyMember(u, t, v)

RequestStep(u) ==
    \/ \E t \in Tools, i \in RequestIds :
        \/ \E list \in RoleLists : RequestAccess(u, t, i, list)
        \/ GrantRequest(u, t, i)
        \/ DenyRequest(u, t, i)
    \/ CreateCandidate(u)
    \/ CloseBrowser(u)

InviteStep(u) ==
    \E t \in Tools :
        \/ \E v \in Invitable, role \in InvitationRoles, send \in BOOLEAN : Invite(u, t, v, role, send)
        \/ RedeemInvitation(t, u)

Next ==
    \/ PassDeadline
    \/ \E u \in Users : ToolStep(u) \/ MemberStep(u) \/ RequestStep(u) \/ InviteStep(u)

Spec == Init /\ [][Next]_vars

-----------------------------------------------------------------------------
(* Safety                                                                  *)

\* A tool that exists has a member.  #destroy lets a facilitator remove any
\* row but the own one, and no other handler deletes a row; nothing in the
\* code counts the members that are left.
NeverOrphaned == \A t \in Tools : Exists(t) => Members(roles, t) # {}

\* When the save of a tool returns, its callbacks have settled the table: the
\* owner has a row, and every member of an analysis has one in the inventory.
\* add_owner_as_tool_facilitator runs before synchronize_members_with_parent,
\* so an owner from outside the inventory is carried over as well.
Settles ==
    \A t \in reply'.saved :
        /\ owner'[t] \in Members(roles', t)
        /\ t # Inventory => Members(roles', t) \subseteq Members(roles', Inventory)

CallbacksSettled == [][Settles]_vars

BecomesFacilitator(t, u) ==
    Facilitator \notin roles[t][u] /\ Facilitator \in roles'[t][u]

\* Where a facilitator comes from, over every path that writes roles (create,
\* grant, invitation, copy, callbacks): from a facilitator of the same tool,
\* by owning it, or, when an analysis is made, by being one of its inventory.
\* The synchronisation from an analysis never makes one in the inventory.
EntitledFacilitator(t, u) ==
    \/ IsFacilitator(t, reply'.by)
    \/ u = owner'[t]
    \/ ~Exists(t) /\ Facilitator \in roles[Inventory][u]

FacilitatorProvenance ==
    [][\A t \in Tools, u \in Users :
          BecomesFacilitator(t, u) => EntitledFacilitator(t, u)]_vars

\* Nobody is made a facilitator of an existing tool silently: the same
\* request enqueues a mail to the user or stores an invitation.  The owner,
\* whom a callback restores, is the exception.
PromotionAnnounced ==
    [][\A t \in Tools, u \in Users :
          BecomesFacilitator(t, u) /\ Exists(t) /\ u # owner[t] =>
             \/ \E job \in reply'.jobs : job.tool = t /\ job.user = u
             \/ <<t, u>> \in invitations' \ invitations]_vars

\* What becomes of the user of a stored invitation, whatever row there was:
\* create_member finds no row with other roles and fails on the uniqueness of
\* user_id, and set_permission makes up for it.  A network partner ends as a
\* facilitator even if the invitation names no role there is, anybody else with
\* the role it names, if that is one of the two; if not, the invitation is stored
\* and its user's row is as before (an owner without one gets it back by the save).
InvitedGetsRole ==
    [][\A t \in Tools, v \in Users : <<t, v>> \in invitations' \ invitations =>
          \A u \in Users, role \in InvitationRoles, send \in BOOLEAN :
              Invite(u, t, v, role, send) =>
                 LET permitted == PermittedRole(v, role)
                 IN  /\ permitted \in Roles => permitted \in roles'[t][v]
                     /\ permitted \notin Roles /\ v # owner[t] => roles'[t][v] = roles[t][v]]_vars
=============================================================================
