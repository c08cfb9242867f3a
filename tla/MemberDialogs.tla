---------------------------- MODULE MemberDialogs ----------------------------
(***************************************************************************)
(* The member lists of the browser and the dialogs over them: who takes    *)
(* part in a tool is shown on its page, added, invited, removed, granted   *)
(* access, and given other roles.  The pages of an assessment use the      *)
(* dialogs of permissions/, those of inventories and analyses the dialogs  *)
(* of tool_members/, which post one request for each member of a list.     *)
(*                                                                         *)
(* One browser; another facilitator and the people who ask for access act  *)
(* on the server meanwhile.  What the server refuses to the browser's own  *)
(* user and to the owner is the subject of ToolMembership.                 *)
(***************************************************************************)
EXTENDS Naturals, FiniteSets

CONSTANTS
    Assessments, Others,   \* tools; Others: inventories and analyses
    Users,                 \* the people of the lists
    Initial,               \* those who are participants at first
    NetworkPartners,       \* those whose own role is network partner
    OtherRoles,            \* roles the other facilitator gives, {} to remove
    MaxActs,               \* bound: clicks that send something
    MaxForeign,            \* bound: changes made by others
    MaxFaults,             \* bound: requests, or answers, that are lost
    MaxNet,                \* bound: requests under way when the user goes on
    None

Tools == Assessments \cup Others
Roles == {"facilitator", "participant"}

ASSUME ConstantsOK ==
    /\ Initial \subseteq Users /\ NetworkPartners \subseteq Users /\ OtherRoles \subseteq SUBSET Roles
    /\ MaxActs \in Nat /\ MaxForeign \in Nat
    /\ MaxFaults \in Nat /\ MaxNet \in Nat
    /\ None \notin Tools /\ None \notin Users /\ None \notin {"add", "invite", "manage"}
    /\ Assessments \cap Others = {}

VARIABLES
    members,     \* tool -> user -> row (roles {}: no row), the server's
    asked,       \* tool -> user -> roles asked for, {}: no access request
    page,        \* the tool on screen and the list it shows
    dialog,      \* the dialog over it and the list it was opened with
    net,         \* requests sent and not yet answered
    acts, foreign, faults,
    behind,      \* history: the page could not know of the last change
    promised,    \* history: grants served whose member is still to be made
    lost,        \* history: grants served whose answer was lost
    welcome,     \* history: tool -> users somebody chose for it
    moved        \* history: a page was left while a grant was under way

vars == <<members, asked, page, dialog, net, acts, foreign, faults,
          behind, promised, lost, welcome, moved>>

Row  == [roles : SUBSET Roles, id : Nat]
List == [Users -> Row]

NoRow     == [roles |-> {}, id |-> 0]
EmptyList == [u \in Users |-> NoRow]
NoDialog  == [kind |-> None, list |-> EmptyList, ticked |-> {}]
NoPage    == [tool |-> None, shown |-> EmptyList]

\* ToolMembersController#show, and the participants of an assessment.
Participants(t) ==
    [u \in Users |-> IF "participant" \in members[t][u].roles THEN members[t][u] ELSE NoRow]

---------------------------------------------------------------------------
(* Requests.  A batch has one number, which tells it from the others.      *)

Req(kind, t) == [kind |-> kind, tool |-> t, user |-> None, row |-> NoRow, list |-> EmptyList,
                 ticked |-> {}, live |-> TRUE, status |-> "sent", n |-> 0]

About(kind, t, u, row) == [Req(kind, t) EXCEPT !.user = u, !.row = row]

Fresh(N) == CHOOSE n \in 1..(Cardinality(N) + 1) : \A r \in N : r.n # n

Sending(N, S) == N \cup {[r EXCEPT !.n = Fresh(N)] : r \in S}

\* Nobody hears the answers of these any more: such a load is forgotten.
Deaf(N, kinds) ==
    LET Loads == {"list", "dialog"} IN
    {IF r.kind \in kinds THEN [r EXCEPT !.live = FALSE] ELSE r :
       r \in {q \in N : q.kind \notin kinds \cap Loads}}

DialogKinds == {"dialog", "add", "invite", "levels", "deny", "grant"}

Writes(t) == {r \in net : r.tool = t /\ r.kind \notin {"list", "dialog"}}

Patient == Cardinality(net) <= MaxNet

Act == Patient /\ acts < MaxActs /\ acts' = acts + 1

\* Mutant: the answer of an earlier load is shown, too, however late.
ReloadShared(N, t) == Sending(N, {Req("list", t)})

\* loadParticipants puts an empty array in place of the list, which its answer
\* fills; the lists of an assessment are replaced whenever an answer comes.
Reload(N, t) ==
    Sending(IF t \in Others THEN Deaf(N, {"list"}) ELSE N, {Req("list", t)})

Emptied(p) == IF p.tool \in Others THEN [p EXCEPT !.shown = EmptyList] ELSE p

Refresh(N) ==
    /\ net' = IF page.tool = None THEN N ELSE Reload(N, page.tool)
    /\ page' = Emptied(page)

\* Two loads of an assessment's list may be answered in either order.
Crossing == page.tool \in Assessments /\ \E r \in net : r.kind = "list"

---------------------------------------------------------------------------
(* Pages and dialogs.                                                      *)

\* Mutant: the lists asked for on the page left are still waited for.
VisitWaiting(t) ==
    /\ Patient /\ dialog = NoDialog /\ page.tool # t
    /\ page' = [tool |-> t, shown |-> EmptyList]
    /\ net' = Sending(Deaf(net, DialogKinds \cup {"remove"}), {Req("list", t)})
    /\ behind' = (Writes(t) # {})
    /\ moved' = (moved \/ \E r \in net : r.kind = "grant")
    /\ UNCHANGED <<members, asked, dialog, acts, foreign, faults, promised, lost, welcome>>

Visit(t) ==
    /\ Patient /\ dialog = NoDialog /\ page.tool # t
    /\ page' = [tool |-> t, shown |-> EmptyList]
    /\ net' = Sending(Deaf(net, DialogKinds \cup {"list", "remove"}), {Req("list", t)})
    /\ behind' = (Writes(t) # {})
    /\ moved' = (moved \/ \E r \in net : r.kind = "grant")
    /\ UNCHANGED <<members, asked, dialog, acts, foreign, faults, promised, lost, welcome>>

GoIndex ==
    /\ Patient /\ dialog = NoDialog /\ page.tool # None
    /\ page' = NoPage
    /\ net' = Deaf(net, DialogKinds \cup {"list", "remove"})
    /\ moved' = (moved \/ \E r \in net : r.kind = "grant")
    /\ UNCHANGED <<members, asked, dialog, acts, foreign, faults, behind, promised, lost, welcome>>

OpenAdd ==
    /\ Patient /\ dialog = NoDialog /\ page.tool # None
    /\ dialog' = [NoDialog EXCEPT !.kind = "add"]
    /\ UNCHANGED <<members, asked, page, net, acts, foreign, faults, behind, promised, lost, welcome, moved>>

OpenInvite ==
    /\ Patient /\ dialog = NoDialog /\ page.tool # None
    /\ dialog' = [NoDialog EXCEPT !.kind = "invite"]
    /\ UNCHANGED <<members, asked, page, net, acts, foreign, faults, behind, promised, lost, welcome, moved>>

\* The list is loaded once, with the roles to tick.
OpenManage ==
    /\ Patient /\ dialog = NoDialog /\ page.tool # None
    /\ dialog' = [NoDialog EXCEPT !.kind = "manage"]
    /\ net' = Sending(Deaf(net, {"dialog"}), {Req("dialog", page.tool)})
    /\ UNCHANGED <<members, asked, page, acts, foreign, faults, behind, promised, lost, welcome, moved>>

CloseDialog ==
    /\ dialog # NoDialog
    /\ dialog' = NoDialog
    /\ net' = Deaf(net, DialogKinds)
    /\ UNCHANGED <<members, asked, page, acts, foreign, faults, behind, promised, lost, welcome, moved>>

Tick(u, roles) ==
    /\ dialog.kind = "manage"
    /\ dialog.list[u].roles \notin {{}, roles} /\ u \notin dialog.ticked
    /\ page.tool \in Assessments =>    \* a select with the two levels
          /\ u \notin NetworkPartners
          /\ roles = IF "facilitator" \in dialog.list[u].roles
                     THEN {"participant"} ELSE {"facilitator", "participant"}
    /\ dialog' = [dialog EXCEPT !.list[u].roles = roles, !.ticked = @ \cup {u}]
    /\ UNCHANGED <<members, asked, page, net, acts, foreign, faults, behind, promised, lost, welcome, moved>>

---------------------------------------------------------------------------
(* Clicks that write.                                                      *)

Write(S) == Act /\ net' = Sending(net, S)

AddUser(u) ==
    /\ dialog.kind = "add"
    /\ page.tool \in Assessments => u \notin NetworkPartners    \* they are not offered
    /\ Write({About("add", page.tool, u, [roles |-> {"participant"}, id |-> 0])})
    /\ welcome' = [welcome EXCEPT ![page.tool] = @ \cup {u}]
    /\ UNCHANGED <<members, asked, page, dialog, foreign, faults, behind, promised, lost, moved>>

SendInvitation(u, role) ==
    /\ dialog.kind = "invite"
    /\ Write({About("invite", page.tool, u, [roles |-> {role}, id |-> 0])})
    /\ welcome' = [welcome EXCEPT ![page.tool] = @ \cup {u}]
    /\ UNCHANGED <<members, asked, page, dialog, foreign, faults, behind, promised, lost, moved>>

RemoveUser(u) ==
    /\ dialog = NoDialog /\ page.shown[u].roles # {}
    /\ Write({About("remove", page.tool, u, page.shown[u])})
    /\ UNCHANGED <<members, asked, page, dialog, foreign, faults, behind, promised, lost, welcome, moved>>

\* Mutant: somebody who is both is posted as a facilitator only.
FirstRole(row) ==
    IF "facilitator" \in row.roles THEN {"facilitator"} ELSE row.roles

DetermineRoles(row) == row.roles

\* Every member of the list is posted, or removed if nothing is ticked for them,
\* ticked or not; the page loads its list at once, before any of it is answered.
SaveMembers ==
    /\ dialog.kind = "manage" /\ page.tool \in Others
    /\ dialog.list # EmptyList
    /\ Act
    /\ LET saved == {u \in Users : dialog.list[u].id # 0}
           post(u) == [About(IF dialog.list[u].roles = {} THEN "remove" ELSE "save", page.tool, u,
                             [dialog.list[u] EXCEPT !.roles = DetermineRoles(dialog.list[u])])
                       EXCEPT !.list = dialog.list, !.ticked = dialog.ticked, !.live = FALSE]
       IN  Refresh(Sending(Deaf(net, DialogKinds), {post(u) : u \in saved}))
    /\ dialog' = NoDialog /\ behind' = TRUE
    /\ UNCHANGED <<members, asked, foreign, faults, promised, lost, welcome, moved>>

\* One request with the level of everybody; the dialog waits for it.
SaveLevels ==
    /\ dialog.kind = "manage" /\ page.tool \in Assessments
    /\ dialog.list # EmptyList
    /\ Write({[Req("levels", page.tool) EXCEPT !.list = dialog.list, !.ticked = dialog.ticked]})
    /\ UNCHANGED <<members, asked, page, dialog, foreign, faults, behind, promised, lost, welcome, moved>>

DenyRequest(u) ==
    /\ dialog.kind = "manage" /\ asked[page.tool][u] # {}
    /\ Write({About("deny", page.tool, u, NoRow)})
    /\ UNCHANGED <<members, asked, page, dialog, foreign, faults, behind, promised, lost, welcome, moved>>

GrantRequest(u) ==
    /\ dialog.kind = "manage" /\ asked[page.tool][u] # {}
    /\ Write({About("grant", page.tool, u, NoRow)})
    /\ welcome' = [welcome EXCEPT ![page.tool] = @ \cup {u}]
    /\ UNCHANGED <<members, asked, page, dialog, foreign, faults, behind, promised, lost, moved>>

---------------------------------------------------------------------------
(* Answers.                                                                *)

Take(r, kinds) == r.kind \in kinds /\ r.status = "ok"

Loaded(r) ==
    /\ Take(r, {"list"})
    /\ net' = net \ {r}
    /\ page' = [page EXCEPT !.shown = r.list]
    /\ UNCHANGED <<members, asked, dialog, acts, foreign, faults, behind, promised, lost, welcome, moved>>

DialogLoaded(r) ==
    /\ Take(r, {"dialog"})
    /\ net' = net \ {r}
    /\ dialog' = [dialog EXCEPT !.list = r.list, !.ticked = {}]
    /\ UNCHANGED <<members, asked, page, acts, foreign, faults, behind, promised, lost, welcome, moved>>

\* tool_members/ tells the root scope, permissions/ the scope of the dialog,
\* which hears nothing once it is closed.
Told(r) == r.tool \in Others \/ r.live

Added(r) ==
    /\ Take(r, {"add", "invite"})
    /\ LET closing == r.live \/ (r.kind = "invite" /\ dialog.kind = "invite")
           rest == net \ {r}
       IN  IF Told(r)
           THEN /\ Refresh(IF closing THEN Deaf(rest, DialogKinds) ELSE rest)
                /\ behind' = (behind \/ Crossing)
                /\ dialog' = IF closing THEN NoDialog ELSE dialog
           ELSE /\ net' = rest
                /\ behind' = (behind \/ r.tool = page.tool)
                /\ UNCHANGED <<page, dialog>>
    /\ UNCHANGED <<members, asked, acts, foreign, faults, promised, lost, welcome, moved>>

Removed(r) ==
    /\ Take(r, {"remove"})
    /\ Refresh(net \ {r})
    /\ behind' = (behind \/ Crossing)
    /\ UNCHANGED <<members, asked, dialog, acts, foreign, faults, promised, lost, welcome, moved>>

\* The dialog closes, or its lists are loaded again and what was ticked is
\* forgotten.
LevelsSaved(r) ==
    /\ Take(r, {"levels", "deny", "grant"}) /\ r.tool \in Assessments
    /\ LET rest == Deaf(net \ {r}, DialogKinds)
           again == Sending(Deaf(net \ {r}, {"dialog"}), {Req("dialog", page.tool)})
       IN  IF r.live
           THEN /\ Refresh(IF r.kind = "levels" THEN rest ELSE again)
                /\ dialog' = IF r.kind = "levels" THEN NoDialog
                             ELSE [dialog EXCEPT !.list = EmptyList, !.ticked = {}]
                /\ behind' = (behind \/ Crossing)
           ELSE /\ net' = net \ {r}
                /\ behind' = (behind \/ r.tool = page.tool)
                /\ UNCHANGED <<page, dialog>>
    /\ UNCHANGED <<members, asked, acts, foreign, faults, promised, lost, welcome, moved>>

\* createParticipant takes its tool from the service and the address bar.  The
\* assign page of an assessment tells the service that it is about an
\* assessment; on its other pages the service still speaks of the kind it was
\* last told, of whichever tool has the same id.
Targets ==
    CASE page.tool = None           -> {None}
      [] page.tool \in Others      -> {page.tool}
      [] page.tool \in Assessments -> Others \cup {page.tool, None}

\* Mutant: the member is made while the dialog is open only.
GrantedWhenOpen(r) ==
    /\ Take(r, {"grant"}) /\ r.tool \in Others
    /\ \E t \in Targets :
         net' = IF t # None /\ r.live
                THEN Sending(net \ {r}, {About("make", t, r.user, r.row)})
                ELSE net \ {r}
    /\ behind' = TRUE
    /\ UNCHANGED <<members, asked, page, dialog, acts, foreign, faults, promised, lost, welcome, moved>>

\* A granted request is answered with the roles to make the member with.
Granted(r) ==
    /\ Take(r, {"grant"}) /\ r.tool \in Others
    /\ \E t \in Targets :
         net' = IF t # None
                THEN Sending(net \ {r}, {About("make", t, r.user, r.row)})
                ELSE net \ {r}
    /\ behind' = TRUE
    /\ UNCHANGED <<members, asked, page, dialog, acts, foreign, faults, promised, lost, welcome, moved>>

---------------------------------------------------------------------------
(* The server, and the others.                                             *)

Born(t, old, roles) ==
    IF t \in Assessments THEN "participant" \in roles \ old.roles ELSE old.roles = {} /\ roles # {}

Changed(t, old, roles) ==
    [roles |-> roles, id |-> IF Born(t, old, roles) THEN old.id + 1 ELSE old.id]

\* A network partner is a facilitator, whatever level was posted.
Level(u, old, row) ==
    IF u \in NetworkPartners \/ "facilitator" \in row.roles THEN old.roles \cup {"facilitator"}
    ELSE old.roles \ {"facilitator"}

\* And so is one who is invited.  The role is given beside being a participant
\* of an assessment, and in place of another role elsewhere.
Invited(r, old) ==
    LET role == IF r.user \in NetworkPartners THEN {"facilitator"} ELSE r.row.roles IN
    CASE r.tool \in Assessments -> old.roles \cup role \cup {"participant"}
      [] r.tool \in Others /\ role \subseteq old.roles -> old.roles
      [] OTHER -> role

\* Mutant: denying a request of an assessment grants it.
GrantsOrDenies(r, u) == r.kind \in {"grant", "deny"} /\ r.user = u /\ r.tool \in Assessments

Grants(r, u) == r.kind = "grant" /\ r.user = u /\ r.tool \in Assessments

\* What a request makes of somebody's roles.  The second call of a grant makes a
\* row for an assessment, too, which none of its pages reads.
NewRoles(r, u) ==
    LET old == members[r.tool][u] IN
    CASE r.kind \in {"add", "save", "make"} /\ r.user = u /\ r.tool \in Others -> r.row.roles
      [] r.kind = "add" /\ r.user = u /\ r.tool \in Assessments -> old.roles \cup r.row.roles
      [] r.kind = "invite" /\ r.user = u -> Invited(r, old)
      [] r.kind = "remove" /\ r.user = u ->
           IF r.tool \in Assessments THEN old.roles \ {"participant"} ELSE {}
      [] r.kind = "levels" /\ r.list[u].roles # {} -> Level(u, old, r.list[u])
      [] Grants(r, u) -> old.roles \cup asked[r.tool][u]
      [] OTHER -> old.roles

Refuses(r) ==
    \/ /\ r.kind = "add" /\ r.tool \in Assessments
       /\ "participant" \in members[r.tool][r.user].roles
    \/ /\ r.kind = "remove"
       /\ \/ members[r.tool][r.user].id # r.row.id
          \/ members[r.tool][r.user].roles = {}
    \/ r.kind \in {"deny", "grant"} /\ asked[r.tool][r.user] = {}

Effect(r) ==
    /\ members' = [members EXCEPT ![r.tool] =
                      [u \in Users |-> Changed(r.tool, @[u], NewRoles(r, u))]]
    /\ asked' = IF r.kind \in {"deny", "grant"} THEN [asked EXCEPT ![r.tool][r.user] = {}] ELSE asked
    /\ promised' = CASE r.kind = "grant" /\ r.tool \in Others -> promised \cup {<<r.tool, r.user>>}
                     [] r.kind = "make" -> promised \ {<<r.tool, r.user>>}
                     [] OTHER -> promised

Answer(r) ==
    [r EXCEPT !.status = "ok",
              !.list = CASE r.kind = "list" -> Participants(r.tool)
                         [] r.kind = "dialog" -> members[r.tool]
                         [] OTHER -> EmptyList,
              !.row.roles = IF r.kind = "grant" THEN asked[r.tool][r.user] ELSE @]

\* Nobody waits for these, or their answers are only logged.
Unheard(r) ==
    \/ r.kind \in {"save", "make"}
    \/ r.kind = "deny" /\ r.tool \in Others
    \/ r.kind = "remove" /\ ~r.live

Serve(r) ==
    /\ r.status = "sent" /\ ~Refuses(r)
    /\ Effect(r)
    /\ net' = (net \ {r}) \cup {q \in {Answer(r)} : ~Unheard(r)}
    /\ UNCHANGED <<page, dialog, acts, foreign, faults, behind, lost, welcome, moved>>

\* A request that is refused, or lost on its way, changes nothing.  One whose
\* answer is lost, or whose handler raises after it stored the change, has had
\* its effect.  The dialogs list the error, log it, or miss it.
Unserved(r) ==
    /\ promised' = IF r.kind = "make" THEN promised \ {<<r.tool, r.user>>} ELSE promised
    /\ behind' = (behind \/ r.kind = "list")
    /\ UNCHANGED <<members, asked, lost>>

Unanswered(r) ==
    /\ r.kind \notin {"list", "dialog"}
    /\ Effect(r)
    /\ behind' = (behind \/ r.tool = page.tool)
    /\ lost' = IF r.kind = "grant" /\ r.tool \in Others THEN lost \cup {<<r.tool, r.user>>} ELSE lost

Fail(r) ==
    /\ r.status = "sent"
    /\ \/ Refuses(r) /\ Unserved(r) /\ faults' = faults
       \/ ~Refuses(r) /\ faults < MaxFaults /\ faults' = faults + 1 /\ (Unserved(r) \/ Unanswered(r))
    /\ net' = net \ {r}
    /\ UNCHANGED <<page, dialog, acts, foreign, welcome, moved>>

Foreign == foreign < MaxForeign /\ foreign' = foreign + 1

AskAccess(t, u, role) ==
    /\ Foreign
    /\ asked[t][u] = {} /\ role \notin members[t][u].roles
    /\ asked' = [asked EXCEPT ![t][u] = {role}]
    /\ UNCHANGED <<members, page, dialog, net, acts, faults, behind, promised, lost, welcome, moved>>

OtherFacilitator(t, u, roles) ==
    /\ Foreign
    /\ roles # members[t][u].roles
    /\ members' = [members EXCEPT ![t][u] = Changed(t, @, roles)]
    /\ welcome' = [welcome EXCEPT ![t] = @ \cup {u}]
    /\ behind' = (behind \/ t = page.tool)
    /\ UNCHANGED <<asked, page, dialog, net, acts, faults, promised, lost, moved>>

---------------------------------------------------------------------------

Init ==
    /\ members = [t \in Tools |-> [u \in Users |->
                    IF u \in Initial THEN [roles |-> {"participant"}, id |-> 1] ELSE NoRow]]
    /\ asked = [t \in Tools |-> [u \in Users |-> {}]]
    /\ page = NoPage /\ dialog = NoDialog /\ net = {}
    /\ acts = 0 /\ foreign = 0 /\ faults = 0
    /\ behind = FALSE /\ promised = {} /\ lost = {} /\ moved = FALSE
    /\ welcome = [t \in Tools |-> Initial]

Next ==
    \/ \E t \in Tools : Visit(t)
    \/ GoIndex \/ OpenAdd \/ OpenInvite \/ OpenManage \/ CloseDialog \/ SaveMembers \/ SaveLevels
    \/ \E u \in Users : AddUser(u) \/ RemoveUser(u) \/ DenyRequest(u) \/ GrantRequest(u)
    \/ \E u \in Users, role \in Roles : SendInvitation(u, role)
    \/ \E u \in Users, roles \in SUBSET Roles : Tick(u, roles)
    \/ \E r \in net : \/ Loaded(r) \/ DialogLoaded(r) \/ Added(r) \/ Removed(r)
                       \/ LevelsSaved(r) \/ Granted(r) \/ Serve(r) \/ Fail(r)
    \/ \E t \in Tools, u \in Users, role \in Roles : AskAccess(t, u, role)
    \/ \E t \in Tools, u \in Users, roles \in OtherRoles : OtherFacilitator(t, u, roles)

Spec == Init /\ [][Next]_vars

---------------------------------------------------------------------------
(* Properties.                                                             *)

\* Every variable has its type; requests concern tools, and a list that is
\* still waited for was asked for on the page on screen.
TypeOK ==
    /\ members \in [Tools -> List]
    /\ asked \in [Tools -> [Users -> SUBSET Roles]]
    /\ page.tool \in Tools \cup {None} /\ page.shown \in List
    /\ dialog.list \in List /\ dialog.ticked \subseteq Users
    /\ dialog.kind \in {None, "add", "invite", "manage"}
    /\ \A r \in net : /\ r.tool \in Tools /\ r.list \in List /\ r.row \in Row
                     /\ r.kind \in {"list", "dialog"} => r.tool = page.tool
    /\ promised \cup lost \subseteq Others \X Users
    /\ welcome \in [Tools -> SUBSET Users]

\* When nothing is under way the page shows the participants the server has,
\* whatever order its loads were answered in, unless the page could not know:
\* somebody else changed them, a load failed, a change was stored and its answer
\* lost, the permissions were saved or granted (nothing loads the list after
\* those), or two loads of an assessment crossed.
ListShowsOwnChanges ==
    page.tool # None /\ net = {} /\ ~behind =>
        \A u \in Users : page.shown[u].roles = Participants(page.tool)[u].roles

\* Saving the permissions posts everybody of the list, and changes nobody who
\* was not ticked and whose row is still the one that was loaded, except that
\* every save makes the network partners of an assessment facilitators.
OnlyTickedChange ==
    [][\A r \in net \ net' :
         r.kind \in {"save", "levels"} /\ r.status = "sent" =>
           \A u \in Users \ r.ticked :
             r.list[u] = members[r.tool][u] =>
               \/ members'[r.tool][u] = members[r.tool][u]
               \/ /\ r.kind = "levels" /\ u \in NetworkPartners
                  /\ members'[r.tool][u].roles = members[r.tool][u].roles \cup {"facilitator"}]_vars

\* A request that the server granted is not forgotten between the two calls of
\* the browser: the member is made, or the second call fails.  Two things break
\* it, for the request is gone once it is granted: the page is left in between,
\* or the answer of the first call is lost, and nobody is made a member.
GrantArrives ==
    ~moved => \A p \in promised \ lost :
        \E r \in net : r.kind \in {"grant", "make"} /\ <<r.tool, r.user>> = p

\* Nobody is a member of a tool who was not chosen for that tool, unless a
\* page was left between the two calls of a grant.
MembersWereChosen ==
    ~moved => \A t \in Tools, u \in Users : members[t][u].roles # {} => u \in welcome[t]
=============================================================================
