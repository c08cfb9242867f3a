------------------------------ MODULE ToolSetup ------------------------------
(***************************************************************************)
(* The browser pages of a facilitator who sets a tool up: the dialogs that *)
(* create an assessment, an inventory or an analysis, the assign page that *)
(* edits it and invites its participants, and the dialog of the dashboard  *)
(* that moves its deadline.                                                *)
(*                                                                         *)
(* The controllers of an assign page share one CreateService for the whole *)
(* application.  It keeps the district to save with and the scope to tell  *)
(* of the outcome, both those of the page that set them last; an answer    *)
(* that comes late therefore speaks to the page then on screen.            *)
(***************************************************************************)
EXTENDS Naturals, FiniteSets

CONSTANTS
    Assessments, Inventories, Analyses,
    Districts,
    MyDistricts,     \* the user's
    FirstDistrict,   \* the first of them
    Dates,           \* deadlines, by the day
    Made,            \* assessments and inventories that other people may have made
    Elsewhere,       \* in one of these districts
    MaxActs,         \* bound: clicks that send something to the server
    MaxFaults,       \* bound: requests that fail
    None

Tools == Assessments \cup Inventories \cup Analyses

ASSUME ConstantsOK ==
    /\ None \notin Tools
    /\ Analyses \cap (Assessments \cup Inventories) = {}
    /\ MyDistricts \subseteq Districts /\ FirstDistrict \in MyDistricts
    /\ Dates # {}
    /\ Made \subseteq Assessments \cup Inventories
    /\ Elsewhere \subseteq Districts
    /\ MaxActs \in Nat /\ MaxFaults \in Nat
    /\ None \notin Districts /\ None \notin Dates
    /\ None \notin {"create", "schedule"}

VARIABLES
    tools,       \* tool -> its row: exists, district, inventory, deadline, assigned
    service,     \* CreateService.district
    page,        \* the page on screen and what its form holds
    dialog,      \* the dialog on it: None, "create" or "schedule", for a tool
    net,         \* requests sent and not yet answered
    acts, faults,
    offered,     \* history: districts a page of the tool was loaded with or had selected
    dated,       \* history: deadlines a tool has had
    confirmed,   \* history: tools whose sending the user confirmed
    mixed        \* history: saves overlapped, or one outlived its page

vars == <<tools, service, page, dialog, net, acts, faults, offered, dated, confirmed, mixed>>

\* An analysis has an inventory and no district of its own.
Row  == [exists: BOOLEAN, district: Districts \cup {None}, inventory: Inventories \cup {None},
         deadline: Dates \cup {None}, assigned: BOOLEAN]
Page == [at: {"index", "assign", "dashboard"}, tool: Tools \cup {None},
         district: Districts \cup {None},    \* the dashboard's tool
         deadline: Dates \cup {None},
         assign: BOOLEAN,                    \* the model's assign attribute
         saving: BOOLEAN, alerts: SUBSET Tools]

Index == [at |-> "index", tool |-> None, district |-> None, deadline |-> None,
          assign |-> FALSE, saving |-> FALSE, alerts |-> {}]
NoDialog == [kind |-> None, tool |-> None]

Saving(t) == {r \in net : r.kind = "save" /\ r.tool = t}

Send(kind, t, body) ==
    net' = net \cup {[kind |-> kind, tool |-> t, body |-> body, status |-> "sent",
                      n |-> CHOOSE n \in 1..(Cardinality(net) + 1) : \A r \in net : r.n # n]}

Act == acts < MaxActs /\ acts' = acts + 1

---------------------------------------------------------------------------
(* Pages.  Opening an assign page loads the tool, selects its district and *)
(* points the service at the page.                                         *)

\* Analysis delegates its district to the inventory.
DistrictOf(t) ==
    IF t \in Analyses THEN tools[tools[t].inventory].district ELSE tools[t].district

\* A tool in a district that is not the user's is shown in the user's first.
extractCurrentDistrict(d) == IF d \in MyDistricts THEN d ELSE FirstDistrict

AssignPage(t) == [Index EXCEPT !.at = "assign", !.tool = t]

\* Mutant: the page leaves the district of the service alone.
ShowAssignUnwatched(t) ==
    /\ page' = AssignPage(t)
    /\ service' = IF service = None THEN extractCurrentDistrict(DistrictOf(t)) ELSE service
    /\ offered' = [offered EXCEPT ![t] =
                      @ \cup {tools[t].district, extractCurrentDistrict(DistrictOf(t))}]
    /\ mixed' = \E r \in net : r.kind = "save"

ShowAssign(t) ==
    /\ page' = AssignPage(t)
    /\ service' = extractCurrentDistrict(DistrictOf(t))
    /\ offered' = [offered EXCEPT ![t] = @ \cup {tools[t].district, service'}]
    /\ mixed' = \E r \in net : r.kind = "save"

OpenAssign(t) ==
    /\ dialog = NoDialog
    /\ tools[t].exists
    /\ page.at = "index"
    /\ ShowAssign(t)
    /\ UNCHANGED <<tools, dialog, net, acts, faults, dated, confirmed>>

OpenDashboard(t) ==
    /\ dialog = NoDialog
    /\ tools[t].exists
    /\ page.at = "index"
    /\ page' = [Index EXCEPT !.at = "dashboard", !.tool = t,
                             !.district = tools[t].district, !.deadline = tools[t].deadline]
    /\ offered' = [offered EXCEPT ![t] = @ \cup {tools[t].district}]
    /\ UNCHANGED <<tools, service, dialog, net, acts, faults, dated, confirmed, mixed>>

GoIndex ==
    /\ dialog = NoDialog
    /\ page # Index
    /\ page' = Index
    /\ UNCHANGED <<tools, service, dialog, net, acts, faults, offered, dated, confirmed, mixed>>

---------------------------------------------------------------------------
(* Creating.  A refusal is listed in the dialog; success closes it, if it  *)
(* is still open, and opens the assign page, wherever the user is by then. *)
(* Every click creates a tool of its own, a second click a second tool.    *)

OpenCreate(t) ==
    /\ dialog = NoDialog
    /\ page.at = "index"
    /\ dialog' = [kind |-> "create", tool |-> t]
    /\ UNCHANGED <<tools, service, page, net, acts, faults, offered, dated, confirmed, mixed>>

New(t) == ~tools[t].exists /\ ~\E r \in net : r.tool = t

Create(t, body) ==
    /\ Act
    /\ New(t)
    /\ Send("create", t, body)
    /\ UNCHANGED <<tools, service, page, dialog, faults, offered, dated, confirmed, mixed>>

CreateAssessment(t, d, date) ==
    /\ dialog.kind = "create" /\ dialog.tool \in Assessments
    /\ t \in Assessments
    /\ Create(t, [district |-> d, inventory |-> None, deadline |-> date])

CreateInventory(t, d, date) ==
    /\ dialog.kind = "create" /\ dialog.tool \in Inventories
    /\ t \in Inventories
    /\ Create(t, [district |-> d, inventory |-> None, deadline |-> date])

CreateAnalysis(t, i, date) ==
    /\ dialog.kind = "create" /\ dialog.tool \in Analyses
    /\ t \in Analyses /\ tools[i].exists
    /\ Create(t, [district |-> None, inventory |-> i, deadline |-> date])

Created(r) ==
    /\ r.kind = "create" /\ r.status # "sent"
    /\ net' = net \ {r}
    /\ IF r.status = "ok"
       THEN ShowAssign(r.tool) /\ dialog' = NoDialog
       ELSE UNCHANGED <<service, page, dialog, offered, mixed>>
    /\ UNCHANGED <<tools, acts, faults, dated, confirmed>>

CloseDialog ==
    /\ dialog # NoDialog
    /\ dialog' = NoDialog
    /\ UNCHANGED <<tools, service, page, net, acts, faults, offered, dated, confirmed, mixed>>

---------------------------------------------------------------------------
(* Editing and saving on the assign page.                                  *)

OnAssign == dialog = NoDialog /\ page.at = "assign"

\* CreateService.save...: assign sticks to the model, and whatever is saved, the
\* date of the form goes along.  What the form holds, the district selected and
\* the date, loaded with the page or picked since, is chosen at the click.  (A
\* save without a name and a sending without a message or without confirmation
\* are refused in the form and change nothing.)
Save(assign, leaves, district, date) ==
    /\ Send("save", page.tool,
            [district |-> district, deadline |-> date,
             assign |-> page.assign \/ assign, leaves |-> leaves])
    /\ page' = [page EXCEPT !.saving = ~@, !.assign = @ \/ assign]
    /\ mixed' = (mixed \/ \E r \in net : r.kind = "save")

\* Mutant: the assign attribute is set by every save.
UpdateAssigning(d, date) ==
    /\ Act /\ OnAssign
    /\ service' = IF page.tool \in Analyses THEN service ELSE d
    /\ offered' = [offered EXCEPT ![page.tool] = @ \cup {service'}]
    /\ Save(TRUE, FALSE, service', date)
    /\ UNCHANGED <<tools, dialog, faults, dated, confirmed>>

\* ToolDetailsCtrl.save saves with the selected district; the select of an analysis
\* is disabled.
Update(d, date) ==
    /\ Act /\ OnAssign
    /\ service' = IF page.tool \in Analyses THEN service ELSE d
    /\ offered' = [offered EXCEPT ![page.tool] = @ \cup {service'}]
    /\ Save(FALSE, FALSE, service', date)
    /\ UNCHANGED <<tools, dialog, faults, dated, confirmed>>

\* InviteMessageCtrl.save saves with whatever district the service has.
SaveMessage(date) ==
    /\ Act /\ OnAssign
    /\ Save(FALSE, FALSE, service, date)
    /\ UNCHANGED <<tools, service, dialog, faults, offered, dated, confirmed>>

AssignAndSave(date) ==
    /\ Act /\ OnAssign
    /\ Save(TRUE, TRUE, service, date)
    /\ confirmed' = confirmed \cup {page.tool}
    /\ UNCHANGED <<tools, service, dialog, faults, offered, dated>>

\* Mutant: a failed save leaves the spinner on.
SavedOnlyOnSuccess(r) ==
    /\ r.kind = "save" /\ r.status # "sent"
    /\ net' = net \ {r}
    /\ page' = IF r.body.leaves THEN Index
               ELSE IF page.at = "assign" /\ r.status = "ok"
               THEN [page EXCEPT !.saving = ~@, !.alerts = @ \cup {r.tool}]
               ELSE page
    /\ dialog' = IF r.body.leaves /\ dialog.kind = "schedule" THEN NoDialog ELSE dialog
    /\ UNCHANGED <<tools, service, acts, faults, offered, dated, confirmed, mixed>>

\* The event goes to the page whose scope the service has.  A failed save is
\* handled before the sending is continued: the page is left all the same.
Saved(r) ==
    /\ r.kind = "save" /\ r.status # "sent"
    /\ net' = net \ {r}
    /\ page' = IF r.body.leaves THEN Index
               ELSE IF page.at = "assign"
               THEN [page EXCEPT !.saving = ~@, !.alerts = @ \cup {r.tool}]
               ELSE page
    /\ dialog' = IF r.body.leaves /\ dialog.kind = "schedule" THEN NoDialog ELSE dialog
    /\ UNCHANGED <<tools, service, acts, faults, offered, dated, confirmed, mixed>>

---------------------------------------------------------------------------
(* Moving the deadline on the dashboard.  The dialog of an assessment      *)
(* works on a copy; those of the other tools write into the dashboard.  It *)
(* posts the whole tool, with the district it was loaded with.             *)

OpenSchedule ==
    /\ dialog = NoDialog
    /\ page.at = "dashboard"
    /\ dialog' = [kind |-> "schedule", tool |-> page.tool]
    /\ UNCHANGED <<tools, service, page, net, acts, faults, offered, dated, confirmed, mixed>>

MoveDeadline(date) ==
    /\ Act
    /\ dialog.kind = "schedule"
    /\ Send("schedule", page.tool, [district |-> page.district, deadline |-> date])
    /\ page' = IF page.tool \in Assessments THEN page ELSE [page EXCEPT !.deadline = date]
    /\ UNCHANGED <<tools, service, dialog, faults, offered, dated, confirmed, mixed>>

\* Mutant: a refused deadline is shown like an accepted one.
MovedAnyway(r) ==
    /\ r.kind = "schedule" /\ r.status # "sent"
    /\ net' = net \ {r}
    /\ IF page.at = "dashboard" /\ page.tool = r.tool
       THEN /\ page' = IF r.tool \in Assessments
                       THEN [page EXCEPT !.deadline = r.body.deadline] ELSE page
            /\ dialog' = NoDialog
       ELSE UNCHANGED <<page, dialog>>
    /\ UNCHANGED <<tools, service, acts, faults, offered, dated, confirmed, mixed>>

Moved(r) ==
    /\ r.kind = "schedule" /\ r.status # "sent"
    /\ net' = net \ {r}
    /\ IF r.status = "ok" /\ page.at = "dashboard" /\ page.tool = r.tool
       THEN /\ page' = IF r.tool \in Assessments
                       THEN [page EXCEPT !.deadline = r.body.deadline] ELSE page
            /\ dialog' = NoDialog
       ELSE UNCHANGED <<page, dialog>>
    /\ UNCHANGED <<tools, service, acts, faults, offered, dated, confirmed, mixed>>

---------------------------------------------------------------------------
(* The server.                                                             *)

\* #update takes the district of an assessment or an inventory.
Apply(r) ==
    LET t == r.tool
        district == IF t \in Analyses THEN tools[t].district ELSE r.body.district
    IN
    /\ tools' = CASE r.kind = "create" ->
                       [tools EXCEPT ![t].exists = TRUE, ![t].district = r.body.district,
                                     ![t].inventory = r.body.inventory,
                                     ![t].deadline = r.body.deadline]
                  [] r.kind = "save" ->
                       [tools EXCEPT ![t].district = district,
                                     ![t].deadline = r.body.deadline,
                                     ![t].assigned = @ \/ r.body.assign]
                  [] r.kind = "schedule" ->
                       [tools EXCEPT ![t].district = district,
                                     ![t].deadline = r.body.deadline]
    /\ dated' = [dated EXCEPT ![t] = @ \cup {tools'[t].deadline}]

\* A fault loses the request before it is served, or the answer after that.
Serve(r) ==
    /\ r.status = "sent"
    /\ \/ /\ Apply(r) /\ UNCHANGED faults
          /\ net' = (net \ {r}) \cup {[r EXCEPT !.status = "ok"]}
       \/ /\ faults < MaxFaults /\ faults' = faults + 1
          /\ Apply(r) \/ UNCHANGED <<tools, dated>>
          /\ net' = (net \ {r}) \cup {[r EXCEPT !.status = "failed"]}
    /\ UNCHANGED <<service, page, dialog, acts, offered, confirmed, mixed>>

---------------------------------------------------------------------------

\* The tools made by others: their districts and deadlines.
Standing(made, where, when) ==
    /\ tools = [t \in Tools |->
                   [exists    |-> t \in made,
                    district  |-> IF t \in made THEN where[t] ELSE None,
                    inventory |-> None,
                    deadline  |-> IF t \in made THEN when[t] ELSE None,
                    assigned  |-> FALSE]]
    /\ dated = [t \in Tools |-> IF t \in made THEN {when[t]} ELSE {}]

Init ==
    /\ \E made \in SUBSET Made :
          \E where \in [made -> Elsewhere], when \in [made -> Dates] : Standing(made, where, when)
    /\ service = None /\ page = Index /\ dialog = NoDialog
    /\ net = {} /\ acts = 0 /\ faults = 0
    /\ offered = [t \in Tools |-> {}]
    /\ confirmed = {} /\ mixed = FALSE

Next ==
    \/ \E t \in Tools : OpenAssign(t) \/ OpenDashboard(t) \/ OpenCreate(t)
    \/ \E t \in Tools, d \in MyDistricts, date \in Dates :
           CreateAssessment(t, d, date) \/ CreateInventory(t, d, date)
    \/ \E t \in Tools, i \in Inventories, date \in Dates : CreateAnalysis(t, i, date)
    \/ \E d \in MyDistricts, date \in Dates : Update(d, date)
    \/ \E date \in Dates : SaveMessage(date) \/ AssignAndSave(date) \/ MoveDeadline(date)
    \/ GoIndex \/ CloseDialog \/ OpenSchedule
    \/ \E r \in net : Created(r) \/ Saved(r) \/ Moved(r) \/ Serve(r)

Spec == Init /\ [][Next]_vars

---------------------------------------------------------------------------
(* Properties.                                                             *)

\* Every variable has its type, and a request concerns one of the tools.
TypeOK ==
    /\ tools \in [Tools -> Row]
    /\ page \in Page
    /\ service \in Districts \cup {None}
    /\ dialog.kind \in {None, "create", "schedule"} /\ dialog.tool \in Tools \cup {None}
    /\ \A r \in net : r.tool \in Tools /\ r.status \in {"sent", "ok", "failed"}
    /\ confirmed \subseteq Tools /\ mixed \in BOOLEAN

\* An assign page reports its own saves: its spinner turns exactly while a save
\* of its tool is under way, although each save only flips it, and its alerts
\* tell the outcome of its own saves, unless two saves overlapped or one was
\* under way when the page was opened.
ReportsOwnSaves ==
    page.at = "assign" /\ ~mixed =>
        /\ page.saving = (Saving(page.tool) # {})
        /\ page.alerts \subseteq {page.tool}

\* A tool is assigned, and its participants invited, only after its
\* facilitator confirmed the sending of this tool.
AssignedWhenConfirmed ==
    \A t \in Tools : tools[t].assigned => t \in confirmed

\* The one district the service keeps for all pages never moves an assessment or
\* an inventory to a district of another tool: only to one that a page of its own
\* was loaded with or had selected.  Selecting includes the fallback, the user's
\* first district for a tool that is in none of the user's.
DistrictWasOffered ==
    \A t \in Tools \ Analyses : offered[t] # {} => tools[t].district \in offered[t]

\* The dashboard of an assessment shows a deadline the assessment has had,
\* also while its change is under way, after it failed and after it was late,
\* although every save of the assign page writes the deadline as well.
ScheduleWasSaved ==
    page.at = "dashboard" /\ page.tool \in Assessments => page.deadline \in dated[page.tool]
=============================================================================
