------------------------------ MODULE ToolIndex ------------------------------
(***************************************************************************)
(* The card of a tool on the index pages: which links the server puts on   *)
(* it for one user, how old the card may be, and where its links lead.     *)
(*                                                                         *)
(* The cards of assessments are cached by the server, for each user, under *)
(* the assessment's updated_at.  Nothing empties the cache: a change is    *)
(* seen on the index only if its handler touches the assessment.           *)
(***************************************************************************)
EXTENDS Naturals, FiniteSets

CONSTANT Uncached

VARIABLES
    kind,       \* "assessment", "inventory" or "analysis"
    user,       \* the user: owns the tool, has the role of a network partner
    tool,       \* what the database says of the tool
    cache,      \* the card cached under the present updated_at, or Uncached
    screen,     \* where the user is, the card shown, and the dialog over it
    load,       \* the request for the index
    access,     \* the request for access to the tool
    silent      \* history: access given, taken or asked for since the cached
                \* card was rendered

indexVars == <<kind, user, tool, cache, screen, load, access, silent>>

Work == {"none", "open", "submitted"}

---------------------------------------------------------------------------
(* The tool.  Besides the user it has an owner, and perhaps others who     *)
(* participate: nobody, somebody who has not responded, or all done.       *)

facilitator == user.owner \/ tool.facil

status ==
    IF ~tool.assigned THEN "draft"
    ELSE IF kind = "inventory" THEN "inventory"
    ELSE IF kind = "analysis" \/ tool.consensus # "none" THEN "consensus" ELSE "assessment"

fully_complete == tool.consensus = "submitted"

\* All the participants have submitted; without participants nothing is.
completed ==
    /\ tool.others = "done" \/ (tool.others = "nobody" /\ tool.part)
    /\ tool.part => tool.mine = "submitted"

OwnerParticipates == IF user.owner THEN tool.part ELSE tool.ownerPart

---------------------------------------------------------------------------
(* The links.                                                              *)

Link(title, type) == [title |-> title, type |-> type]

Finish    == Link("Finish & Assign", "finish")
Dashboard == Link("View Dashboard", "dashboard")
Survey    == Link("Complete Survey", "response")
Report    == Link("View Report", "report")

\* Mutant: the consensus exists as soon as everybody has submitted.
EagerConsensusLink ==
    IF status = "consensus" \/ completed THEN Link("View Consensus", "consensus")
    ELSE Link("Create Consensus", "new_consensus")

ConsensusLink ==
    IF status = "consensus" THEN Link("View Consensus", "consensus")
    ELSE Link("Create Consensus", "new_consensus")

\* Once all have submitted there is a report and no survey.  Whether the
\* survey is offered depends on the owner, whoever looks.
Facilitator ==
    LET links ==
          IF status = "draft" THEN {Finish}
          ELSE IF fully_complete THEN {ConsensusLink, Report, Dashboard}
          ELSE {ConsensusLink, Dashboard}
                 \cup {s \in {Survey} : status # "consensus" /\ OwnerParticipates}
    IN  IF completed THEN (links \cup {Report}) \ {Survey} ELSE links

Participant ==
    IF status = "draft" THEN {}
    ELSE IF status # "consensus" THEN {Survey} \cup {r \in {Report} : completed}
    ELSE IF fully_complete THEN {Link("Consensus", "consensus"), Report}
    ELSE {Link("Edit Survey", "response")}

InventoryMember == IF status = "draft" THEN {} ELSE {Dashboard, Report}

InventoryFacilitator == IF status = "draft" THEN {Finish} ELSE {Dashboard, Report}

AnalysisFacilitator ==
    IF status = "draft" THEN {Finish}
    ELSE {ConsensusLink, Dashboard} \cup {r \in {Report} : fully_complete}

AnalysisParticipant ==
    IF status = "draft" THEN {}
    ELSE IF fully_complete THEN {Report} ELSE {Dashboard}

\* A network partner of an assessment who has asked for nothing gets a link
\* that is nil, and no links are shown.
Partner ==
    IF tool.pending THEN {Link("Access Pending", "pending")}
    ELSE IF tool.netp THEN {} ELSE {Link("Request Access", "request_access")}

Links ==
    IF kind = "assessment"
    THEN IF facilitator THEN Facilitator ELSE IF tool.part THEN Participant ELSE Partner
    ELSE IF kind = "inventory"
    THEN IF tool.facil THEN InventoryFacilitator
         ELSE IF tool.part THEN InventoryMember ELSE Partner
    ELSE IF tool.facil THEN AnalysisFacilitator
         ELSE IF tool.part THEN AnalysisParticipant ELSE Partner

\* Where the entry of an assessment leads.
response_link ==
    IF ~(facilitator \/ tool.part \/ tool.netp) \/ ~tool.assigned THEN "none"
    ELSE IF fully_complete THEN "consensus"
    ELSE IF tool.part /\ tool.mine # "none" THEN "response"
    ELSE IF tool.part THEN "new_response" ELSE "none"

Card ==
    [links     |-> Links,
     consensus |-> tool.consensus # "none",
     entry     |-> IF kind = "assessment" THEN response_link ELSE "none",
     responses |-> kind = "assessment" /\ tool.part /\ tool.mine # "none"]

NoCard == [links |-> {}, consensus |-> FALSE, entry |-> "none", responses |-> FALSE]

---------------------------------------------------------------------------
(* The server.                                                             *)

\* The assessment is touched: cards are cached under another key from now on.
flush_cached_version == cache' = Uncached /\ silent' = FALSE

\* Rows of access come and go without a touch.
Unflushed == cache' = cache /\ silent' = (silent \/ cache # Uncached)

Changes(t) == tool' = t /\ UNCHANGED <<kind, user, screen, load, access>>

Assign == ~tool.assigned /\ Changes([tool EXCEPT !.assigned = TRUE]) /\ flush_cached_version

OthersRespond ==
    /\ tool.assigned /\ tool.others = "waiting"
    /\ Changes([tool EXCEPT !.others = "done"]) /\ flush_cached_version

AddParticipant ==
    /\ tool.others # "waiting"
    /\ Changes([tool EXCEPT !.others = "waiting"]) /\ flush_cached_version

\* The user is invited, or a request for access as a participant is granted.
AddUser ==
    /\ ~tool.part
    /\ \E p \in {FALSE, tool.pending} : Changes([tool EXCEPT !.part = TRUE, !.pending = p])
    /\ flush_cached_version

\* Destroying a row runs no after_save: the response goes with it.
RemoveUser ==
    /\ tool.part
    /\ Changes([tool EXCEPT !.part = FALSE, !.mine = "none"]) /\ Unflushed

ConsensusCreated ==
    /\ tool.assigned /\ kind # "inventory" /\ tool.consensus = "none"
    /\ Changes([tool EXCEPT !.consensus = "open"]) /\ flush_cached_version

\* Mutant: a consensus is submitted past the callbacks.
SubmittedSilently ==
    /\ tool.consensus = "open"
    /\ Changes([tool EXCEPT !.consensus = "submitted"]) /\ UNCHANGED <<cache, silent>>

ConsensusSubmitted ==
    /\ tool.consensus = "open"
    /\ Changes([tool EXCEPT !.consensus = "submitted"]) /\ flush_cached_version

\* Every answer that is saved touches its assessment.
ScoreSaved == tool.assigned /\ cache # Uncached /\ Changes(tool) /\ flush_cached_version

\* Rows of the join tables: granted, taken back, and requests denied.
grant_facilitator ==
    /\ ~facilitator
    /\ \E p \in {FALSE, tool.pending} : Changes([tool EXCEPT !.facil = TRUE, !.pending = p])
    /\ Unflushed

grant_network_partner ==
    /\ kind = "assessment" /\ ~tool.netp
    /\ Changes([tool EXCEPT !.netp = TRUE]) /\ Unflushed

revoke_level ==
    /\ IF tool.facil THEN Changes([tool EXCEPT !.facil = FALSE])
       ELSE tool.netp /\ Changes([tool EXCEPT !.netp = FALSE])
    /\ Unflushed

deny == tool.pending /\ Changes([tool EXCEPT !.pending = FALSE]) /\ Unflushed

ServeIndex ==
    /\ load.status = "sent"
    /\ LET card == IF kind = "assessment" /\ cache # Uncached THEN cache ELSE Card
       IN /\ load' = [status |-> "served", card |-> card]
          /\ cache' = IF kind = "assessment" THEN card ELSE Uncached
    /\ UNCHANGED <<kind, user, tool, screen, access, silent>>

\* AccessRequest.create: the assessment is not touched.  Inventories and
\* analyses refuse the role their user has, and keep the row all the same.
\* What a network partner asks of an assessment is a list in a list, which
\* arrives without roles and never validates.
request_access ==
    /\ access = "sent" /\ ~(kind = "assessment" /\ user.partner)
    /\ access' \in {"ok"} \cup {f \in {"failed"} : kind # "assessment" /\ (tool.facil \/ tool.part)}
    /\ tool' = [tool EXCEPT !.pending = TRUE] /\ Unflushed
    /\ UNCHANGED <<kind, user, screen, load>>

Refuse ==
    /\ access = "sent" /\ access' = "failed"
    /\ UNCHANGED <<kind, user, tool, cache, screen, load, silent>>

---------------------------------------------------------------------------
(* The browser.                                                            *)

Asked == [status |-> "sent", card |-> NoCard]
Idle  == [status |-> "idle", card |-> NoCard]

Visit ==
    /\ screen.dialog = "none" /\ load.status = "idle"
    /\ load' = Asked
    /\ UNCHANGED <<kind, user, tool, cache, screen, access, silent>>

Loaded ==
    /\ load.status = "served"
    /\ screen' = [screen EXCEPT !.at = "index", !.card = load.card] /\ load' = Idle
    /\ UNCHANGED <<kind, user, tool, cache, access, silent>>

\* Mutant: the dialog stays over the page it leads to.
GotoBehind(place) ==
    /\ screen' = [screen EXCEPT !.at = place, !.card = NoCard] /\ load' = Idle

Goto(place) ==
    /\ screen' = [at |-> place, card |-> NoCard, dialog |-> "none"] /\ load' = Idle

\* Bound: one request for access at a time, and no dialog until it is answered.
RequestAccess == access = "idle" /\ access' = "sent" /\ UNCHANGED <<screen, load>>

Over(dialog) == access = "idle" /\ screen' = [screen EXCEPT !.dialog = dialog] /\ UNCHANGED <<load, access>>

\* Creating a consensus is confirmed first; a network partner asks at once.
\* The links of a pending request lead nowhere.
gotoLocation(l) ==
    CASE l.type = "pending" -> FALSE
      [] l.type = "new_consensus" -> Over("consensus")
      [] l.type = "request_access" -> IF user.partner THEN RequestAccess ELSE Over("access")
      [] OTHER -> Goto(l.type) /\ UNCHANGED access

inventoryLocation(l) ==
    CASE l.type \in {"finish", "dashboard", "report"} -> Goto(l.type) /\ UNCHANGED access
      [] l.type = "request_access" -> Over("access")
      [] OTHER -> FALSE

analysisLocation(l) ==
    CASE l.type \in {"finish", "dashboard", "consensus", "report"} ->
            Goto(l.type) /\ UNCHANGED access
      [] l.type = "request_access" -> Over("access")
      [] OTHER -> FALSE

Click ==
    /\ screen.at = "index" /\ screen.dialog = "none"
    /\ \E l \in screen.card.links :
          \/ kind = "assessment" /\ gotoLocation(l)
          \/ kind = "inventory" /\ inventoryLocation(l)
          \/ kind = "analysis" /\ analysisLocation(l)
    /\ UNCHANGED <<kind, user, tool, cache, silent>>

redirectToCreateConsensus ==
    /\ screen.dialog = "consensus" /\ Goto("new_consensus")
    /\ UNCHANGED <<kind, user, tool, cache, access, silent>>

submitAccessRequest ==
    /\ screen.dialog = "access" /\ RequestAccess
    /\ UNCHANGED <<kind, user, tool, cache, silent>>

close ==
    /\ screen.dialog # "none" /\ screen' = [screen EXCEPT !.dialog = "none"]
    /\ UNCHANGED <<kind, user, tool, cache, load, access, silent>>

\* The state is entered again, wherever the user is by now, and the dialog
\* goes; one that was refused stays.
performAccessRequest ==
    /\ access \in {"ok", "failed"} /\ access' = "idle"
    /\ screen' = IF access = "ok" /\ screen.dialog = "access" THEN [screen EXCEPT !.dialog = "none"]
                 ELSE screen
    /\ load' = IF access = "ok" /\ screen.at = "index" THEN Asked ELSE load
    /\ UNCHANGED <<kind, user, tool, cache, silent>>

\* The page of a survey creates the response, and later submits it.
CreateResponse ==
    /\ screen.at = "response" /\ tool.part /\ tool.mine = "none"
    /\ Changes([tool EXCEPT !.mine = "open"]) /\ flush_cached_version

SubmitResponse ==
    /\ screen.at = "response" /\ tool.mine = "open"
    /\ Changes([tool EXCEPT !.mine = "submitted"]) /\ flush_cached_version

---------------------------------------------------------------------------
IndexInit ==
    /\ kind \in {"assessment", "inventory", "analysis"}
    /\ user \in [owner : BOOLEAN, partner : BOOLEAN]
    /\ tool \in [assigned : {FALSE}, facil : {user.owner /\ kind # "assessment"},
                 part : {FALSE}, netp : {FALSE}, pending : {FALSE},
                 ownerPart : {p \in BOOLEAN : p => kind = "assessment" /\ ~user.owner},
                 others : {"nobody", "waiting"}, mine : {"none"}, consensus : {"none"}]
    /\ tool.ownerPart => tool.others = "waiting"
    /\ cache = Uncached /\ silent = FALSE
    /\ screen = [at |-> "home", card |-> NoCard, dialog |-> "none"]
    /\ load = Idle /\ access = "idle"

IndexNext ==
    \/ Assign \/ OthersRespond \/ AddParticipant \/ AddUser \/ RemoveUser
    \/ ConsensusCreated \/ ConsensusSubmitted \/ ScoreSaved
    \/ grant_facilitator \/ grant_network_partner \/ revoke_level \/ deny
    \/ ServeIndex \/ request_access \/ Refuse
    \/ Visit \/ Loaded \/ Click \/ redirectToCreateConsensus \/ submitAccessRequest \/ close
    \/ performAccessRequest \/ CreateResponse \/ SubmitResponse

IndexSpec == IndexInit /\ [][IndexNext]_indexVars

---------------------------------------------------------------------------
(* Properties.                                                             *)

Types == {"finish", "dashboard", "report", "response", "consensus", "new_consensus",
          "request_access", "pending"}

Titles == {"Finish & Assign", "View Dashboard", "Complete Survey", "Edit Survey", "View Report",
           "View Consensus", "Create Consensus", "Consensus", "Request Access", "Access Pending"}

Cards == [links : SUBSET [title : Titles, type : Types], consensus : BOOLEAN,
          entry : {"none", "consensus", "response", "new_response"}, responses : BOOLEAN]

\* Type correctness of the tool, the cache and the page: a dialog is open over
\* the index only, never over the page it leads to.
IndexTypeOK ==
    /\ kind \in {"assessment", "inventory", "analysis"}
    /\ user \in [owner : BOOLEAN, partner : BOOLEAN]
    /\ tool \in [assigned : BOOLEAN, facil : BOOLEAN, part : BOOLEAN, netp : BOOLEAN,
                 pending : BOOLEAN, ownerPart : BOOLEAN, others : {"nobody", "waiting", "done"},
                 mine : Work, consensus : Work]
    /\ cache \in Cards \cup {Uncached} /\ silent \in BOOLEAN
    /\ screen \in [at : Types \cup {"index", "home"}, card : Cards,
                 dialog : {"none", "access", "consensus"}]
    /\ screen.dialog # "none" => screen.at = "index"
    /\ load \in [status : {"idle", "sent", "served"}, card : Cards]
    /\ access \in {"idle", "sent", "ok", "failed"}

\* A cached card is the one that would be rendered now, unless access was given,
\* taken or asked for since: whatever else the card shows is touched by the
\* callbacks of the rows it is about (participants, responses, scores).
CacheIsCurrent == cache # Uncached /\ ~silent => cache = Card

\* What the pages behind the links ask of the user.
Opens(type) ==
    CASE type = "response"      -> tool.part
      [] type = "consensus"     -> kind = "analysis" \/ tool.consensus # "none"
      [] type = "new_consensus" -> facilitator
      [] type = "finish"        -> facilitator
      [] OTHER                  -> TRUE

\* The entry takes the id of a response, or of the consensus, from its card.
EntryLeads(card) ==
    /\ card.entry = "response" => card.responses
    /\ card.entry = "consensus" => card.consensus

\* The links of a card that is up to date lead to pages which open for the user,
\* and the entry leads to a response or a consensus whose id the card has: only
\* the survey of an assessment, offered to a facilitator who does not own it,
\* need not.
LinksOpen ==
    LET card == IF cache # Uncached /\ ~silent THEN cache ELSE Card
    IN  /\ \A l \in card.links :
              Opens(l.type) \/ (l = Survey /\ tool.facil /\ ~user.owner)
        /\ EntryLeads(card)
==============================================================================
