----------------------------- MODULE PagesProofs -----------------------------
(***************************************************************************)
(* Proofs about three parts of the browser, for any number of tools,       *)
(* districts, dates, users, clicks, upsets and failures.                   *)
(*                                                                         *)
(* ToolIndex: type correctness, that a cached card is current but for the  *)
(* rows nobody touches the assessment for, and that the links of a current *)
(* card open.  ToolSetup: type correctness, and what a facilitator who     *)
(* sets tools up can rely on although all pages share one service and the  *)
(* answers come late.  BrowserSession: type correctness, that the tab      *)
(* shows whom the server acts for, and what signs somebody in or leaves a  *)
(* guarded page to nobody.  Only the proofs share this module: no theorem  *)
(* is about two of the parts.                                              *)
(***************************************************************************)
EXTENDS ToolIndex, ToolSetup, BrowserSession, TLAPS, FiniteSetTheorems

---------------------------------------------------------------------------
(* ToolIndex.                                                              *)

LinkSet == SUBSET [title : Titles, type : Types]

Tool == [assigned : BOOLEAN, facil : BOOLEAN, part : BOOLEAN, netp : BOOLEAN,
         pending : BOOLEAN, ownerPart : BOOLEAN, others : {"nobody", "waiting", "done"},
         mine : Work, consensus : Work]

Screen == [at : Types \cup {"index", "home"}, card : Cards,
         dialog : {"none", "access", "consensus"}]

Load == [status : {"idle", "sent", "served"}, card : Cards]

---------------------------------------------------------------------------
(* The card                                                                *)

LEMMA TitlesAreLinks ==
    /\ Finish \in [title : Titles, type : Types]
    /\ Dashboard \in [title : Titles, type : Types]
    /\ Survey \in [title : Titles, type : Types]
    /\ Report \in [title : Titles, type : Types]
    /\ ConsensusLink \in [title : Titles, type : Types]
BY DEF Finish, Dashboard, Survey, Report, ConsensusLink, Link, Titles, Types

LEMMA FacilitatorType == Facilitator \in LinkSet
<1> DEFINE own ==
      IF status = "draft" THEN {Finish}
      ELSE IF fully_complete THEN {ConsensusLink, Report, Dashboard}
      ELSE {ConsensusLink, Dashboard}
             \cup {s \in {Survey} : status # "consensus" /\ OwnerParticipates}
<1>1. own \in LinkSet
  BY TitlesAreLinks DEF LinkSet
<1>2. (own \cup {Report}) \ {Survey} \in LinkSet
  BY <1>1, TitlesAreLinks DEF LinkSet
<1>3. Facilitator = IF completed THEN (own \cup {Report}) \ {Survey} ELSE own
  BY DEF Facilitator
<1> QED BY <1>1, <1>2, <1>3

LEMMA ParticipantType == Participant \in LinkSet
<1>1. Link("Consensus", "consensus") \in [title : Titles, type : Types]
  BY DEF Link, Titles, Types
<1>2. Link("Edit Survey", "response") \in [title : Titles, type : Types]
  BY DEF Link, Titles, Types
<1> QED BY <1>1, <1>2, TitlesAreLinks DEF Participant, LinkSet

LEMMA PartnerType == Partner \in LinkSet
<1>1. Link("Access Pending", "pending") \in [title : Titles, type : Types]
  BY DEF Link, Titles, Types
<1>2. Link("Request Access", "request_access") \in [title : Titles, type : Types]
  BY DEF Link, Titles, Types
<1> QED BY <1>1, <1>2 DEF Partner, LinkSet

LEMMA OtherLinksType ==
    /\ InventoryMember \in LinkSet /\ InventoryFacilitator \in LinkSet
    /\ AnalysisFacilitator \in LinkSet /\ AnalysisParticipant \in LinkSet
BY TitlesAreLinks DEF InventoryMember, InventoryFacilitator, AnalysisFacilitator,
                      AnalysisParticipant, LinkSet

LEMMA LinksType == Links \in LinkSet
BY FacilitatorType, ParticipantType, PartnerType, OtherLinksType DEF Links

LEMMA CardType == ASSUME IndexTypeOK PROVE Card \in Cards
<1>1. Links \in SUBSET [title : Titles, type : Types]
  BY LinksType DEF LinkSet
<1>2. (tool.consensus # "none") \in BOOLEAN
  OBVIOUS
<1>3. (IF kind = "assessment" THEN response_link ELSE "none")
        \in {"none", "consensus", "response", "new_response"}
  BY DEF response_link
<1>4. (kind = "assessment" /\ tool.part /\ tool.mine # "none") \in BOOLEAN
  OBVIOUS
<1> QED BY <1>1, <1>2, <1>3, <1>4 DEF Card, Cards

LEMMA NoCardType == NoCard \in Cards
BY DEF NoCard, Cards

\* A card shows the tool, the user and nothing else.
LEMMA CardDependsOnTool ==
    ASSUME UNCHANGED <<kind, user, tool>>
    PROVE  Card' = Card
<1>1. /\ facilitator' = facilitator /\ status' = status /\ completed' = completed
      /\ fully_complete' = fully_complete /\ OwnerParticipates' = OwnerParticipates
  BY DEF facilitator, status, completed, fully_complete, OwnerParticipates
<1>2. ConsensusLink' = ConsensusLink
  BY <1>1 DEF ConsensusLink
<1>3. /\ Facilitator' = Facilitator /\ Participant' = Participant /\ Partner' = Partner
      /\ InventoryMember' = InventoryMember /\ InventoryFacilitator' = InventoryFacilitator
      /\ AnalysisFacilitator' = AnalysisFacilitator
      /\ AnalysisParticipant' = AnalysisParticipant
  BY <1>1, <1>2 DEF Facilitator, Participant, Partner, InventoryMember, InventoryFacilitator,
                    AnalysisFacilitator, AnalysisParticipant
<1>4. Links' = Links /\ response_link' = response_link
  BY <1>1, <1>3 DEF Links, response_link
<1> QED BY <1>4 DEF Card

---------------------------------------------------------------------------
(* Type correctness                                                        *)

LEMMA InitType == IndexInit => IndexTypeOK
<1> SUFFICES ASSUME IndexInit PROVE IndexTypeOK
  OBVIOUS
<1>1. tool \in Tool
  BY DEF IndexInit, Tool, Work
<1>2. screen \in Screen /\ load \in Load
  BY NoCardType DEF IndexInit, Screen, Load, Idle
<1> QED BY <1>1, <1>2 DEF IndexInit, IndexTypeOK, Tool, Screen, Load

\* What stands still while the database changes, and while the browser does.
LEMMA ChangesType ==
    ASSUME IndexTypeOK, NEW t \in Tool, Changes(t), flush_cached_version \/ Unflushed
    PROVE  IndexTypeOK'
<1>1. /\ tool' = t /\ kind' = kind /\ user' = user /\ screen' = screen /\ load' = load
      /\ access' = access
  BY DEF Changes
<1>2. cache' \in Cards \cup {Uncached} /\ silent' \in BOOLEAN
  BY DEF IndexTypeOK, flush_cached_version, Unflushed
<1> QED BY <1>1, <1>2 DEF IndexTypeOK, Tool

LEMMA BrowserType ==
    ASSUME IndexTypeOK, UNCHANGED <<kind, user, tool, cache, silent>>,
           screen' \in Screen, screen'.dialog # "none" => screen'.at = "index",
           load' \in Load, access' \in {"idle", "sent", "ok", "failed"}
    PROVE  IndexTypeOK'
BY DEF IndexTypeOK, Screen, Load

LEMMA ServerType ==
    ASSUME IndexTypeOK,
           \/ Assign \/ OthersRespond \/ AddParticipant \/ AddUser \/ RemoveUser
           \/ ConsensusCreated \/ ConsensusSubmitted \/ ScoreSaved
           \/ grant_facilitator \/ grant_network_partner \/ revoke_level \/ deny
           \/ CreateResponse \/ SubmitResponse
    PROVE  IndexTypeOK'
<1>1. tool \in Tool
  BY DEF IndexTypeOK, Tool
<1>2. /\ \A b \in BOOLEAN : /\ [tool EXCEPT !.assigned = b] \in Tool
                            /\ [tool EXCEPT !.pending = b] \in Tool
                            /\ [tool EXCEPT !.netp = b] \in Tool
                            /\ [tool EXCEPT !.facil = b] \in Tool
      /\ \A b, c \in BOOLEAN : /\ [tool EXCEPT !.part = b, !.pending = c] \in Tool
                               /\ [tool EXCEPT !.facil = b, !.pending = c] \in Tool
      /\ \A b \in BOOLEAN, w \in Work : [tool EXCEPT !.part = b, !.mine = w] \in Tool
      /\ \A w \in Work : [tool EXCEPT !.mine = w] \in Tool /\ [tool EXCEPT !.consensus = w] \in Tool
      /\ \A o \in {"nobody", "waiting", "done"} : [tool EXCEPT !.others = o] \in Tool
  BY <1>1 DEF Tool
<1>3. "none" \in Work /\ "open" \in Work /\ "submitted" \in Work
  BY DEF Work
<1>4. tool.pending \in BOOLEAN
  BY <1>1 DEF Tool
<1>5. CASE Assign \/ OthersRespond \/ AddParticipant
  BY <1>2, <1>5, ChangesType DEF Assign, OthersRespond, AddParticipant
<1>6. CASE AddUser
  <2>1. PICK p \in {FALSE, tool.pending} : Changes([tool EXCEPT !.part = TRUE, !.pending = p])
    BY <1>6 DEF AddUser
  <2>2. [tool EXCEPT !.part = TRUE, !.pending = p] \in Tool
    BY <1>2, <1>4
  <2> QED BY <1>6, <2>1, <2>2, ChangesType DEF AddUser
<1>7. CASE grant_facilitator
  <2>1. PICK p \in {FALSE, tool.pending} : Changes([tool EXCEPT !.facil = TRUE, !.pending = p])
    BY <1>7 DEF grant_facilitator
  <2>2. [tool EXCEPT !.facil = TRUE, !.pending = p] \in Tool
    BY <1>2, <1>4
  <2> QED BY <1>7, <2>1, <2>2, ChangesType DEF grant_facilitator
<1>8. CASE RemoveUser
  BY <1>2, <1>3, <1>8, ChangesType DEF RemoveUser
<1>9. CASE ConsensusCreated \/ ConsensusSubmitted \/ CreateResponse \/ SubmitResponse
  BY <1>2, <1>3, <1>9, ChangesType DEF ConsensusCreated, ConsensusSubmitted, CreateResponse,
     SubmitResponse
<1>10. CASE ScoreSaved
  BY <1>1, <1>10, ChangesType DEF ScoreSaved
<1>11. CASE grant_network_partner \/ revoke_level \/ deny
  BY <1>2, <1>11, ChangesType DEF grant_network_partner, revoke_level, deny
<1> QED BY <1>5, <1>6, <1>7, <1>8, <1>9, <1>10, <1>11

LEMMA ServeType == ASSUME IndexTypeOK, ServeIndex \/ request_access \/ Refuse PROVE IndexTypeOK'
<1>1. CASE ServeIndex
  <2> DEFINE card == IF kind = "assessment" /\ cache # Uncached THEN cache ELSE Card
  <2>1. card \in Cards
    BY CardType DEF IndexTypeOK
  <2>2. /\ load' = [status |-> "served", card |-> card]
        /\ cache' = IF kind = "assessment" THEN card ELSE Uncached
        /\ UNCHANGED <<kind, user, tool, screen, access, silent>>
    BY <1>1 DEF ServeIndex
  <2> HIDE DEF card
  <2> QED BY <2>1, <2>2 DEF IndexTypeOK
<1>2. CASE request_access
  <2>1. tool' \in Tool
    BY <1>2 DEF request_access, IndexTypeOK, Tool
  <2>2. cache' = cache /\ silent' \in BOOLEAN
    BY <1>2 DEF request_access, Unflushed, IndexTypeOK
  <2>3. access' \in {"idle", "sent", "ok", "failed"} /\ UNCHANGED <<kind, user, screen, load>>
    BY <1>2 DEF request_access
  <2> QED BY <2>1, <2>2, <2>3 DEF IndexTypeOK, Tool
<1>3. CASE Refuse
  BY <1>3 DEF Refuse, IndexTypeOK
<1> QED BY <1>1, <1>2, <1>3

\* Going to a page leaves the index, its dialog and its load behind.
LEMMA GotoType ==
    ASSUME IndexTypeOK, NEW place \in Types, Goto(place)
    PROVE  /\ screen' \in Screen /\ screen'.dialog = "none" /\ load' \in Load
BY NoCardType DEF Goto, Screen, Load, Idle

\* The links of a card lead somewhere, open a dialog over the index, or ask.
LEMMA ClickType == ASSUME IndexTypeOK, Click PROVE IndexTypeOK'
<1>1. screen \in Screen /\ load \in Load /\ screen.at = "index"
  BY DEF IndexTypeOK, Screen, Load, Click
<1>2. PICK l \in screen.card.links : gotoLocation(l) \/ inventoryLocation(l) \/ analysisLocation(l)
  BY DEF Click
<1>3. l.type \in Types
  BY <1>1 DEF Screen, Cards
<1>4. \/ Goto(l.type) /\ UNCHANGED access
      \/ Over("access") \/ Over("consensus")
      \/ RequestAccess
  BY <1>2 DEF gotoLocation, inventoryLocation, analysisLocation
<1>5. UNCHANGED <<kind, user, tool, cache, silent>>
  BY DEF Click
<1>6. access \in {"idle", "sent", "ok", "failed"}
  BY DEF IndexTypeOK
<1>7. CASE Goto(l.type) /\ UNCHANGED access
  BY <1>3, <1>5, <1>6, <1>7, GotoType, BrowserType
<1>8. CASE Over("access") \/ Over("consensus")
  <2>1. screen' \in Screen /\ screen'.at = "index"
    BY <1>1, <1>8 DEF Over, Screen
  <2>2. load' = load /\ access' = access
    BY <1>8 DEF Over
  <2> QED BY <1>1, <1>5, <1>6, <2>1, <2>2, BrowserType
<1>9. CASE RequestAccess
  BY <1>5, <1>9 DEF RequestAccess, IndexTypeOK
<1> QED BY <1>4, <1>7, <1>8, <1>9

LEMMA PageType ==
    ASSUME IndexTypeOK,
           \/ Visit \/ Loaded \/ redirectToCreateConsensus \/ submitAccessRequest \/ close
           \/ performAccessRequest
    PROVE  IndexTypeOK'
<1>1. /\ screen \in Screen /\ load \in Load /\ access \in {"idle", "sent", "ok", "failed"}
      /\ screen.dialog # "none" => screen.at = "index"
  BY DEF IndexTypeOK, Screen, Load
<1>2. Asked \in Load /\ Idle \in Load
  BY NoCardType DEF Asked, Idle, Load
<1>3. CASE Visit
  BY <1>1, <1>2, <1>3, BrowserType DEF Visit
<1>4. CASE Loaded
  <2>1. screen' = [screen EXCEPT !.at = "index", !.card = load.card] /\ load' = Idle
    BY <1>4 DEF Loaded
  <2>2. load.card \in Cards
    BY <1>1 DEF Load
  <2>3. screen' \in Screen /\ screen'.at = "index"
    BY <1>1, <2>1, <2>2 DEF Screen
  <2> QED BY <1>1, <1>2, <1>4, <2>1, <2>3, BrowserType DEF Loaded
<1>5. CASE redirectToCreateConsensus
  <2>1. Goto("new_consensus") /\ UNCHANGED <<kind, user, tool, cache, access, silent>>
    BY <1>5 DEF redirectToCreateConsensus
  <2>2. "new_consensus" \in Types
    BY DEF Types
  <2> QED BY <1>1, <2>1, <2>2, GotoType, BrowserType
<1>6. CASE submitAccessRequest
  BY <1>1, <1>6, BrowserType DEF submitAccessRequest, RequestAccess
<1>7. CASE close
  <2>1. screen' \in Screen /\ screen'.dialog = "none"
    BY <1>1, <1>7 DEF close, Screen
  <2> QED BY <1>1, <1>7, <2>1, BrowserType DEF close
<1>8. CASE performAccessRequest
  <2>1. /\ screen' \in Screen /\ screen'.at = screen.at
        /\ screen'.dialog # "none" => screen.dialog # "none"
    BY <1>1, <1>8 DEF performAccessRequest, Screen
  <2>2. load' \in Load
    BY <1>1, <1>2, <1>8 DEF performAccessRequest
  <2> QED BY <1>1, <1>8, <2>1, <2>2, BrowserType DEF performAccessRequest
<1> QED BY <1>3, <1>4, <1>5, <1>6, <1>7, <1>8

LEMMA NextType == IndexTypeOK /\ [IndexNext]_indexVars => IndexTypeOK'
<1> SUFFICES ASSUME IndexTypeOK, [IndexNext]_indexVars PROVE IndexTypeOK'
  OBVIOUS
<1>1. CASE UNCHANGED indexVars
  BY <1>1 DEF indexVars, IndexTypeOK
<1> QED BY <1>1, ServerType, ServeType, ClickType, PageType DEF IndexNext

\* The tool, the cache and the page keep their types, and a dialog is open over
\* the index only.
THEOREM IndexTypeCorrect == IndexSpec => []IndexTypeOK
BY InitType, NextType, PTL DEF IndexSpec

---------------------------------------------------------------------------
(* The cache                                                               *)

\* What is touched has no cached card; what is not, has changed silently.
LEMMA FlushedIsCurrent == ASSUME flush_cached_version PROVE CacheIsCurrent'
BY DEF flush_cached_version, CacheIsCurrent

LEMMA UnflushedIsSilent == ASSUME Unflushed PROVE CacheIsCurrent'
BY DEF Unflushed, CacheIsCurrent

LEMMA ServedIsCurrent == ASSUME CacheIsCurrent, ServeIndex PROVE CacheIsCurrent'
<1>1. Card' = Card /\ silent' = silent
  BY CardDependsOnTool DEF ServeIndex
<1>2. CASE kind = "assessment" /\ cache # Uncached
  BY <1>1, <1>2 DEF ServeIndex, CacheIsCurrent
<1>3. CASE ~(kind = "assessment" /\ cache # Uncached)
  BY <1>1, <1>3 DEF ServeIndex, CacheIsCurrent
<1> QED BY <1>2, <1>3

LEMMA UntouchedIsCurrent ==
    ASSUME CacheIsCurrent, UNCHANGED <<kind, user, tool, cache, silent>>
    PROVE  CacheIsCurrent'
BY CardDependsOnTool DEF CacheIsCurrent

LEMMA NextCurrent == CacheIsCurrent /\ [IndexNext]_indexVars => CacheIsCurrent'
<1> SUFFICES ASSUME CacheIsCurrent, [IndexNext]_indexVars PROVE CacheIsCurrent'
  OBVIOUS
<1>1. CASE Assign \/ OthersRespond \/ AddParticipant \/ AddUser \/ ConsensusCreated
             \/ ConsensusSubmitted \/ ScoreSaved \/ CreateResponse \/ SubmitResponse
  BY <1>1, FlushedIsCurrent DEF Assign, OthersRespond, AddParticipant, AddUser,
     ConsensusCreated, ConsensusSubmitted, ScoreSaved, CreateResponse, SubmitResponse
<1>2. CASE RemoveUser \/ grant_facilitator \/ grant_network_partner \/ revoke_level \/ deny
             \/ request_access
  BY <1>2, UnflushedIsSilent DEF RemoveUser, grant_facilitator, grant_network_partner,
     revoke_level, deny, request_access
<1>3. CASE ServeIndex
  BY <1>3, ServedIsCurrent
<1>4. CASE Refuse \/ Visit \/ Loaded \/ Click \/ redirectToCreateConsensus
             \/ submitAccessRequest \/ close \/ performAccessRequest \/ UNCHANGED indexVars
  BY <1>4, UntouchedIsCurrent DEF Refuse, Visit, Loaded, Click, redirectToCreateConsensus,
     submitAccessRequest, close, performAccessRequest, indexVars
<1> QED BY <1>1, <1>2, <1>3, <1>4 DEF IndexNext

\* However requests, clicks and changes interleave, a card taken from the cache
\* is the card of now, but for access given, taken or asked for.
THEOREM CacheStaysCurrent == IndexSpec => []CacheIsCurrent
<1>1. IndexInit => CacheIsCurrent
  BY DEF IndexInit, CacheIsCurrent
<1> QED BY <1>1, NextCurrent, PTL DEF IndexSpec

---------------------------------------------------------------------------
(* The links                                                               *)

LEMMA CardOpens ==
    ASSUME IndexTypeOK
    PROVE  /\ \A l \in Card.links :
                  Opens(l.type) \/ (l = Survey /\ tool.facil /\ ~user.owner)
           /\ Card.entry = "response" => Card.responses
           /\ Card.entry = "consensus" => Card.consensus
<1>1. Card.links = Links /\ Card.consensus = (tool.consensus # "none")
  BY DEF Card
<1>2. /\ Card.entry = (IF kind = "assessment" THEN response_link ELSE "none")
      /\ Card.responses = (kind = "assessment" /\ tool.part /\ tool.mine # "none")
  BY DEF Card
<1>3. Card.entry = "response" => Card.responses
  BY <1>2 DEF response_link
<1>4. Card.entry = "consensus" => Card.consensus
  BY <1>1, <1>2 DEF response_link, fully_complete
<1>5. ASSUME NEW l \in Links
      PROVE  Opens(l.type) \/ (l = Survey /\ tool.facil /\ ~user.owner)
  <2>0. kind \in {"assessment", "inventory", "analysis"}
    BY DEF IndexTypeOK
  <2>1. status = "consensus" => kind = "analysis" \/ tool.consensus # "none"
    BY DEF status
  <2>2. /\ Opens("dashboard") /\ Opens("report") /\ Opens("pending") /\ Opens("request_access")
        /\ facilitator => Opens("finish") /\ Opens("new_consensus")
        /\ tool.part => Opens("response")
        /\ kind = "analysis" \/ tool.consensus # "none" => Opens("consensus")
    BY DEF Opens
  <2>3. facilitator => Opens(ConsensusLink.type)
    BY <2>1, <2>2 DEF ConsensusLink, Link
  <2>4. /\ Finish.type = "finish" /\ Dashboard.type = "dashboard"
        /\ Survey.type = "response" /\ Report.type = "report"
        /\ \A title, type : Link(title, type).type = type
    BY DEF Finish, Dashboard, Survey, Report, Link
  <2>5. CASE facilitator /\ l \in Facilitator
    <3>1. \/ l \in {Finish, ConsensusLink, Report, Dashboard}
          \/ l = Survey /\ OwnerParticipates
      BY <2>5 DEF Facilitator
    <3>2. OwnerParticipates => tool.part \/ (tool.facil /\ ~user.owner)
      BY <2>5 DEF OwnerParticipates, facilitator, IndexTypeOK
    <3> QED BY <2>2, <2>3, <2>4, <2>5, <3>1, <3>2
  <2>6. CASE tool.part /\ l \in Participant
    <3>1. \/ l \in {Survey, Report, Link("Edit Survey", "response")}
          \/ l = Link("Consensus", "consensus") /\ fully_complete
      BY <2>6 DEF Participant
    <3>2. l.type \in {"response", "report"} \/ (l.type = "consensus" /\ tool.consensus # "none")
      BY <2>4, <3>1, ZenonT(60) DEF fully_complete
    <3> QED BY <2>2, <2>6, <3>2
  <2>7. CASE l \in Partner
    <3>1. l.type \in {"pending", "request_access"}
      BY <2>4, <2>7, ZenonT(60) DEF Partner
    <3> QED BY <2>2, <3>1
  <2>8. CASE tool.facil /\ l \in InventoryFacilitator \cup AnalysisFacilitator
    <3>1. facilitator /\ l \in {Finish, Dashboard, Report, ConsensusLink}
      BY <2>8 DEF facilitator, InventoryFacilitator, AnalysisFacilitator
    <3> QED BY <2>2, <2>3, <2>4, <3>1
  <2>9. CASE l \in InventoryMember \cup AnalysisParticipant
    <3>1. l \in {Dashboard, Report}
      BY <2>9 DEF InventoryMember, AnalysisParticipant
    <3> QED BY <2>2, <2>4, <3>1
  <2> QED BY <1>5, <2>5, <2>6, <2>7, <2>8, <2>9 DEF Links
<1> QED BY <1>1, <1>3, <1>4, <1>5

\* A card that is up to date, cached or not, links to pages that open.
THEOREM LinksAlwaysOpen == IndexSpec => []LinksOpen
<1>1. IndexTypeOK /\ CacheIsCurrent => LinksOpen
  BY CardOpens DEF LinksOpen, EntryLeads, CacheIsCurrent
<1> QED BY <1>1, IndexTypeCorrect, CacheStaysCurrent, PTL

---------------------------------------------------------------------------
(* ToolSetup.                                                              *)

\* What the body of a request holds.
Sound(k, body) ==
    /\ body.district \in Districts \cup {None}
    /\ k = "save" => body.deadline \in Dates /\ body.assign \in BOOLEAN
    /\ k = "schedule" => body.deadline \in Dates
    /\ k = "create" => body.deadline \in Dates /\ body.inventory \in Inventories \cup {None}

\* What a request is.
Known(r) ==
    /\ r = [kind |-> r.kind, tool |-> r.tool, body |-> r.body, status |-> r.status, n |-> r.n]
    /\ r.kind \in {"create", "save", "schedule"} /\ r.tool \in Tools
    /\ r.status \in {"sent", "ok", "failed"}
    /\ Sound(r.kind, r.body)

\* The page is about a tool, and the dialog of a deadline is on a dashboard.
Placed ==
    /\ page.at \in {"assign", "dashboard"} => page.tool \in Tools
    /\ dialog.kind = "schedule" => page.at = "dashboard"

TypeInv ==
    /\ TypeOK /\ Placed
    /\ \A r \in net : Known(r)
    /\ offered \in [Tools -> SUBSET (Districts \cup {None})]
    /\ dated \in [Tools -> SUBSET (Dates \cup {None})]

---------------------------------------------------------------------------
(* Type correctness                                                        *)

LEMMA InitTypeInv == Init => TypeInv
<1> SUFFICES ASSUME Init PROVE TypeInv
  OBVIOUS
<1>1. NoDialog.kind # "schedule" /\ NoDialog.kind \in {None, "create", "schedule"}
      /\ NoDialog.tool \in Tools \cup {None}
  BY ConstantsOK DEF ConstantsOK, NoDialog
<1>2. Index \in Page /\ Index.at = "index"
  BY DEF Index, Page
<1>3. PICK made \in SUBSET Made :
            \E where \in [made -> Elsewhere], when \in [made -> Dates] : Standing(made, where, when)
  BY DEF Init
<1>3a. PICK where \in [made -> Elsewhere], when \in [made -> Dates] :
            Standing(made, where, when)
  BY <1>3
<1>4. \A t \in made : where[t] \in Districts /\ when[t] \in Dates
  BY <1>3, ConstantsOK DEF ConstantsOK
<1>5. tools \in [Tools -> Row] /\ dated \in [Tools -> SUBSET (Dates \cup {None})]
  BY <1>3a, <1>4 DEF Standing, Row
<1> QED BY <1>1, <1>2, <1>5 DEF Init, TypeInv, TypeOK, Placed

\* A request that is sent joins those under way.
LEMMA SentType ==
    ASSUME TypeInv, NEW k \in {"create", "save", "schedule"}, NEW t \in Tools, NEW body,
           Send(k, t, body), Sound(k, body)
    PROVE  /\ \A r \in net' : Known(r)
           /\ \E r : /\ net' = net \cup {r} /\ r.kind = k /\ r.tool = t /\ r.body = body
                     /\ r.status = "sent"
<1> DEFINE q == [kind |-> k, tool |-> t, body |-> body, status |-> "sent",
                 n |-> CHOOSE n \in 1..(Cardinality(net) + 1) : \A r \in net : r.n # n]
<1>1. net' = net \cup {q}
  BY DEF Send
<1>2. /\ q.kind = k /\ q.tool = t /\ q.body = body /\ q.status = "sent"
      /\ q = [kind |-> q.kind, tool |-> q.tool, body |-> q.body, status |-> q.status, n |-> q.n]
  OBVIOUS
<1> HIDE DEF q
<1>3. Known(q)
  BY <1>2 DEF Known
<1> QED BY <1>1, <1>2, <1>3 DEF TypeInv

LEMMA ShownType ==
    ASSUME TypeInv, NEW t \in Tools, ShowAssign(t)
    PROVE  /\ page' \in Page /\ page'.at = "assign" /\ page'.tool = t
           /\ page'.assign = FALSE /\ page'.saving = FALSE /\ page'.alerts = {}
           /\ service' \in Districts
           /\ offered' \in [Tools -> SUBSET (Districts \cup {None})]
           /\ mixed' \in BOOLEAN
<1>1. tools[t] \in Row
  BY DEF TypeInv, TypeOK
<1>2. page' = [at |-> "assign", tool |-> t, district |-> None, deadline |-> None,
               assign |-> FALSE, saving |-> FALSE, alerts |-> {}]
  BY DEF ShowAssign, AssignPage, Index
<1>3. service' \in Districts
  BY ConstantsOK DEF ConstantsOK, ShowAssign, extractCurrentDistrict
<1>4. tools[t].district \in Districts \cup {None}
  BY <1>1 DEF Row
<1>5. offered' = [offered EXCEPT ![t] = @ \cup {tools[t].district, service'}]
  BY DEF ShowAssign
<1>6. offered' \in [Tools -> SUBSET (Districts \cup {None})]
  BY <1>3, <1>4, <1>5 DEF TypeInv
<1> QED BY <1>2, <1>3, <1>6 DEF ShowAssign, Page

\* Serving a request: the answered one takes its place.
LEMMA ServedType ==
    ASSUME TypeInv, NEW r \in net, NEW st \in {"ok", "failed"},
           net' = (net \ {r}) \cup {[r EXCEPT !.status = st]}
    PROVE  /\ \A q \in net' : Known(q)
           /\ \E a : /\ net' = (net \ {r}) \cup {a} /\ a.kind = r.kind /\ a.tool = r.tool
                     /\ a.body = r.body /\ a.status = st
<1> DEFINE a == [r EXCEPT !.status = st]
<1>1. Known(r)
  BY DEF TypeInv
<1>2. a = [kind |-> r.kind, tool |-> r.tool, body |-> r.body, status |-> st, n |-> r.n]
  BY <1>1 DEF Known
<1>3. /\ a.kind = r.kind /\ a.tool = r.tool /\ a.body = r.body /\ a.status = st /\ a.n = r.n
  BY <1>2
<1>4. a = [kind |-> a.kind, tool |-> a.tool, body |-> a.body, status |-> a.status, n |-> a.n]
  BY <1>2, <1>3
<1>5. net' = (net \ {r}) \cup {a}
  OBVIOUS
<1> HIDE DEF a
<1>6. Known(a)
  BY <1>1, <1>3, <1>4 DEF Known
<1> QED BY <1>3, <1>5, <1>6 DEF TypeInv

LEMMA AppliedType ==
    ASSUME TypeInv, NEW r \in net, Apply(r)
    PROVE  /\ tools' \in [Tools -> Row] /\ dated' \in [Tools -> SUBSET (Dates \cup {None})]
<1>1. Known(r) /\ r.tool \in Tools
  BY DEF TypeInv, Known
<1>2. tools[r.tool] \in Row /\ tools \in [Tools -> Row]
  BY <1>1 DEF TypeInv, TypeOK
<1>3. Sound(r.kind, r.body) /\ r.kind \in {"create", "save", "schedule"}
  BY <1>1 DEF Known
<1> DEFINE district == IF r.tool \in Analyses THEN tools[r.tool].district ELSE r.body.district
<1>4. district \in Districts \cup {None} /\ r.body.deadline \in Dates
  BY <1>2, <1>3 DEF Sound, Row
<1> HIDE DEF district
<1>5. ASSUME r.kind = "create" PROVE tools' \in [Tools -> Row]
  <2>1. tools' = [tools EXCEPT ![r.tool].exists = TRUE, ![r.tool].district = r.body.district,
                               ![r.tool].inventory = r.body.inventory,
                               ![r.tool].deadline = r.body.deadline]
    BY <1>5 DEF Apply
  <2>2. /\ r.body.district \in Districts \cup {None} /\ r.body.deadline \in Dates
        /\ r.body.inventory \in Inventories \cup {None}
    BY <1>3, <1>5 DEF Sound
  <2>3. [tools[r.tool] EXCEPT !.exists = TRUE, !.district = r.body.district,
                              !.inventory = r.body.inventory,
                              !.deadline = r.body.deadline] \in Row
    BY <1>2, <2>2 DEF Row
  <2> QED BY <1>1, <1>2, <2>1, <2>3
<1>6. ASSUME r.kind = "save" PROVE tools' \in [Tools -> Row]
  <2>1. tools' = [tools EXCEPT ![r.tool].district = district,
                               ![r.tool].deadline = r.body.deadline,
                               ![r.tool].assigned = @ \/ r.body.assign]
    BY <1>6 DEF Apply, district
  <2>2. (tools[r.tool].assigned \/ r.body.assign) \in BOOLEAN
    BY <1>2, <1>3, <1>6 DEF Sound, Row
  <2>3. [tools[r.tool] EXCEPT !.district = district, !.deadline = r.body.deadline,
                              !.assigned = @ \/ r.body.assign] \in Row
    BY <1>2, <1>4, <2>2 DEF Row
  <2> QED BY <1>1, <1>2, <2>1, <2>3
<1>7. ASSUME r.kind = "schedule" PROVE tools' \in [Tools -> Row]
  <2>1. tools' = [tools EXCEPT ![r.tool].district = district,
                               ![r.tool].deadline = r.body.deadline]
    BY <1>7 DEF Apply, district
  <2>3. [tools[r.tool] EXCEPT !.district = district, !.deadline = r.body.deadline] \in Row
    BY <1>2, <1>4 DEF Row
  <2> QED BY <1>1, <1>2, <2>1, <2>3
<1>8. tools' \in [Tools -> Row]
  BY <1>3, <1>5, <1>6, <1>7
<1>9. tools'[r.tool].deadline \in Dates \cup {None}
  BY <1>1, <1>8 DEF Row
<1> QED BY <1>1, <1>8, <1>9 DEF Apply, TypeInv

LEMMA NextTypeInv == TypeInv /\ [Next]_vars => TypeInv'
<1> SUFFICES ASSUME TypeInv, [Next]_vars PROVE TypeInv'
  OBVIOUS
<1>0. /\ NoDialog.kind # "schedule" /\ NoDialog.kind \in {None, "create", "schedule"}
      /\ NoDialog.tool \in Tools \cup {None}
      /\ Index \in Page /\ Index.at = "index"
  BY ConstantsOK DEF ConstantsOK, NoDialog, Index, Page
<1> USE DEF TypeInv, TypeOK, Placed
<1>1. ASSUME NEW t \in Tools, OpenAssign(t) PROVE TypeInv'
  BY <1>0, <1>1, ShownType DEF OpenAssign
<1>2. ASSUME NEW t \in Tools, OpenDashboard(t) PROVE TypeInv'
  <2>1. page' = [at |-> "dashboard", tool |-> t, district |-> tools[t].district,
                 deadline |-> tools[t].deadline, assign |-> FALSE, saving |-> FALSE, alerts |-> {}]
    BY <1>2 DEF OpenDashboard, Index
  <2>2. tools[t].district \in Districts \cup {None} /\ tools[t].deadline \in Dates \cup {None}
    BY DEF Row
  <2>3. page' \in Page /\ page'.at = "dashboard" /\ page'.tool = t
    BY <2>1, <2>2 DEF Page
  <2>4. offered' \in [Tools -> SUBSET (Districts \cup {None})]
    BY <1>2, <2>2 DEF OpenDashboard
  <2> QED BY <1>0, <1>2, <2>3, <2>4 DEF OpenDashboard
<1>3. ASSUME NEW t \in Tools, OpenCreate(t) PROVE TypeInv'
  BY <1>3 DEF OpenCreate
<1>4. ASSUME NEW t \in Tools, NEW body, Sound("create", body), Create(t, body)
      PROVE  TypeInv'
  <2>1. \A r \in net' : Known(r)
    BY <1>4, SentType DEF Create
  <2> QED BY <1>4, <2>1 DEF Create, Known
<1>5. ASSUME NEW t \in Tools, NEW d \in Districts \cup {None}, NEW i \in Inventories \cup {None},
             NEW date \in Dates, Create(t, [district |-> d, inventory |-> i, deadline |-> date])
      PROVE  TypeInv'
  <2> DEFINE body == [district |-> d, inventory |-> i, deadline |-> date]
  <2>1. Sound("create", body)
    BY DEF Sound
  <2> HIDE DEF body
  <2> QED BY <1>4, <1>5, <2>1 DEF body
<1>7. ASSUME NEW date \in Dates, MoveDeadline(date) PROVE TypeInv'
  <2> DEFINE body == [district |-> page.district, deadline |-> date]
  <2>1. page.tool \in Tools /\ Sound("schedule", body) /\ Send("schedule", page.tool, body)
    BY <1>7 DEF MoveDeadline, Sound, Page
  <2> HIDE DEF body
  <2>2. \A r \in net' : Known(r)
    BY <2>1, SentType
  <2>3. page' \in Page /\ page'.tool = page.tool /\ page'.at = page.at
    BY <1>7 DEF MoveDeadline, Page
  <2> QED BY <1>7, <2>2, <2>3 DEF MoveDeadline, Known
<1>8. CASE GoIndex
  BY <1>0, <1>8 DEF GoIndex
<1>9. CASE CloseDialog
  BY <1>0, <1>9 DEF CloseDialog
<1>10. CASE OpenSchedule
  <2>1. dialog'.kind = "schedule" /\ dialog'.tool = page.tool /\ page.tool \in Tools
    BY <1>10 DEF OpenSchedule
  <2> QED BY <1>10, <2>1 DEF OpenSchedule
<1>11. ASSUME NEW assign \in BOOLEAN, NEW leaves \in BOOLEAN, NEW d \in Districts \cup {None},
              NEW date \in Dates, OnAssign, Save(assign, leaves, d, date)
       PROVE  /\ \A r \in net' : Known(r)
              /\ page' \in Page /\ page'.tool = page.tool /\ page'.at = page.at /\ mixed' \in BOOLEAN
  <2> DEFINE body == [district |-> d, deadline |-> date,
                      assign |-> page.assign \/ assign, leaves |-> leaves]
  <2>1. page.tool \in Tools /\ page.assign \in BOOLEAN
    BY <1>11 DEF OnAssign, Page
  <2>2. Sound("save", body)
    BY <2>1 DEF Sound
  <2>3. Send("save", page.tool, body)
    BY <1>11 DEF Save
  <2> HIDE DEF body
  <2>4. \A r \in net' : Known(r)
    BY <2>1, <2>2, <2>3, SentType
  <2>5. page' \in Page /\ page'.tool = page.tool /\ page'.at = page.at
    BY <1>11 DEF Save, Page
  <2> QED BY <1>11, <2>4, <2>5 DEF Save
<1>12. ASSUME NEW d \in MyDistricts, NEW date \in Dates, Update(d, date) PROVE TypeInv'
  <2>1. OnAssign /\ page.tool \in Tools /\ service' \in Districts \cup {None}
    BY <1>12, ConstantsOK DEF ConstantsOK, Update, OnAssign
  <2>2. Save(FALSE, FALSE, service', date)
    BY <1>12 DEF Update
  <2>3. offered' \in [Tools -> SUBSET (Districts \cup {None})]
    BY <1>12, <2>1 DEF Update
  <2>4. /\ \A r \in net' : Known(r)
        /\ page' \in Page /\ page'.tool = page.tool /\ page'.at = page.at /\ mixed' \in BOOLEAN
    BY <1>11, <2>1, <2>2
  <2> QED BY <1>12, <2>1, <2>3, <2>4 DEF Update, Known
<1>13. ASSUME NEW date \in Dates, SaveMessage(date) PROVE TypeInv'
  BY <1>11, <1>13 DEF SaveMessage, Known
<1>14. ASSUME NEW date \in Dates, AssignAndSave(date) PROVE TypeInv'
  <2>1. page.tool \in Tools
    BY <1>14 DEF AssignAndSave, OnAssign
  <2> QED BY <1>11, <1>14, <2>1 DEF AssignAndSave, Known
<1>15. ASSUME NEW r \in net, Created(r) PROVE TypeInv'
  <2>1. r.tool \in Tools
    BY DEF Known
  <2>2. CASE r.status = "ok"
    BY <1>0, <1>15, <2>1, <2>2, ShownType DEF Created
  <2>3. CASE r.status # "ok"
    BY <1>15, <2>3 DEF Created
  <2> QED BY <2>2, <2>3
<1>16. ASSUME NEW r \in net, Saved(r) PROVE TypeInv'
  <2>1. r.tool \in Tools
    BY DEF Known
  <2>2. page' \in Page /\ page'.at \in {"index", page.at} /\ (page'.at # "index" => page'.tool = page.tool)
    BY <1>0, <1>16, <2>1, ZenonT(60) DEF Saved, Page
  <2>3. dialog' = dialog \/ dialog' = NoDialog
    BY <1>16 DEF Saved
  <2>4. dialog'.kind = "schedule" => page' = page
    BY <1>0, <1>16 DEF Saved
  <2> QED BY <1>0, <1>16, <2>2, <2>3, <2>4 DEF Saved
<1>17. ASSUME NEW r \in net, Moved(r) PROVE TypeInv'
  <2>1. r.kind = "schedule" /\ r.body.deadline \in Dates
    BY <1>17 DEF Moved, Known, Sound
  <2>2. page' \in Page /\ page'.at = page.at /\ page'.tool = page.tool
    BY <1>17, <2>1 DEF Moved, Page
  <2>3. dialog' = dialog \/ dialog' = NoDialog
    BY <1>17 DEF Moved
  <2> QED BY <1>0, <1>17, <2>2, <2>3 DEF Moved
<1>18. ASSUME NEW r \in net, Serve(r) PROVE TypeInv'
  <2>1. \A q \in net' : Known(q)
    BY <1>18, ServedType DEF Serve
  <2>2. tools' \in [Tools -> Row] /\ dated' \in [Tools -> SUBSET (Dates \cup {None})]
    BY <1>18, AppliedType, SMTT(30) DEF Serve
  <2> QED BY <1>18, <2>1, <2>2 DEF Serve, Known
<1>19. CASE UNCHANGED vars
  BY <1>19 DEF vars
<1> QED
  BY <1>1, <1>2, <1>3, <1>5, <1>7, <1>8, <1>9, <1>10, <1>12, <1>13, <1>14, <1>15,
     <1>16, <1>17, <1>18, <1>19, ConstantsOK
     DEF Next, ConstantsOK, CreateAssessment, CreateInventory, CreateAnalysis

THEOREM TypeCorrect == Spec => []TypeOK
<1>1. Spec => []TypeInv
  BY InitTypeInv, NextTypeInv, PTL DEF Spec
<1>2. TypeInv => TypeOK
  BY DEF TypeInv
<1> QED BY <1>1, <1>2, PTL

---------------------------------------------------------------------------
(* The inductive invariant                                                 *)

\* A tool is created once, also when the answer is lost, and everything else is
\* about tools that exist.
Lifecycle ==
    /\ \A t \in Tools : offered[t] # {} => tools[t].exists
    /\ \A r \in net : r.kind = "create" /\ r.status = "sent" => ~tools[r.tool].exists
    /\ \A r \in net : r.kind # "create" \/ r.status = "ok" => tools[r.tool].exists
    /\ \A r, q \in net : r.kind = "create" /\ q.kind = "create" /\ r.tool = q.tool => r = q
    /\ page.at \in {"assign", "dashboard"} => tools[page.tool].exists

\* The service, the dashboard and the requests hold districts that a page of their
\* tool was loaded with or had selected.
Offers ==
    /\ DistrictWasOffered
    /\ page.at = "assign" => service \in offered[page.tool]
    /\ page.at = "dashboard" => page.district \in offered[page.tool]
    /\ \A r \in net : r.kind \in {"save", "schedule"} => r.body.district \in offered[r.tool]

\* The assign attribute of the model and of a request comes from the user.
Confirms ==
    /\ AssignedWhenConfirmed
    /\ page.at = "assign" /\ page.assign => page.tool \in confirmed
    /\ \A r \in net : r.kind = "save" /\ r.body.assign => r.tool \in confirmed

\* A deadline that was accepted is one the tool has had.
Dated ==
    /\ ScheduleWasSaved
    /\ \A t \in Tools : tools[t].exists => tools[t].deadline \in dated[t]
    /\ \A r \in net : r.kind = "schedule" /\ r.status = "ok" => r.body.deadline \in dated[r.tool]

\* Unless saves were mixed, one at most is under way, and it is the page's.
Reports ==
    page.at = "assign" /\ ~mixed =>
        /\ \A r \in net : r.kind = "save" => r.tool = page.tool
        /\ \A r, q \in net : r.kind = "save" /\ q.kind = "save" => r = q
        /\ page.saving = (\E r \in net : r.kind = "save")
        /\ page.alerts \subseteq {page.tool}

IInv == Lifecycle /\ Offers /\ Confirms /\ Dated /\ Reports

LEMMA InitIInv == Init => IInv
<1> SUFFICES ASSUME Init PROVE IInv
  OBVIOUS
<1>1. page.at = "index" /\ net = {}
  BY DEF Init, Index
<1>2. PICK made \in SUBSET Made :
            \E where \in [made -> Elsewhere], when \in [made -> Dates] : Standing(made, where, when)
  BY DEF Init
<1>2a. PICK where \in [made -> Elsewhere], when \in [made -> Dates] :
            Standing(made, where, when)
  BY <1>2
<1>3. \A t \in Tools : ~tools[t].assigned /\ offered[t] = {}
  BY <1>2a DEF Init, Standing
<1>4. \A t \in Tools : tools[t].exists => tools[t].deadline \in dated[t]
  BY <1>2a DEF Standing
<1> QED
  BY <1>1, <1>3, <1>4 DEF IInv, Lifecycle, Offers, Confirms, Dated, Reports, DistrictWasOffered,
                    AssignedWhenConfirmed, ScheduleWasSaved

LEMMA NextIInv == TypeInv /\ TypeInv' /\ IInv /\ [Next]_vars => IInv'
<1> SUFFICES ASSUME TypeInv, TypeInv', IInv, [Next]_vars PROVE IInv'
  OBVIOUS
<1> USE DEF IInv, DistrictWasOffered, AssignedWhenConfirmed, ScheduleWasSaved
<1>0. /\ tools \in [Tools -> Row] /\ tools' \in [Tools -> Row]
      /\ page \in Page /\ page' \in Page
      /\ offered \in [Tools -> SUBSET (Districts \cup {None})]
      /\ dated \in [Tools -> SUBSET (Dates \cup {None})]
      /\ \A r \in net : r.tool \in Tools
      /\ page.at \in {"assign", "dashboard"} => page.tool \in Tools
      /\ Index.at = "index" /\ mixed \in BOOLEAN /\ confirmed \subseteq Tools
      /\ page.saving \in BOOLEAN
  BY DEF TypeInv, TypeOK, Placed, Known, Index, Page
<1>1. ASSUME NEW t \in Tools, tools[t].exists, ShowAssign(t), net' \subseteq net,
             tools' = tools, dated' = dated, confirmed' = confirmed,
             \A r \in net : r.kind = "save" => r \in net'
      PROVE  IInv'
  <2>1. /\ page'.at = "assign" /\ page'.tool = t
        /\ page'.assign = FALSE /\ page'.saving = FALSE /\ page'.alerts = {}
    BY <1>1, ShownType
  <2>2. /\ offered' = [offered EXCEPT ![t] = @ \cup {tools[t].district, service'}]
        /\ mixed' = \E r \in net : r.kind = "save"
    BY <1>1 DEF ShowAssign
  <2>3. Lifecycle'
    BY <1>0, <1>1, <2>1, <2>2 DEF Lifecycle
  <2>4. Offers'
    BY <1>0, <1>1, <2>1, <2>2 DEF Offers
  <2>5. Confirms'
    BY <1>0, <1>1, <2>1, <2>2 DEF Confirms
  <2>6. Dated'
    BY <1>0, <1>1, <2>1, <2>2 DEF Dated
  <2>7. Reports'
    BY <1>0, <1>1, <2>1, <2>2 DEF Reports
  <2> QED BY <2>3, <2>4, <2>5, <2>6, <2>7
<1>2. ASSUME NEW t \in Tools, OpenAssign(t) PROVE IInv'
  BY <1>1, <1>2 DEF OpenAssign
<1>3. ASSUME NEW t \in Tools, OpenDashboard(t) PROVE IInv'
  <2>1. /\ page'.at = "dashboard" /\ page'.tool = t /\ page'.district = tools[t].district
        /\ page'.deadline = tools[t].deadline
        /\ tools[t].exists
        /\ offered' = [offered EXCEPT ![t] = @ \cup {tools[t].district}]
        /\ UNCHANGED <<tools, service, net, dated, confirmed, mixed>>
    BY <1>3 DEF OpenDashboard, Index
  <2>2. Lifecycle'
    BY <1>0, <2>1 DEF Lifecycle
  <2>3. Offers'
    BY <1>0, <2>1 DEF Offers
  <2>4. Confirms' /\ Dated' /\ Reports'
    BY <1>0, <2>1 DEF Confirms, Dated, Reports
  <2> QED BY <2>2, <2>3, <2>4
<1>4. ASSUME page' = page \/ page'.at = "index",
             UNCHANGED <<tools, service, net, offered, dated, confirmed, mixed>>
      PROVE  IInv'
  BY <1>0, <1>4 DEF Lifecycle, Offers, Confirms, Dated, Reports
<1>5. ASSUME NEW t \in Tools, NEW body, Sound("create", body), Create(t, body)
      PROVE  IInv'
  <2>1. Send("create", t, body) /\ New(t)
        /\ UNCHANGED <<tools, service, page, offered, dated, confirmed, mixed>>
    BY <1>5 DEF Create
  <2>3. PICK r : net' = net \cup {r} /\ r.kind = "create" /\ r.tool = t /\ r.status = "sent"
    BY <1>5, <2>1, SentType
  <2>4. ~tools[t].exists /\ \A q \in net : q.tool # t
    BY <2>1 DEF New
  <2>5. Lifecycle'
    BY <1>0, <2>1, <2>3, <2>4 DEF Lifecycle
  <2>6. Offers' /\ Confirms' /\ Dated'
    BY <1>0, <2>1, <2>3 DEF Offers, Confirms, Dated
  <2>7. Reports'
    BY <1>0, <2>1, <2>3 DEF Reports
  <2> QED BY <2>5, <2>6, <2>7
<1>6. ASSUME NEW t \in Tools, NEW d \in Districts \cup {None}, NEW i \in Inventories \cup {None},
             NEW date \in Dates, Create(t, [district |-> d, inventory |-> i, deadline |-> date])
      PROVE  IInv'
  <2> DEFINE body == [district |-> d, inventory |-> i, deadline |-> date]
  <2>1. Sound("create", body)
    BY DEF Sound
  <2> HIDE DEF body
  <2> QED BY <1>5, <1>6, <2>1 DEF body
<1>8. ASSUME NEW date \in Dates, MoveDeadline(date) PROVE IInv'
  <2> DEFINE body == [district |-> page.district, deadline |-> date]
  <2>1. /\ page.at = "dashboard" /\ page.tool \in Tools
        /\ Send("schedule", page.tool, body)
        /\ UNCHANGED <<tools, service, offered, dated, confirmed, mixed>>
    BY <1>8 DEF MoveDeadline, TypeInv, Placed
  <2>2. /\ page'.at = "dashboard" /\ page'.tool = page.tool /\ page'.district = page.district
        /\ page.tool \in Assessments => page' = page
    BY <1>0, <1>8, <2>1 DEF MoveDeadline, Page
  <2>3. Sound("schedule", body) /\ body.district \in offered[page.tool]
    BY <1>0, <2>1 DEF Sound, Page, Offers
  <2> HIDE DEF body
  <2>4. PICK r : /\ net' = net \cup {r} /\ r.kind = "schedule" /\ r.tool = page.tool
                 /\ r.body = body /\ r.status = "sent"
    BY <2>1, <2>3, SentType
  <2>5. Lifecycle'
    BY <1>0, <2>1, <2>2, <2>4 DEF Lifecycle
  <2>6. Offers' /\ Confirms' /\ Reports'
    BY <1>0, <2>1, <2>2, <2>3, <2>4 DEF Offers, Confirms, Reports
  <2>7. Dated'
    BY <1>0, <2>1, <2>2, <2>4 DEF Dated
  <2> QED BY <2>5, <2>6, <2>7
<1>9. ASSUME NEW assign \in BOOLEAN, NEW leaves \in BOOLEAN, NEW d \in Districts \cup {None},
             NEW date \in Dates, OnAssign, Save(assign, leaves, d, date),
             service' = d, UNCHANGED <<tools, dated>>,
             offered' = [offered EXCEPT ![page.tool] = @ \cup {d}],
             confirmed \subseteq confirmed', assign => page.tool \in confirmed'
      PROVE  IInv'
  <2> DEFINE body == [district |-> d, deadline |-> date,
                      assign |-> page.assign \/ assign, leaves |-> leaves]
  <2>1. page.at = "assign" /\ page.tool \in Tools /\ page.assign \in BOOLEAN
    BY <1>0, <1>9 DEF OnAssign, Page
  <2>2. /\ Send("save", page.tool, body)
        /\ page' = [page EXCEPT !.saving = ~@, !.assign = @ \/ assign]
        /\ mixed' = (mixed \/ \E r \in net : r.kind = "save")
    BY <1>9 DEF Save
  <2>3. /\ page'.at = "assign" /\ page'.tool = page.tool
        /\ page'.assign = (page.assign \/ assign) /\ page'.saving = ~page.saving
        /\ page'.alerts = page.alerts
    BY <1>0, <2>1, <2>2 DEF Page
  <2>4. /\ Sound("save", body) /\ body.district = d
        /\ body.assign = (page.assign \/ assign)
    BY <2>1 DEF Sound
  <2> HIDE DEF body
  <2>5. PICK r : net' = net \cup {r} /\ r.kind = "save" /\ r.tool = page.tool /\ r.body = body
                 /\ r.status = "sent"
    BY <2>1, <2>2, <2>4, SentType
  <2>6. Lifecycle'
    BY <1>0, <1>9, <2>1, <2>3, <2>5 DEF Lifecycle
  <2>7. Offers'
    BY <1>0, <1>9, <2>1, <2>3, <2>4, <2>5 DEF Offers
  <2>8. Confirms'
    BY <1>0, <1>9, <2>1, <2>3, <2>4, <2>5 DEF Confirms
  <2>9. Dated'
    BY <1>0, <1>9, <2>1, <2>3, <2>5 DEF Dated
  <2>10. Reports'
    BY <1>0, <1>9, <2>1, <2>2, <2>3, <2>5 DEF Reports
  <2> QED BY <2>6, <2>7, <2>8, <2>9, <2>10
<1>10. ASSUME NEW d \in MyDistricts, NEW date \in Dates,
              Update(d, date) \/ SaveMessage(date) \/ AssignAndSave(date)
       PROVE  IInv'
  <2>1. OnAssign /\ page.at = "assign" /\ page.tool \in Tools /\ service \in Districts \cup {None}
        /\ service \in offered[page.tool]
    BY <1>0, <1>10 DEF Update, SaveMessage, AssignAndSave, OnAssign, TypeInv, TypeOK, Offers
  <2>2. offered = [offered EXCEPT ![page.tool] = @ \cup {service}]
    BY <1>0, <2>1
  <2>3. service' \in Districts \cup {None}
    BY DEF TypeInv, TypeOK
  <2>4. CASE Update(d, date)
    BY <1>9, <2>1, <2>3, <2>4 DEF Update
  <2>5. CASE SaveMessage(date)
    BY <1>9, <2>1, <2>2, <2>5 DEF SaveMessage
  <2>6. CASE AssignAndSave(date)
    BY <1>9, <2>1, <2>2, <2>6 DEF AssignAndSave
  <2> QED BY <1>10, <2>4, <2>5, <2>6
<1>11. ASSUME NEW r \in net, Created(r) PROVE IInv'
  <2>1. /\ r.kind = "create" /\ r.tool \in Tools /\ net' = net \ {r}
        /\ UNCHANGED <<tools, dated, confirmed>>
    BY <1>0, <1>11 DEF Created
  <2>2. CASE r.status = "ok"
    BY <1>1, <1>11, <2>1, <2>2 DEF Created, Lifecycle
  <2>3. CASE r.status # "ok"
    <3>1. UNCHANGED <<service, page, offered, mixed>>
      BY <1>11, <2>3 DEF Created
    <3>2. Lifecycle'
      BY <1>0, <2>1, <3>1 DEF Lifecycle
    <3>3. Offers' /\ Confirms' /\ Dated'
      BY <1>0, <2>1, <3>1 DEF Offers, Confirms, Dated
    <3>4. Reports'
      BY <1>0, <2>1, <3>1 DEF Reports
    <3> QED BY <3>2, <3>3, <3>4
  <2> QED BY <2>2, <2>3
<1>12. ASSUME NEW r \in net, Saved(r) PROVE IInv'
  <2>1. /\ r.kind = "save" /\ r.tool \in Tools /\ net' = net \ {r}
        /\ UNCHANGED <<tools, service, offered, dated, confirmed, mixed>>
    BY <1>0, <1>12 DEF Saved
  <2>2. \/ page'.at = "index"
        \/ page.at # "assign" /\ page' = page
        \/ /\ page.at = "assign" /\ page'.at = "assign" /\ page'.tool = page.tool
           /\ page'.assign = page.assign
           /\ page'.saving = ~page.saving /\ page'.alerts = page.alerts \cup {r.tool}
    BY <1>0, <1>12 DEF Saved, Page
  <2>3. Lifecycle' /\ Offers' /\ Confirms' /\ Dated'
    BY <1>0, <2>1, <2>2 DEF Lifecycle, Offers, Confirms, Dated
  <2>4. Reports'
    BY <1>0, <2>1, <2>2 DEF Reports
  <2> QED BY <2>3, <2>4
<1>13. ASSUME NEW r \in net, Moved(r) PROVE IInv'
  <2>1. /\ r.kind = "schedule" /\ r.tool \in Tools /\ net' = net \ {r}
        /\ UNCHANGED <<tools, service, offered, dated, confirmed, mixed>>
    BY <1>0, <1>13 DEF Moved
  <2>2. \/ page' = page
        \/ /\ r.status = "ok" /\ page.at = "dashboard" /\ page'.at = "dashboard"
           /\ page.tool = r.tool /\ page'.tool = r.tool
           /\ page'.district = page.district /\ page'.deadline = r.body.deadline
    BY <1>0, <1>13 DEF Moved, Page
  <2>3. Lifecycle'
    BY <1>0, <2>1, <2>2 DEF Lifecycle
  <2>4. Offers'
    BY <1>0, <2>1, <2>2 DEF Offers
  <2>5. Confirms'
    BY <1>0, <2>1, <2>2 DEF Confirms
  <2>6. Dated'
    BY <1>0, <2>1, <2>2 DEF Dated
  <2>7. Reports'
    BY <1>0, <2>1, <2>2 DEF Reports
  <2> QED BY <2>3, <2>4, <2>5, <2>6, <2>7
<1>14. ASSUME NEW r \in net, Serve(r) PROVE IInv'
  <2>1. /\ r.status = "sent" /\ r.tool \in Tools
        /\ UNCHANGED <<service, page, offered, confirmed, mixed>>
    BY <1>0, <1>14 DEF Serve
  <2>0. ASSUME NEW a, net' = (net \ {r}) \cup {a}, a.kind = r.kind, a.tool = r.tool
        PROVE  Reports'
    <3>1. (\E q \in net' : q.kind = "save") <=> (\E q \in net : q.kind = "save")
      BY <2>0
    <3>2. (page.at = "assign" /\ ~mixed) =>
             /\ \A q \in net' : q.kind = "save" => q.tool = page.tool
             /\ \A q, p \in net' : q.kind = "save" /\ p.kind = "save" => q = p
      BY <2>0 DEF Reports
    <3>3. (page.at = "assign" /\ ~mixed) =>
             /\ page.saving = (\E q \in net : q.kind = "save")
             /\ page.alerts \subseteq {page.tool}
      BY DEF Reports
    <3>4. page' = page /\ mixed' = mixed
      BY <2>1
    <3> HIDE DEF IInv
    <3>5. (page.at = "assign" /\ ~mixed) => page.saving = (\E q \in net' : q.kind = "save")
      BY <3>1, <3>3
    <3> QED BY <3>2, <3>3, <3>4, <3>5 DEF Reports
  <2>2. CASE tools' = tools /\ dated' = dated /\ net' = (net \ {r}) \cup {[r EXCEPT !.status = "failed"]}
    <3>1. PICK a : /\ net' = (net \ {r}) \cup {a} /\ a.kind = r.kind /\ a.tool = r.tool
                   /\ a.body = r.body /\ a.status = "failed"
      BY <2>2, ServedType
    <3>2. Lifecycle'
      BY <1>0, <2>1, <2>2, <3>1 DEF Lifecycle
    <3>3. Offers' /\ Confirms' /\ Dated'
      BY <1>0, <2>1, <2>2, <3>1 DEF Offers, Confirms, Dated
    <3>4. Reports'
      BY <1>0, <2>0, <2>1, <3>1
    <3> QED BY <3>2, <3>3, <3>4
  <2>3. ASSUME NEW st \in {"ok", "failed"}, Apply(r),
               net' = (net \ {r}) \cup {[r EXCEPT !.status = st]}
        PROVE  IInv'
    <3>1. PICK a : /\ net' = (net \ {r}) \cup {a} /\ a.kind = r.kind /\ a.tool = r.tool
                   /\ a.body = r.body /\ a.status = st
      BY <2>3, ServedType
    <3>2. r.kind \in {"create", "save", "schedule"}
      BY DEF TypeInv, Known
    <3>3. \A t \in Tools : t # r.tool => tools'[t] = tools[t]
      BY <1>0, <2>1, <2>3, <3>2 DEF Apply
    <3>4. tools[r.tool] \in Row /\ tools'[r.tool] \in Row
      BY <1>0, <2>1
    <3>5. r.kind = "create" =>
            /\ tools'[r.tool].exists = TRUE /\ tools'[r.tool].district = r.body.district
            /\ tools'[r.tool].deadline = r.body.deadline
            /\ tools'[r.tool].assigned = tools[r.tool].assigned
      BY <1>0, <2>1, <2>3, <3>4 DEF Apply, Row
    <3>6. r.kind = "save" =>
            /\ tools'[r.tool].exists = tools[r.tool].exists
            /\ r.tool \notin Analyses => tools'[r.tool].district = r.body.district
            /\ tools'[r.tool].deadline = r.body.deadline
            /\ tools'[r.tool].assigned = (tools[r.tool].assigned \/ r.body.assign)
      BY <1>0, <2>1, <2>3, <3>4 DEF Apply, Row
    <3>7. r.kind = "schedule" =>
            /\ tools'[r.tool].exists = tools[r.tool].exists
            /\ r.tool \notin Analyses => tools'[r.tool].district = r.body.district
            /\ tools'[r.tool].deadline = r.body.deadline
            /\ tools'[r.tool].assigned = tools[r.tool].assigned
      BY <1>0, <2>1, <2>3, <3>4 DEF Apply, Row
    <3>8. dated' = [dated EXCEPT ![r.tool] = @ \cup {tools'[r.tool].deadline}]
      BY <2>3 DEF Apply
    <3>9. Lifecycle'
      BY <1>0, <2>1, <3>1, <3>2, <3>3, <3>5, <3>6, <3>7 DEF Lifecycle
    <3>10. Offers'
      BY <1>0, <2>1, <3>1, <3>2, <3>3, <3>5, <3>6, <3>7 DEF Offers, Lifecycle
    <3>11. Confirms'
      BY <1>0, <2>1, <3>1, <3>2, <3>3, <3>5, <3>6, <3>7 DEF Confirms
    <3>12. Dated'
      BY <1>0, <2>1, <3>1, <3>2, <3>3, <3>5, <3>6, <3>7, <3>8 DEF Dated
    <3>13. Reports'
      BY <2>0, <2>1, <3>1
    <3> QED BY <3>9, <3>10, <3>11, <3>12, <3>13
  <2>4. \/ Apply(r) /\ net' = (net \ {r}) \cup {[r EXCEPT !.status = "ok"]}
        \/ /\ Apply(r) \/ UNCHANGED <<tools, dated>>
           /\ net' = (net \ {r}) \cup {[r EXCEPT !.status = "failed"]}
    BY <1>14 DEF Serve
  <2>5. CASE Apply(r) /\ net' = (net \ {r}) \cup {[r EXCEPT !.status = "ok"]}
    BY <2>3, <2>5
  <2>6. CASE Apply(r) /\ net' = (net \ {r}) \cup {[r EXCEPT !.status = "failed"]}
    BY <2>3, <2>6
  <2> QED BY <2>2, <2>4, <2>5, <2>6
<1>15. CASE UNCHANGED vars
  BY <1>4, <1>15 DEF vars
<1>16. CASE GoIndex \/ CloseDialog \/ OpenSchedule \/ \E t \in Tools : OpenCreate(t)
  BY <1>0, <1>4, <1>16 DEF GoIndex, CloseDialog, OpenSchedule, OpenCreate
<1> QED
  BY <1>2, <1>3, <1>6, <1>8, <1>10, <1>11, <1>12, <1>13, <1>14, <1>15, <1>16, ConstantsOK
     DEF Next, ConstantsOK, CreateAssessment, CreateInventory, CreateAnalysis

LEMMA Inductive == Spec => [](TypeInv /\ IInv)
BY InitTypeInv, InitIInv, NextTypeInv, NextIInv, PTL DEF Spec

---------------------------------------------------------------------------
(* The theorems                                                            *)

\* A save moves an assessment or an inventory only to a district that a page of its
\* own was loaded with or had selected, although the service keeps one district for
\* all pages.
THEOREM DistrictAlwaysOffered == Spec => []DistrictWasOffered
<1>1. IInv => DistrictWasOffered
  BY DEF IInv, Offers
<1> QED BY <1>1, Inductive, PTL

\* No save assigns a tool, and invites its participants, before its
\* facilitator confirmed the sending of that tool.
THEOREM AssignedOnlyWhenConfirmed == Spec => []AssignedWhenConfirmed
<1>1. IInv => AssignedWhenConfirmed
  BY DEF IInv, Confirms
<1> QED BY <1>1, Inductive, PTL

\* The dashboard of an assessment shows a deadline the assessment has had, although
\* the saves of its assign page write the deadline as well.
THEOREM ScheduleAlwaysSaved == Spec => []ScheduleWasSaved
<1>1. IInv => ScheduleWasSaved
  BY DEF IInv, Dated
<1> QED BY <1>1, Inductive, PTL

\* The spinner and the alerts of an assign page are about its own saves,
\* unless saves were mixed.
THEOREM PageReportsOwnSaves == Spec => []ReportsOwnSaves
<1>1. IInv => ReportsOwnSaves
  BY DEF IInv, Reports, ReportsOwnSaves, Saving
<1> QED BY <1>1, Inductive, PTL

---------------------------------------------------------------------------
(* BrowserSession.                                                         *)

\* What every reachable state satisfies.  Tab and server agree (Agrees) because
\* something under way corrects the tab (Sees), because answers speak of the
\* session as it is (Says), and because who changes the session is alone (Alone).

TabType ==
    [user : Users \cup {Null}, stored : Users \cup {Null}, nav : Users \cup {Null},
     place : Pages \cup {"none"}, redirect : Pages \cup {Null}, target : Pages \cup {Null},
     loading : BOOLEAN, net : SUBSET Request]

\* What a request carries, by its kind.
Carries(r) ==
    /\ r.kind \in {"login", "relogin", "redeem", "reset", "signup"} /\ r.status \in {"sent", "ok"} =>
          r.user \in Users
    /\ r.kind = "sync" => r.page \in {Null, "root"} \cup Destinations
    /\ r.kind = "sync" /\ r.status = "ok" => r.user \in Users
    /\ r.kind = "login" => r.page \in Pages
    /\ r.kind = "login" /\ r.status = "refused" => ~r.fit
    /\ r.kind = "relogin" => r.fit /\ r.status # "refused"
    /\ r.kind \in {"redeem", "relogin"} => r.page \in Destinations
    /\ r.kind = "load" => r.page \in Pages \cap Loads
    /\ r.status = "401" => r.kind \notin {"login", "relogin"}
    /\ ~r.live => r.kind \in Identity \cup {"load"}

\* One load at most is heard, and it is that of the state under way.
Awaited(t) ==
    /\ \A r \in t.net : r.kind = "load" /\ r.live => r.page = t.target
    /\ \A q, r \in t.net : q.kind = "load" /\ q.live /\ r.kind = "load" /\ r.live => q = r
    /\ t.target # Null => t.loading /\ \E r \in t.net : r.kind = "load" /\ r.live

\* Before the first state is entered.
Entering(t) ==
    t.place = "none" =>
        /\ t.nav # Null => t.user # Null
        /\ \A r \in t.net : r.live => r.kind = "load" \/ (r.kind = "sync" /\ r.page = Null)

Base(t) == t \in TabType /\ IsFiniteSet(t.net) /\ \A r \in t.net : Carries(r)

Tab(t) == Base(t) /\ Awaited(t)

SessionTypeInv ==
    /\ session \in Users \cup {Null} /\ known \subseteq Users
    /\ links \subseteq {"invite", "reset"} \X Users
    /\ foreign \in 0..MaxUpsets /\ losses \in 0..MaxUpsets /\ haste \in 0..MaxHaste
    /\ apart \in BOOLEAN
    /\ Tab(tab) /\ Entering(tab)

\* The answer of this request lets the tab see whom the server acts for.
Corrects(r) ==
    /\ r.live
    /\ \/ r.kind = "sync" /\ r.status \in {"sent", "ok", "401"}
       \/ r.kind = "relogin" /\ r.status = "sent"
       \/ r.kind \in Identity /\ r.status = "ok"

\* What a request says of the session.
Says(r, s) ==
    /\ r.kind \in {"sync", "login", "relogin"} /\ r.status = "ok" => r.user = s
    /\ r.kind = "logout" /\ r.status = "ok" => s = Null
    /\ r.status = "401" => s = Null
    /\ r.status = "failed" => r.kind \notin Identity \cup {"sync"}

Sees(t, s) == t.user \in {Null, s} \/ \E r \in t.net : Corrects(r)

Settled(t) ==
    /\ t.place = "settings" => t.user # Null
    /\ \A r \in t.net :
          /\ r.kind \in Identity /\ ~r.live => t.user = Null
          /\ r.kind = "save" /\ r.live => t.user # Null
          /\ r.kind = "login" /\ ~r.fit /\ r.live => t.place # "settings"

Agreed(t, s) == Sees(t, s) /\ Settled(t) /\ \A r \in t.net : Says(r, s)

Pageless(t) == \E r \in t.net : r.kind = "sync" /\ r.page = Null

Alone == Crossed(tab) => apart

Agrees == ~apart => Agreed(tab, session)

SignedOff == ~apart /\ foreign = 0 /\ tab.user = Null /\ Pageless(tab) => session = Null

Stored == foreign = 0 => tab.stored = tab.user

Inv == SessionTypeInv /\ Alone /\ Agrees /\ SignedOff /\ Stored

---------------------------------------------------------------------------
(* Requests that are sent.                                                 *)

LEMMA FreshNumber ==
    ASSUME NEW N, IsFiniteSet(N), NEW sort
    PROVE  Fresh(N, sort) \in Nat
<1> DEFINE used == {q.n : q \in N}
           k    == Cardinality(N) + 1
<1>1. Cardinality(N) \in Nat
  BY FS_CardinalityType
<1>2. IsFiniteSet(used) /\ Cardinality(used) <= Cardinality(N)
  <2> DEFINE f == [q \in N |-> q.n]
  <2>1. f \in Surjection(N, used)
    BY DEF Surjection
  <2> QED BY <2>1, FS_Surjection
<1>3. \E n \in 1..k : n \notin used
  <2> SUFFICES ASSUME 1..k \subseteq used
               PROVE  FALSE
    OBVIOUS
  <2>1. Cardinality(1..k) <= Cardinality(used)
    BY <1>2, FS_Subset
  <2>2. Cardinality(1..k) = k
    BY <1>1, FS_Interval
  <2>3. Cardinality(used) \in Nat
    BY <1>2, FS_CardinalityType
  <2> QED BY <1>1, <1>2, <2>1, <2>2, <2>3
<1>4. \E n \in 1..k : \A q \in N : q.kind = sort => q.n # n
  BY <1>3
<1>5. Fresh(N, sort) \in 1..k
  BY <1>4 DEF Fresh
<1> QED BY <1>1, <1>5

Kept(M, N) == \A r \in M : r.kind # "load" => r \in N

\* N has requests of M, loads nobody waits for, and new requests of these kinds.
Given(M, N, kinds) ==
    \A q \in N :
        \/ q \in M
        \/ q.kind = "load" /\ ~q.live /\ (q.status = "401" => \E r \in M : r.status = "401")
        \/ q.kind \in kinds /\ q.status = "sent" /\ q.live

Same(t, g) == t.user = g.user /\ t.stored = g.stored /\ t.nav = g.nav

Stays(t, g) ==
    Same(t, g) /\ g.place = t.place /\ g.redirect = t.redirect /\ g.target = t.target /\ g.loading = t.loading

Kinds == Identity \cup {"signup", "sync", "get", "load"}

LEMMA NewRequest ==
    ASSUME NEW sort \in Kinds, NEW u \in Users \cup {Null}, NEW p \in Pages \cup {Null}
    PROVE  LET r == Req(sort, u, p)
           IN  /\ r \in Request /\ r.kind = sort /\ r.user = u /\ r.page = p
               /\ r.fit /\ r.status = "sent" /\ r.live
BY DEF Req, Request, Kinds

LEMMA Sending ==
    ASSUME NEW t, Tab(t), NEW r \in Request, Carries(r), r.kind # "load", r.status = "sent", r.live
    PROVE  LET g == SendRequest(t, r)
           IN  /\ Tab(g) /\ Stays(t, g) /\ t.net \subseteq g.net
               /\ Kept(t.net, g.net) /\ Given(t.net, g.net, {r.kind})
               /\ Pageless(g) => Pageless(t) \/ (r.kind = "sync" /\ r.page = Null)
               /\ \E q \in g.net : /\ q.kind = r.kind /\ q.page = r.page /\ q.user = r.user /\ q.fit = r.fit
                                   /\ q.status = "sent" /\ q.live
               /\ \A q \in g.net : q \in t.net \/ (q.kind = r.kind /\ q.page = r.page /\ q.fit = r.fit)
<1> DEFINE q == [r EXCEPT !.n = Fresh(t.net, r.kind)]
           g == SendRequest(t, r)
<1>1. Fresh(t.net, r.kind) \in Nat
  BY FreshNumber DEF Tab, Base
<1>2. /\ q \in Request /\ q.kind = r.kind /\ q.user = r.user /\ q.page = r.page
      /\ q.fit = r.fit /\ q.status = r.status /\ q.live = r.live
  BY <1>1 DEF Request
<1>3. t \in TabType /\ g = [t EXCEPT !.net = t.net \cup {q}]
  BY DEF Tab, Base, SendRequest
<1> HIDE DEF q
<1>4. /\ g \in TabType /\ g.net = t.net \cup {q} /\ Stays(t, g)
  BY <1>2, <1>3 DEF TabType, Stays, Same
<1> HIDE DEF g
<1>5. IsFiniteSet(g.net)
  BY <1>4, FS_AddElement DEF Tab, Base
<1>6. Carries(q)
  BY <1>2 DEF Carries
<1>7. Tab(g)
  <2>1. \A p \in g.net : Carries(p)
    BY <1>4, <1>6 DEF Tab, Base
  <2>2. Awaited(g)
    BY <1>2, <1>4 DEF Tab, Base, Awaited, Stays
  <2> QED BY <1>4, <1>5, <2>1, <2>2 DEF Tab, Base
<1>8. Pageless(g) => Pageless(t) \/ (r.kind = "sync" /\ r.page = Null)
  BY <1>2, <1>4 DEF Pageless
<1>9. t.net \subseteq g.net /\ Kept(t.net, g.net) /\ Given(t.net, g.net, {r.kind})
  BY <1>2, <1>4 DEF Kept, Given
<1>10. \E p \in g.net : /\ p.kind = r.kind /\ p.page = r.page /\ p.user = r.user /\ p.fit = r.fit
                        /\ p.status = "sent" /\ p.live
  BY <1>2, <1>4
<1>11. \A p \in g.net : p \in t.net \/ (p.kind = r.kind /\ p.page = r.page /\ p.fit = r.fit)
  BY <1>2, <1>4
<1> QED BY <1>4, <1>7, <1>8, <1>9, <1>10, <1>11 DEF g

---------------------------------------------------------------------------
(* Changes of state.                                                       *)

\* Nobody waits for a load.
NoLoad(t) == t.target = Null /\ \A r \in t.net : r.kind = "load" => ~r.live

LEMMA Overtaken ==
    ASSUME NEW t, Base(t)
    PROVE  LET g == Superseded(t)
           IN  /\ Tab(g) /\ NoLoad(g) /\ Same(t, g)
               /\ g.place = t.place /\ g.redirect = t.redirect /\ g.loading = t.loading
               /\ Kept(t.net, g.net) /\ Given(t.net, g.net, {})
               /\ Pageless(g) => Pageless(t)
<1> DEFINE Deaf(r) == [r EXCEPT !.live = r.live /\ r.kind # "load"]
           N == {Deaf(r) : r \in t.net}
           g == Superseded(t)
<1>1. t \in TabType /\ t.net \subseteq Request /\ IsFiniteSet(t.net) /\ \A r \in t.net : Carries(r)
  BY DEF Tab, Base, TabType
<1>2. g = [t EXCEPT !.target = Null, !.net = N]
  BY DEF Superseded
<1>3. \A r \in t.net : /\ Deaf(r) \in Request
                       /\ r.kind # "load" => Deaf(r) = r
                       /\ Deaf(r).kind = r.kind /\ Deaf(r).page = r.page /\ Deaf(r).status = r.status
                       /\ Deaf(r).user = r.user /\ Deaf(r).fit = r.fit
                       /\ r.kind = "load" => ~Deaf(r).live
  <2> TAKE r \in t.net
  <2>1. r \in Request
    BY <1>1
  <2>2. r.live \in BOOLEAN
    BY <2>1 DEF Request
  <2>3. r.kind # "load" => (r.live /\ r.kind # "load") = r.live
    BY <2>2, Zenon
  <2>4. (r.live /\ r.kind # "load") \in BOOLEAN
    OBVIOUS
  <2>5. r.kind = "load" => (r.live /\ r.kind # "load") = FALSE
    OBVIOUS
  <2>6. \A b \in BOOLEAN : LET q == [r EXCEPT !.live = b]
                           IN  /\ q \in Request /\ (b = r.live => q = r)
                               /\ q.kind = r.kind /\ q.page = r.page /\ q.status = r.status
                               /\ q.user = r.user /\ q.fit = r.fit /\ q.live = b
    BY <2>1 DEF Request
  <2> QED BY <2>3, <2>4, <2>5, <2>6
<1>4. IsFiniteSet(N)
  <2> DEFINE f == [r \in t.net |-> Deaf(r)]
  <2>1. f \in Surjection(t.net, N)
    BY DEF Surjection
  <2> QED BY <1>1, <2>1, FS_Surjection
<1>5. \A r \in t.net : Carries(Deaf(r))
  <2> SUFFICES ASSUME NEW r \in t.net, r.kind = "load"
               PROVE  Carries(Deaf(r))
    BY <1>1, <1>3
  <2> QED BY <1>1, <1>3 DEF Carries
<1> HIDE DEF Deaf
<1>6. /\ N \subseteq Request /\ \A q \in N : Carries(q) /\ (q.kind = "load" => ~q.live)
      /\ Kept(t.net, N) /\ Given(t.net, N, {})
      /\ \A q \in N : \E r \in t.net : q.kind = r.kind /\ q.page = r.page
  BY <1>3, <1>5 DEF Kept, Given
<1> HIDE DEF N
<1>7. /\ g \in TabType /\ g.net = N /\ g.target = Null /\ Same(t, g)
      /\ g.place = t.place /\ g.redirect = t.redirect /\ g.loading = t.loading
  BY <1>1, <1>2, <1>6 DEF TabType, Same
<1> HIDE DEF g
<1>8. Tab(g) /\ NoLoad(g)
  BY <1>4, <1>6, <1>7 DEF Tab, Base, Awaited, NoLoad
<1>9. Pageless(g) => Pageless(t)
  BY <1>6, <1>7 DEF Pageless
<1> QED BY <1>6, <1>7, <1>8, <1>9 DEF g

\* The place changes, the requests stay.
LEMMA Placing ==
    ASSUME NEW t, Tab(t), NoLoad(t), NEW p \in Pages
    PROVE  LET g == [t EXCEPT !.place = p, !.redirect = Null, !.loading = FALSE]
           IN  /\ Tab(g) /\ NoLoad(g) /\ Same(t, g) /\ g.net = t.net
               /\ g.place = p /\ g.redirect = Null /\ g.target = Null
<1> DEFINE g == [t EXCEPT !.place = p, !.redirect = Null, !.loading = FALSE]
<1>1. t \in TabType
  BY DEF Tab, Base
<1>2. /\ g \in TabType /\ Same(t, g) /\ g.net = t.net /\ g.target = t.target
      /\ g.place = p /\ g.redirect = Null
  BY <1>1 DEF TabType, Same
<1> HIDE DEF g
<1>3. Tab(g) /\ NoLoad(g)
  BY <1>2 DEF Tab, Base, NoLoad, Awaited
<1> QED BY <1>2, <1>3 DEF g, NoLoad

---------------------------------------------------------------------------
(* Routes.                                                                 *)

LEMMA GuardedRoutes ==
    Guarded = {"settings", "home", "assessments", "assessment_dashboard", "assessment_report",
               "assessment_assign", "response_edit", "response_create", "consensus_show",
               "consensus_create", "grant_access", "inventories", "inventory_assign",
               "inventory_dashboard", "inventories_report", "analyses", "inventory_analysis_dashboard",
               "inventory_analysis_consensus_create", "inventory_analysis_consensus",
               "inventory_analysis_assign", "inventory_analysis_report"}
<1>1. \A p : p \in Guarded <=> \E f \in RouteFiles : p \in f.guarded
  BY DEF Guarded
<1>2. \A p : (\E f \in RouteFiles : p \in f.guarded) <=>
        \/ p \in UserRoutes.guarded \/ p \in HomeRoutes.guarded \/ p \in StaticRoutes.guarded
        \/ p \in AboutRoutes.guarded \/ p \in AssessmentRoutes.guarded \/ p \in ResponsesConfig.guarded
        \/ p \in ConsensusRouteConfig.guarded \/ p \in AccessRoutes.guarded
        \/ p \in InventoryRoutes.guarded \/ p \in AnalysisRoutes.guarded
  BY Zenon DEF RouteFiles
<1> QED
  BY <1>1, <1>2
  DEF UserRoutes, HomeRoutes, StaticRoutes, AboutRoutes, AssessmentRoutes, ResponsesConfig,
      ConsensusRouteConfig, AccessRoutes, InventoryRoutes, AnalysisRoutes

LEMMA LoadingRoutes ==
    Loads = {"assessments", "assessment_dashboard", "response_edit", "consensus_show",
             "inventories", "inventory_assign", "inventory_dashboard", "inventories_report",
             "inventories_shared_report", "analyses", "inventory_analysis_dashboard",
             "inventory_analysis_consensus", "inventory_analysis_assign",
             "inventory_analysis_report", "inventory_analysis_shared_report"}
<1>1. \A p : p \in Loads <=> \E f \in RouteFiles : p \in f.loads
  BY DEF Loads
<1>2. \A p : (\E f \in RouteFiles : p \in f.loads) <=>
        \/ p \in UserRoutes.loads \/ p \in HomeRoutes.loads \/ p \in StaticRoutes.loads
        \/ p \in AboutRoutes.loads \/ p \in AssessmentRoutes.loads \/ p \in ResponsesConfig.loads
        \/ p \in ConsensusRouteConfig.loads \/ p \in AccessRoutes.loads
        \/ p \in InventoryRoutes.loads \/ p \in AnalysisRoutes.loads
  BY Zenon DEF RouteFiles
<1> QED
  BY <1>1, <1>2
  DEF UserRoutes, HomeRoutes, StaticRoutes, AboutRoutes, AssessmentRoutes, ResponsesConfig,
      ConsensusRouteConfig, AccessRoutes, InventoryRoutes, AnalysisRoutes

LEMMA SharedReports ==
    Loads \ Guarded = {"inventories_shared_report", "inventory_analysis_shared_report"}
BY GuardedRoutes, LoadingRoutes

LEMMA SharedRoutes == {"inventories_shared_report", "inventory_analysis_shared_report"} \subseteq Routes
<1>1. InventoryRoutes \in RouteFiles /\ AnalysisRoutes \in RouteFiles
  BY Zenon DEF RouteFiles
<1>2. "inventories_shared_report" \in InventoryRoutes.open
  BY DEF InventoryRoutes
<1>3. "inventory_analysis_shared_report" \in AnalysisRoutes.open
  BY DEF AnalysisRoutes
<1> QED BY <1>1, <1>2, <1>3 DEF Routes

LEMMA RouteFacts ==
    /\ {"root", "home", "login", "invite"} \subseteq Pages
    /\ "home" \in Guarded /\ "settings" \in Guarded
    /\ "login" \notin Guarded /\ "root" \notin Guarded /\ "invite" \notin Guarded /\ "none" \notin Guarded
    /\ "logout" \notin Guarded
    /\ {"home", "root", "settings", "logout", "login", "invite", "none"} \cap Loads = {}
    /\ Destinations \subseteq Guarded /\ Destinations \subseteq Pages
    /\ Null \notin Users /\ Null \notin Pages /\ Null \notin Guarded
    /\ \A p \in {Null, "root"} \cup Destinations : p \notin Loads \ Guarded
<1>1. /\ "home" \in Guarded /\ "settings" \in Guarded
      /\ "login" \notin Guarded /\ "root" \notin Guarded /\ "invite" \notin Guarded /\ "none" \notin Guarded
      /\ "logout" \notin Guarded
  BY GuardedRoutes
<1>2. {"home", "root", "settings", "logout", "login", "invite", "none"} \cap Loads = {}
  BY LoadingRoutes
<1>3. Destinations \subseteq Guarded /\ Destinations \subseteq Pages
  BY GuardedRoutes DEF Destinations
<1>4. {"root", "home", "login", "invite"} \subseteq Pages /\ Null \notin Users /\ Null \notin Routes
  BY RoutesOK
<1>5. Null \notin Pages /\ Null \notin Guarded
  BY RoutesOK DEF Routes
<1>6. Null \notin Loads \ Guarded
  BY <1>4, SharedReports, SharedRoutes
<1>7. "root" \notin Loads \ Guarded
  BY SharedReports
<1> QED BY <1>1, <1>2, <1>3, <1>4, <1>5, <1>6, <1>7

LEMMA NoneIsNoRoute == "none" \notin Pages /\ "none" # "home"
<1>1. \A p : p \in Routes <=> p \in Guarded \/ \E f \in RouteFiles : p \in f.open
  BY DEF Routes
<1>2. \A p : (\E f \in RouteFiles : p \in f.open) <=>
        \/ p \in UserRoutes.open \/ p \in HomeRoutes.open \/ p \in StaticRoutes.open
        \/ p \in AboutRoutes.open \/ p \in AssessmentRoutes.open \/ p \in ResponsesConfig.open
        \/ p \in ConsensusRouteConfig.open \/ p \in AccessRoutes.open
        \/ p \in InventoryRoutes.open \/ p \in AnalysisRoutes.open
  BY Zenon DEF RouteFiles
<1>3. ~ \E f \in RouteFiles : "none" \in f.open
  BY <1>2
  DEF UserRoutes, HomeRoutes, StaticRoutes, AboutRoutes, AssessmentRoutes, ResponsesConfig,
      ConsensusRouteConfig, AccessRoutes, InventoryRoutes, AnalysisRoutes
<1> QED BY <1>1, <1>3, RouteFacts, RoutesOK

---------------------------------------------------------------------------
(* Entering a state, and going to one.                                     *)

LEMMA GivenMore ==
    \A L, M, N, j, k : Given(L, M, j) /\ Given(M, N, k) => Given(L, N, j \cup k)
BY DEF Given

LEMMA KeptMore ==
    \A L, M, N : Kept(L, M) /\ Kept(M, N) => Kept(L, N)
BY DEF Kept

LEMMA SameMore ==
    \A s, t, g : Same(s, t) /\ Same(t, g) => Same(s, g)
BY DEF Same

LEMMA Entered ==
    ASSUME NEW t, Base(t), NEW p \in Pages
    PROVE  LET g == Enter(t, p)
           IN  /\ Tab(g) /\ Same(t, g) /\ g.redirect = Null /\ g.target = Null
               /\ g.place = IF p = "root" /\ t.user # Null THEN "home" ELSE p
               /\ Kept(t.net, g.net) /\ Given(t.net, g.net, {"logout", "get", "sync"})
               /\ Pageless(g) => Pageless(t) \/ p = "home" \/ (p = "root" /\ t.user # Null)
               /\ p = "settings" => \E q \in g.net : q.kind = "get"
               /\ p = "login" => Given(t.net, g.net, {})
               /\ p # "logout" => Given(t.net, g.net, {"get", "sync"})
<1> DEFINE s == Superseded(t)
           at(q) == [s EXCEPT !.place = q, !.redirect = Null, !.loading = FALSE]
           g == Enter(t, p)
<1>1. /\ Tab(s) /\ NoLoad(s) /\ Same(t, s)
      /\ Kept(t.net, s.net) /\ Given(t.net, s.net, {}) /\ (Pageless(s) => Pageless(t))
  BY Overtaken
<1>2. \A q \in Pages : /\ Tab(at(q)) /\ Same(t, at(q)) /\ at(q).net = s.net
                       /\ at(q).place = q /\ at(q).redirect = Null /\ at(q).target = Null
                       /\ (Pageless(at(q)) => Pageless(t))
  <2> SUFFICES ASSUME NEW q \in Pages
               PROVE  /\ Tab(at(q)) /\ Same(t, at(q)) /\ at(q).net = s.net
                       /\ at(q).place = q /\ at(q).redirect = Null /\ at(q).target = Null
                       /\ (Pageless(at(q)) => Pageless(t))
    BY Zenon
  <2> HIDE DEF s
  <2> DEFINE x == [s EXCEPT !.place = q, !.redirect = Null, !.loading = FALSE]
  <2>0. /\ Tab(x) /\ Same(s, x) /\ x.net = s.net
        /\ x.place = q /\ x.redirect = Null /\ x.target = Null
    BY <1>1, Placing
  <2>1. /\ Tab(at(q)) /\ Same(s, at(q)) /\ at(q).net = s.net
        /\ at(q).place = q /\ at(q).redirect = Null /\ at(q).target = Null
    BY <2>0
  <2>2. Pageless(at(q)) => Pageless(s)
    BY <2>1 DEF Pageless
  <2> HIDE DEF at
  <2> QED BY <1>1, <2>1, <2>2, SameMore
<1>3. g = CASE p = "logout" -> SendRequest(at(p), Req("logout", Null, Null))
            [] p = "settings" -> SendRequest(at(p), Req("get", Null, Null))
            [] p = "home" \/ (p = "root" /\ t.user # Null) -> SendRequest(at("home"), Req("sync", Null, Null))
            [] OTHER -> at(p)
  BY DEF Enter, syncUser
<1> HIDE DEF at
<1> HIDE DEF s
<1>4. "home" \in Pages
  BY RouteFacts
<1>5. ASSUME NEW sort \in {"logout", "get", "sync"}, NEW q \in Pages,
             g = SendRequest(at(q), Req(sort, Null, Null))
      PROVE  /\ Tab(g) /\ Same(t, g) /\ g.redirect = Null /\ g.target = Null /\ g.place = q
             /\ Kept(t.net, g.net) /\ Given(t.net, g.net, {sort})
             /\ Pageless(g) => Pageless(t) \/ sort = "sync"
             /\ \E x \in g.net : x.kind = sort
  <2> HIDE DEF g
  <2> DEFINE r == Req(sort, Null, Null)
  <2>1. /\ r \in Request /\ r.kind = sort /\ r.page = Null /\ r.status = "sent" /\ r.live
    BY NewRequest DEF Kinds, Identity
  <2> HIDE DEF r
  <2>2. Carries(r)
    BY <2>1 DEF Carries
  <2>3. /\ Tab(g) /\ Stays(at(q), g) /\ Kept(at(q).net, g.net) /\ Given(at(q).net, g.net, {sort})
        /\ Pageless(g) => Pageless(at(q)) \/ sort = "sync"
        /\ \E x \in g.net : x.kind = sort
    <3>1. g = SendRequest(at(q), r) /\ Tab(at(q))
      BY <1>2, <1>5 DEF r
    <3> DEFINE t0 == at(q)
    <3> HIDE DEF t0
    <3>2. /\ Tab(SendRequest(t0, r)) /\ Stays(t0, SendRequest(t0, r)) /\ Kept(t0.net, SendRequest(t0, r).net)
          /\ Given(t0.net, SendRequest(t0, r).net, {r.kind})
          /\ Pageless(SendRequest(t0, r)) => Pageless(t0) \/ (r.kind = "sync" /\ r.page = Null)
          /\ \E x \in SendRequest(t0, r).net : x.kind = r.kind
      BY <2>1, <2>2, <3>1, Sending DEF t0
    <3> QED BY <2>1, <3>1, <3>2 DEF t0
  <2>4. Kept(t.net, g.net) /\ Given(t.net, g.net, {sort})
    <3>1. Given(t.net, g.net, {} \cup {sort})
      BY <1>1, <1>2, <2>3, GivenMore
    <3> QED BY <1>1, <1>2, <2>3, <3>1, KeptMore
  <2>5. Same(t, g) /\ g.redirect = Null /\ g.target = Null /\ g.place = q
    BY <1>2, <2>3, SameMore DEF Stays
  <2> QED BY <1>2, <2>3, <2>4, <2>5
<1>6. \A j, k : j \subseteq k /\ Given(t.net, g.net, j) => Given(t.net, g.net, k)
  BY DEF Given
<1>7. CASE p = "logout"
  <2>1. g = SendRequest(at(p), Req("logout", Null, Null))
    BY <1>3, <1>7
  <2> QED BY <1>5, <1>6, <1>7, <2>1
<1>8. CASE p = "settings"
  <2>1. g = SendRequest(at(p), Req("get", Null, Null))
    BY <1>3, <1>8
  <2> QED BY <1>5, <1>6, <1>8, <2>1
<1>9. CASE p = "home" \/ (p = "root" /\ t.user # Null)
  <2>1. g = SendRequest(at("home"), Req("sync", Null, Null))
    BY <1>3, <1>9
  <2> QED BY <1>4, <1>5, <1>6, <1>9, <2>1
<1>10. CASE p \notin {"logout", "settings", "home"} /\ ~(p = "root" /\ t.user # Null)
  <2>1. g = at(p)
    BY <1>3, <1>10
  <2>2. Kept(t.net, g.net) /\ Given(t.net, g.net, {})
    BY <1>1, <1>2, <2>1
  <2> QED BY <1>2, <1>6, <1>10, <2>1, <2>2
<1> QED BY <1>7, <1>8, <1>9, <1>10

\* The state is loaded first.
LEMMA Loading ==
    ASSUME NEW t, Base(t), NEW p \in Pages \cap Loads
    PROVE  LET g == SendRequest([Superseded(t) EXCEPT !.target = p, !.loading = TRUE], Req("load", Null, p))
           IN  /\ Tab(g) /\ Same(t, g) /\ g.redirect = t.redirect /\ g.target = p /\ g.place = t.place
               /\ Kept(t.net, g.net) /\ Given(t.net, g.net, {"load"})
               /\ Pageless(g) => Pageless(t)
<1> DEFINE s == Superseded(t)
           a == [s EXCEPT !.target = p, !.loading = TRUE]
           r == Req("load", Null, p)
           q == [r EXCEPT !.n = Fresh(a.net, r.kind)]
           g == SendRequest(a, r)
<1>1. /\ Tab(s) /\ NoLoad(s) /\ Same(t, s) /\ s.redirect = t.redirect /\ s.place = t.place
      /\ Kept(t.net, s.net) /\ Given(t.net, s.net, {}) /\ (Pageless(s) => Pageless(t))
  BY Overtaken
<1>2. /\ r \in Request /\ r.kind = "load" /\ r.page = p /\ r.status = "sent" /\ r.live
  BY NewRequest DEF Kinds
<1> HIDE DEF s, r
<1>3. /\ a \in TabType /\ Same(s, a) /\ a.net = s.net /\ a.place = s.place /\ a.redirect = s.redirect
      /\ a.target = p /\ a.loading
  BY <1>1 DEF Tab, Base, TabType, Same
<1>4. g = [a EXCEPT !.net = a.net \cup {q}]
  BY DEF SendRequest
<1> HIDE DEF a
<1>5. Fresh(a.net, r.kind) \in Nat
  BY <1>1, <1>3, FreshNumber DEF Tab, Base
<1>6. /\ q \in Request /\ q.kind = "load" /\ q.page = p /\ q.status = "sent" /\ q.live
  BY <1>2, <1>5 DEF Request
<1> HIDE DEF q
<1>7. /\ g \in TabType /\ g.net = s.net \cup {q} /\ Same(s, g) /\ g.place = s.place
      /\ g.redirect = s.redirect /\ g.target = p /\ g.loading
  BY <1>3, <1>4, <1>6 DEF TabType, Same
<1> HIDE DEF g
<1>8. Carries(q)
  BY <1>6 DEF Carries
<1>9. Tab(g)
  <2>1. IsFiniteSet(g.net)
    BY <1>1, <1>7, FS_AddElement DEF Tab, Base
  <2>2. \A x \in g.net : Carries(x)
    BY <1>1, <1>7, <1>8 DEF Tab, Base
  <2>3. Awaited(g)
    BY <1>1, <1>6, <1>7 DEF Awaited, NoLoad
  <2> QED BY <1>7, <2>1, <2>2, <2>3 DEF Tab, Base
<1>10. Kept(t.net, g.net) /\ Given(t.net, g.net, {"load"})
  BY <1>1, <1>6, <1>7 DEF Kept, Given
<1>11. Pageless(g) => Pageless(t)
  BY <1>1, <1>6, <1>7 DEF Pageless
<1> QED BY <1>1, <1>7, <1>9, <1>10, <1>11, SameMore DEF g, a, r, s

\* What going somewhere changes: no more than the place, the target, and requests
\* that were sent on the way.
Goes(t, g) ==
    /\ Tab(g) /\ Same(t, g)
    /\ Kept(t.net, g.net) /\ Given(t.net, g.net, {"logout", "get", "sync", "load"})
    /\ t.user = Null /\ Guards(g) => Guards(t)
    /\ g.place = "settings" =>
          t.place = "settings" \/ (t.user # Null /\ \E q \in g.net : q.kind = "get")
    /\ g.place = "none" => t.place = "none" /\ Given(t.net, g.net, {"load"})
    /\ Pageless(g) => Pageless(t) \/ t.user # Null

LEMMA GivenWider ==
    \A M, N, j, k : Given(M, N, j) /\ j \subseteq k => Given(M, N, k)
BY DEF Given

LEMMA Went ==
    ASSUME NEW t, Base(t), NEW p \in Pages, NEW url, p \in Guarded /\ t.user = Null => url \in Pages \cup {Null}
    PROVE  /\ Goes(t, Go(t, p, url))
           /\ p = "root" => Go(t, p, url).place \in {"root", "home"}
           /\ p # "logout" => Given(t.net, Go(t, p, url).net, {"get", "sync", "load"})
<1> DEFINE g == Go(t, p, url)
           all == {"logout", "get", "sync", "load"}
           few == {"get", "sync", "load"}
<1>1. CASE p \in Guarded /\ t.user = Null
  <2> DEFINE e == Enter(t, "login")
  <2>0. "login" \in Pages
    BY RouteFacts
  <2>1. /\ Tab(e) /\ Same(t, e) /\ e.target = Null /\ e.place = "login"
        /\ Kept(t.net, e.net) /\ Given(t.net, e.net, {}) /\ (Pageless(e) => Pageless(t))
    BY <2>0, Entered
  <2>2. g = [e EXCEPT !.redirect = url]
    BY <1>1 DEF Go
  <2> HIDE DEF e
  <2>3. /\ g \in TabType /\ Same(e, g) /\ g.net = e.net /\ g.place = "login" /\ g.target = Null
        /\ g.loading = e.loading
    BY <1>1, <2>1, <2>2 DEF Tab, Base, TabType, Same
  <2> HIDE DEF g
  <2>4. Tab(g)
    BY <2>1, <2>3 DEF Tab, Base, Awaited
  <2>5. Pageless(g) => Pageless(t)
    BY <2>1, <2>3 DEF Pageless
  <2>6. ~Guards(g)
    BY <2>3, RouteFacts DEF Guards
  <2>7. Kept(t.net, g.net) /\ Given(t.net, g.net, all) /\ Given(t.net, g.net, few) /\ Same(t, g)
    BY <2>1, <2>3, GivenWider, SameMore
  <2>8. Goes(t, g)
    BY <2>3, <2>4, <2>5, <2>6, <2>7 DEF Goes
  <2> QED BY <1>1, <2>7, <2>8, RouteFacts DEF g
<1>2. CASE ~(p \in Guarded /\ t.user = Null) /\ p = t.place /\ p # "login"
  <2>1. g = Superseded(t)
    BY <1>2 DEF Go
  <2> HIDE DEF g
  <2>2. /\ Tab(g) /\ NoLoad(g) /\ Same(t, g) /\ g.place = t.place
        /\ Kept(t.net, g.net) /\ Given(t.net, g.net, {}) /\ (Pageless(g) => Pageless(t))
    BY <2>1, Overtaken
  <2>3. Guards(g) => Guards(t)
    BY <2>2, RouteFacts DEF Guards, NoLoad
  <2>4. Given(t.net, g.net, all) /\ Given(t.net, g.net, few) /\ Given(t.net, g.net, {"load"})
    BY <2>2, GivenWider
  <2>5. Goes(t, g)
    BY <2>2, <2>3, <2>4 DEF Goes
  <2> QED BY <1>2, <2>2, <2>4, <2>5 DEF g
<1>3. CASE ~(p \in Guarded /\ t.user = Null) /\ ~(p = t.place /\ p # "login") /\ p \in Loads
  <2>1. g = SendRequest([Superseded(t) EXCEPT !.target = p, !.loading = TRUE], Req("load", Null, p))
    BY <1>3 DEF Go
  <2> HIDE DEF g
  <2>2. /\ Tab(g) /\ Same(t, g) /\ g.target = p /\ g.place = t.place
        /\ Kept(t.net, g.net) /\ Given(t.net, g.net, {"load"}) /\ (Pageless(g) => Pageless(t))
    BY <1>3, <2>1, Loading
  <2>3. t.user = Null /\ Guards(g) => Guards(t)
    BY <1>3, <2>2 DEF Guards
  <2>4. Given(t.net, g.net, all) /\ (p # "logout" => Given(t.net, g.net, few))
    BY <2>2, GivenWider
  <2>5. Goes(t, g)
    BY <2>2, <2>3, <2>4 DEF Goes
  <2> QED BY <1>3, <2>4, <2>5, RouteFacts DEF g
<1>4. CASE ~(p \in Guarded /\ t.user = Null) /\ ~(p = t.place /\ p # "login") /\ p \notin Loads
  <2>1. g = Enter(t, p)
    BY <1>4 DEF Go
  <2> HIDE DEF g
  <2>2. /\ Tab(g) /\ Same(t, g) /\ g.target = Null
        /\ g.place = IF p = "root" /\ t.user # Null THEN "home" ELSE p
        /\ Kept(t.net, g.net) /\ Given(t.net, g.net, {"logout", "get", "sync"})
        /\ Pageless(g) => Pageless(t) \/ p = "home" \/ (p = "root" /\ t.user # Null)
        /\ p = "settings" => \E q \in g.net : q.kind = "get"
        /\ p # "logout" => Given(t.net, g.net, {"get", "sync"})
    BY <2>1, Entered
  <2>3. t.user = Null /\ Guards(g) => Guards(t)
    BY <1>4, <2>2, RouteFacts DEF Guards
  <2>4. Given(t.net, g.net, all) /\ (p # "logout" => Given(t.net, g.net, few))
    BY <2>2, GivenWider
  <2>5. g.place # "none"
    BY <2>2, RoutesOK, NoneIsNoRoute
  <2>6. g.place = "settings" => t.user # Null /\ \E q \in g.net : q.kind = "get"
    BY <1>4, <2>2, RouteFacts
  <2>7. Pageless(g) => Pageless(t) \/ t.user # Null
    BY <1>4, <2>2, RouteFacts
  <2>8. Goes(t, g)
    BY <2>2, <2>3, <2>4, <2>5, <2>6, <2>7 DEF Goes
  <2> QED BY <2>2, <2>4, <2>8 DEF g
<1> QED BY <1>1, <1>2, <1>3, <1>4

---------------------------------------------------------------------------
(* SessionService.                                                         *)

LEMMA Signing ==
    ASSUME NEW t, NEW u \in Users \cup {Null}
    PROVE  LET g == setCurrentUser(t, u)
           IN  /\ Base(t) => /\ Base(g) /\ g.user = u /\ g.stored = u /\ g.nav = t.nav /\ g.place = t.place
                             /\ g.redirect = t.redirect /\ g.target = t.target /\ g.net = t.net
               /\ Tab(t) => Tab(g)
<1> DEFINE g == setCurrentUser(t, u)
<1>1. ASSUME Base(t)
      PROVE  /\ g \in TabType /\ g.user = u /\ g.stored = u /\ g.nav = t.nav /\ g.place = t.place
             /\ g.redirect = t.redirect /\ g.target = t.target /\ g.net = t.net /\ g.loading = t.loading
  BY <1>1 DEF Base, TabType, setCurrentUser
<1> HIDE DEF g
<1>2. Base(t) => Base(g)
  BY <1>1 DEF Base
<1>3. Tab(t) => Tab(g)
  BY <1>1, <1>2 DEF Tab, Awaited
<1> QED BY <1>1, <1>2, <1>3 DEF g

LEMMA ClearIs == \A t : clear(t) = setCurrentUser(t, Null)
BY DEF clear, setCurrentUser

LEMMA Syncing ==
    ASSUME NEW t, Tab(t), NEW p \in {Null, "root"} \cup Destinations
    PROVE  LET g == syncUser(t, p)
           IN  /\ Tab(g) /\ Stays(t, g) /\ t.net \subseteq g.net
               /\ Kept(t.net, g.net) /\ Given(t.net, g.net, {"sync"})
               /\ Pageless(g) => Pageless(t) \/ p = Null
               /\ \E q \in g.net : q.kind = "sync" /\ q.page = p /\ q.status = "sent" /\ q.live
               /\ \A q \in g.net : q \in t.net \/ (q.kind = "sync" /\ q.page = p)
<1> DEFINE r == Req("sync", Null, p)
<1>1. p \in Pages \cup {Null}
  BY RouteFacts
<1>2. r \in Request /\ r.kind = "sync" /\ r.page = p /\ r.status = "sent" /\ r.live
  <2>1. "sync" \in Kinds /\ Null \in Users \cup {Null}
    BY DEF Kinds
  <2> QED BY <1>1, <2>1, NewRequest
<1> HIDE DEF r
<1>3. Carries(r)
  BY <1>2 DEF Carries
<1>4. syncUser(t, p) = SendRequest(t, r)
  BY DEF syncUser, r
<1> DEFINE g == SendRequest(t, r)
<1>5. /\ Tab(g) /\ Stays(t, g) /\ t.net \subseteq g.net
      /\ Kept(t.net, g.net) /\ Given(t.net, g.net, {r.kind})
      /\ Pageless(g) => Pageless(t) \/ (r.kind = "sync" /\ r.page = Null)
      /\ \E q \in g.net : q.kind = r.kind /\ q.page = r.page /\ q.status = "sent" /\ q.live
      /\ \A q \in g.net : q \in t.net \/ (q.kind = r.kind /\ q.page = r.page)
  BY <1>2, <1>3, Sending
<1> HIDE DEF g
<1> QED BY <1>2, <1>4, <1>5 DEF g

LEMMA Updated ==
    ASSUME NEW t, Tab(t)
    PROVE  LET g == SessionUpdated(t)
           IN  /\ Tab(g) /\ g.user = t.user /\ g.stored = t.stored /\ g.nav = t.user /\ g.place = t.place
               /\ g.target = t.target
               /\ Kept(t.net, g.net) /\ Given(t.net, g.net, {"sync"})
<1> DEFINE m == [t EXCEPT !.nav = t.user]
<1>1. /\ m \in TabType /\ m.user = t.user /\ m.stored = t.stored /\ m.nav = t.user /\ m.place = t.place
      /\ m.net = t.net /\ m.target = t.target /\ m.loading = t.loading
  BY DEF Tab, Base, TabType
<1>2. SessionUpdated(t) = syncUser(m, Null)
  BY DEF SessionUpdated
<1> HIDE DEF m
<1>3. Tab(m)
  BY <1>1 DEF Tab, Base, Awaited
<1>4. /\ Tab(syncUser(m, Null)) /\ Stays(m, syncUser(m, Null))
      /\ Kept(m.net, syncUser(m, Null).net) /\ Given(m.net, syncUser(m, Null).net, {"sync"})
  BY <1>3, Syncing
<1> QED BY <1>1, <1>2, <1>4 DEF Stays, Same

LEMMA Clearing ==
    ASSUME NEW t, Base(t)
    PROVE  LET g == ClearUser(t)
           IN  /\ Tab(g) /\ g.user = Null /\ g.stored = Null /\ g.place = "login" /\ g.target = Null
               /\ Kept(t.net, g.net) /\ Given(t.net, g.net, {})
               /\ ~Guards(g)
<1> DEFINE c == clear(t)
           g == ClearUser(t)
<1>1. Base(c) /\ c.user = Null /\ c.stored = Null /\ c.place = t.place /\ c.net = t.net
  BY Signing, ClearIs
<1>2. g = IF t.place = "login" THEN Superseded(c) ELSE Enter(c, "login")
  BY DEF ClearUser
<1> HIDE DEF c, g
<1>3. CASE t.place = "login"
  <2>1. /\ Tab(g) /\ NoLoad(g) /\ Same(c, g) /\ g.place = c.place
        /\ Kept(c.net, g.net) /\ Given(c.net, g.net, {})
    BY <1>1, <1>2, <1>3, Overtaken
  <2>2. ~Guards(g)
    BY <1>1, <1>3, <2>1, RouteFacts DEF Guards, NoLoad
  <2> QED BY <1>1, <1>3, <2>1, <2>2 DEF Same, NoLoad, g
<1>4. CASE t.place # "login"
  <2>1. "login" \in Pages
    BY RouteFacts
  <2>2. /\ Tab(g) /\ Same(c, g) /\ g.place = "login" /\ g.target = Null
        /\ Kept(c.net, g.net) /\ Given(c.net, g.net, {})
    BY <1>1, <1>2, <1>4, <2>1, Entered
  <2>3. ~Guards(g)
    BY <2>2, RouteFacts DEF Guards
  <2> QED BY <1>1, <2>2, <2>3 DEF Same, g
<1> QED BY <1>3, <1>4

LEMMA Opening ==
    ASSUME NEW stored \in Users \cup {Null}, NEW p \in Pages
    PROVE  LET g == Opened(stored, p)
           IN  /\ Tab(g) /\ Entering(g) /\ g.user = stored /\ g.stored = stored
               /\ \A q \in g.net : /\ q.kind \in {"logout", "get", "sync", "load"} /\ q.status # "401"
                                   /\ q.kind # "load" => q.status = "sent" /\ q.live
               /\ stored # Null => \E q \in g.net : q.kind = "sync" /\ q.status = "sent" /\ q.live
               /\ stored = Null => ~Guards(g) /\ ~Pageless(g)
               /\ g.place = "settings" => stored # Null
               /\ p # "logout" => \A q \in g.net : q.kind # "logout"
<1> DEFINE t == [user |-> stored, stored |-> stored, nav |-> stored, place |-> "none", redirect |-> Null,
                 target |-> Null, loading |-> FALSE, net |-> {}]
           m == IF stored = Null THEN t ELSE syncUser(t, Null)
           g == Opened(stored, p)
<1>1. /\ t \in TabType /\ t.net = {} /\ t.user = stored /\ t.stored = stored /\ t.nav = stored
      /\ t.place = "none" /\ t.target = Null
  BY DEF TabType
<1>2. g = Go(m, p, p)
  BY DEF Opened
<1> HIDE DEF t
<1>3. Tab(t)
  BY <1>1, FS_EmptySet DEF Tab, Base, Awaited
<1>4. /\ Tab(m) /\ Stays(t, m) /\ Given({}, m.net, {"sync"})
      /\ \A q \in m.net : q.kind = "sync" /\ q.page = Null
      /\ stored # Null => \E q \in m.net : q.kind = "sync" /\ q.status = "sent" /\ q.live
      /\ stored = Null => m.net = {}
  <2>1. CASE stored = Null
    <3>1. m = t
      BY <2>1
    <3> HIDE DEF m
    <3> QED BY <1>1, <1>3, <2>1, <3>1 DEF Stays, Same, Given
  <2>2. CASE stored # Null
    <3>1. m = syncUser(t, Null)
      BY <2>2
    <3> HIDE DEF m
    <3>2. Null \in {Null, "root"} \cup Destinations
      OBVIOUS
    <3>3. /\ Tab(m) /\ Stays(t, m) /\ Given(t.net, m.net, {"sync"})
          /\ \A q \in m.net : q \in t.net \/ (q.kind = "sync" /\ q.page = Null)
          /\ \E q \in m.net : q.kind = "sync" /\ q.status = "sent" /\ q.live
      BY <1>3, <3>1, <3>2, Syncing
    <3> QED BY <1>1, <2>2, <3>3
  <2> QED BY <2>1, <2>2
<1> HIDE DEF m, g
<1>5. Goes(m, g) /\ (p # "logout" => Given(m.net, g.net, {"get", "sync", "load"}))
  BY <1>2, <1>4, Went DEF Tab
<1>6. Tab(g) /\ g.user = stored /\ g.stored = stored /\ g.nav = stored
  BY <1>1, <1>4, <1>5 DEF Goes, Stays, Same
<1>7. Given({}, g.net, {"logout", "get", "sync", "load"})
  <2>1. Given({}, g.net, {"sync"} \cup {"logout", "get", "sync", "load"})
    BY <1>4, <1>5, GivenMore DEF Goes
  <2> QED BY <2>1 DEF Given
<1>8. stored # Null => \E q \in g.net : q.kind = "sync" /\ q.status = "sent" /\ q.live
  BY <1>4, <1>5 DEF Goes, Kept
<1>9. stored = Null => ~Guards(g) /\ ~Pageless(g)
  <2> SUFFICES ASSUME stored = Null
               PROVE  ~Guards(g) /\ ~Pageless(g)
    OBVIOUS
  <2>1. m.place = "none" /\ m.target = Null /\ m.user = Null
    BY <1>1, <1>4 DEF Stays, Same
  <2>2. ~Guards(m)
    BY <2>1, RouteFacts DEF Guards
  <2>3. ~Pageless(m)
    BY <1>4 DEF Pageless
  <2> QED BY <1>5, <2>1, <2>2, <2>3 DEF Goes
<1>10. g.place = "settings" => stored # Null
  BY <1>1, <1>4, <1>5 DEF Goes, Stays, Same
<1>11. Entering(g)
  <2> SUFFICES ASSUME g.place = "none"
               PROVE  \A r \in g.net : r.live => r.kind = "load" \/ (r.kind = "sync" /\ r.page = Null)
    BY <1>6 DEF Entering
  <2>1. Given(m.net, g.net, {"load"})
    BY <1>5 DEF Goes
  <2> QED BY <1>4, <2>1 DEF Given
<1>12. \A q \in g.net : /\ q.kind \in {"logout", "get", "sync", "load"} /\ q.status # "401"
                        /\ q.kind # "load" => q.status = "sent" /\ q.live
  BY <1>7 DEF Given
<1>13. p # "logout" => \A q \in g.net : q.kind # "logout"
  BY <1>4, <1>5 DEF Given
<1> QED BY <1>6, <1>8, <1>9, <1>10, <1>11, <1>12, <1>13 DEF g

---------------------------------------------------------------------------
(* The invariant holds at first, and whatever the user does.               *)

LEMMA InvInit == SessionInit => Inv
<1> SUFFICES ASSUME SessionInit
             PROVE  Inv
  OBVIOUS
<1>1. PICK u \in Members \cup {Null} : session \in {u, Null} /\ tab = Opened(u, "root")
  BY DEF SessionInit
<1>2. u \in Users \cup {Null} /\ "root" \in Pages /\ "root" # "logout"
  BY RouteFacts DEF Users
<1>3. /\ Tab(tab) /\ Entering(tab) /\ tab.user = u /\ tab.stored = u
      /\ \A q \in tab.net : /\ q.kind \in {"logout", "get", "sync", "load"} /\ q.status # "401"
                            /\ q.kind # "load" => q.status = "sent" /\ q.live
      /\ u # Null => \E q \in tab.net : q.kind = "sync" /\ q.status = "sent" /\ q.live
      /\ u = Null => ~Pageless(tab)
      /\ tab.place = "settings" => u # Null
      /\ \A q \in tab.net : q.kind # "logout"
  BY <1>1, <1>2, Opening
<1>4. SessionTypeInv
  <2>1. PICK invited \in SUBSET Newcomers :
               links = ({"invite"} \X invited) \cup ({"reset"} \X Members)
    BY DEF SessionInit
  <2>2. links \subseteq {"invite", "reset"} \X Users
    BY <2>1 DEF Users
  <2>3. session \in Users \cup {Null}
    BY <1>1, <1>2
  <2>4. known \subseteq Users /\ apart \in BOOLEAN
    BY DEF SessionInit, Users
  <2>5. foreign \in 0..MaxUpsets /\ losses \in 0..MaxUpsets /\ haste \in 0..MaxHaste
    BY RoutesOK DEF SessionInit
  <2> QED BY <1>3, <2>2, <2>3, <2>4, <2>5 DEF SessionTypeInv
<1>5. \A q \in tab.net : q.kind \notin Identity
  BY <1>3 DEF Identity
<1>6. Alone
  BY <1>5 DEF Alone, Crossed
<1>7. Settled(tab)
  BY <1>3, <1>5 DEF Settled, Identity
<1>8. Sees(tab, session)
  BY <1>1, <1>3 DEF Sees, Corrects
<1>9. \A r \in tab.net : Says(r, session)
  BY <1>3, <1>5 DEF Says, Identity
<1>10. SignedOff /\ Stored
  BY <1>1, <1>3 DEF SignedOff, Stored
<1> QED BY <1>4, <1>6, <1>7, <1>8, <1>9, <1>10 DEF Inv, Agrees, Agreed

\* What the tab may become.
Fits(g) ==
    /\ Tab(g) /\ Entering(g)
    /\ ~apart /\ ~Crossed(g) => Agreed(g, session)
    /\ ~apart /\ ~Crossed(g) /\ foreign = 0 /\ g.user = Null /\ Pageless(g) => session = Null
    /\ foreign = 0 => g.stored = g.user

LEMMA InvBecomes ==
    ASSUME Inv, NEW g, Becomes(g), Fits(g), haste' \in 0..MaxHaste,
           UNCHANGED <<session, known, links, foreign, losses>>
    PROVE  Inv'
<1>1. tab' = g /\ apart' = (apart \/ Crossed(g)) /\ apart \in BOOLEAN
  BY DEF Becomes, Inv, SessionTypeInv
<1>2. Crossed(g) \in BOOLEAN
  BY DEF Crossed
<1>3. SessionTypeInv'
  BY <1>1, <1>2 DEF Inv, SessionTypeInv, Fits
<1>4. Alone'
  BY <1>1 DEF Alone
<1>5. Agrees'
  BY <1>1 DEF Agrees, Fits
<1>6. SignedOff'
  BY <1>1 DEF SignedOff, Fits
<1>7. Stored'
  BY <1>1 DEF Stored, Fits
<1> QED BY <1>3, <1>4, <1>5, <1>6, <1>7 DEF Inv

LEMMA InvAct ==
    ASSUME Inv, NEW g, UserActs(g), Fits(g)
    PROVE  Inv'
<1>1. haste' \in 0..MaxHaste
  BY RoutesOK DEF UserActs, Inv, SessionTypeInv
<1> QED BY <1>1, InvBecomes DEF UserActs

\* What the user does without a change of user.
LEMMA ActFits ==
    ASSUME Inv, NEW g, Tab(g), Entering(g), Same(tab, g), Kept(tab.net, g.net), Given(tab.net, g.net, Kinds),
           Pageless(g) => Pageless(tab) \/ tab.user # Null,
           ~apart => \A q \in g.net : q.kind = "save" => q \in tab.net \/ tab.user # Null,
           \A q \in g.net : q.kind = "login" => q \in tab.net \/ g.place # "settings",
           g.place = "settings" =>
               tab.place = "settings" \/ (tab.user # Null /\ \E q \in g.net : q.kind = "get")
    PROVE  Fits(g)
<1>1. ASSUME ~apart, ~Crossed(g)
      PROVE  Agreed(g, session)
  <2>1. /\ Sees(tab, session) /\ Settled(tab) /\ \A r \in tab.net : Says(r, session)
    BY <1>1 DEF Inv, Agrees, Agreed
  <2>2. Sees(g, session)
    BY <2>1 DEF Sees, Same, Kept, Corrects, Identity
  <2>3. \A r \in g.net : Says(r, session)
    <3>1. \A q \in g.net : \/ q \in tab.net
                           \/ q.kind = "load" /\ (q.status = "401" => session = Null)
                           \/ q.status = "sent"
      BY <2>1 DEF Given, Says
    <3> QED BY <2>1, <3>1 DEF Says, Identity
  <2>4. Settled(g)
    <3>1. g.place = "settings" => g.user # Null
      BY <2>1 DEF Settled, Same
    <3>2. \A q \in g.net : q \in tab.net \/ q.kind = "load" \/ q.live
      BY DEF Given
    <3>3. \A q \in g.net : q.kind \in Identity /\ ~q.live => g.user = Null
      BY <2>1, <3>2 DEF Settled, Same, Identity
    <3>4. \A q \in g.net : q.kind = "save" /\ q.live => g.user # Null
      BY <1>1, <2>1 DEF Settled, Same
    <3>5. ASSUME NEW q \in g.net, q.kind = "login", ~q.fit, q.live, g.place = "settings"
          PROVE  FALSE
      <4>1. q \in tab.net
        BY <3>5
      <4>2. tab.place # "settings"
        BY <2>1, <3>5, <4>1 DEF Settled
      <4>3. PICK x \in g.net : x.kind = "get"
        BY <3>5, <4>2
      <4> QED BY <1>1, <3>5, <4>3 DEF Crossed, Identity
    <3> QED BY <3>1, <3>3, <3>4, <3>5 DEF Settled
  <2> QED BY <2>2, <2>3, <2>4 DEF Agreed
<1>2. ~apart /\ foreign = 0 /\ g.user = Null /\ Pageless(g) => session = Null
  BY DEF Same, Inv, SignedOff
<1>3. foreign = 0 => g.stored = g.user
  BY DEF Same, Inv, Stored
<1> QED BY <1>1, <1>2, <1>3 DEF Fits

LEMMA ActFields ==
    ASSUME Inv
    PROVE  /\ Tab(tab) /\ Entering(tab) /\ tab.user \in Users \cup {Null}
           /\ tab.stored \in Users \cup {Null} /\ tab.place \in Pages \cup {"none"}
           /\ tab.redirect \in Pages \cup {Null}
BY DEF Inv, SessionTypeInv, Tab, Base, TabType

LEMMA GoFits ==
    ASSUME Inv, NEW g, Goes(tab, g)
    PROVE  Fits(g)
<1>1. Given(tab.net, g.net, Kinds)
  BY GivenWider DEF Goes, Kinds, Identity
<1>2. \A q \in g.net : q.kind \in {"save", "login"} => q \in tab.net
  BY DEF Goes, Given
<1>3. Entering(g)
  <2> SUFFICES ASSUME g.place = "none"
               PROVE  /\ g.nav # Null => g.user # Null
                      /\ \A r \in g.net : r.live => r.kind = "load" \/ (r.kind = "sync" /\ r.page = Null)
    BY DEF Entering
  <2> QED BY ActFields DEF Goes, Same, Given, Entering
<1> QED BY <1>1, <1>2, <1>3, ActFits DEF Goes

LEMMA InvVisit ==
    ASSUME Inv, NEW p \in Pages, FollowLink(p)
    PROVE  Inv'
<1>1. UserActs(Go(tab, p, p))
  BY DEF FollowLink
<1>2. Goes(tab, Go(tab, p, p))
  BY ActFields, Went DEF Tab
<1> QED BY <1>1, <1>2, GoFits, InvAct

LEMMA InvMenu ==
    ASSUME Inv, NEW p \in Pages, Menu(p)
    PROVE  Inv'
<1>1. UserActs(Go(tab, p, tab.place)) /\ tab.nav # Null
  BY DEF Menu
<1>2. tab.user = Null => tab.place \in Pages \cup {Null}
  BY <1>1, ActFields DEF Entering
<1>3. Goes(tab, Go(tab, p, tab.place))
  BY <1>2, ActFields, Went DEF Tab
<1> QED BY <1>1, <1>3, GoFits, InvAct

\* A form is sent from its page.
LEMMA FormFits ==
    ASSUME Inv, NEW r \in Request, Carries(r), r.kind \in Kinds \ {"load", "sync"}, r.status = "sent", r.live,
           r.kind = "save" => tab.place = "settings",
           r.kind = "login" => tab.place # "settings",
           tab.place # "none"
    PROVE  Fits(SendRequest(tab, r))
<1> DEFINE g == SendRequest(tab, r)
<1>1. /\ Tab(g) /\ Stays(tab, g) /\ Kept(tab.net, g.net) /\ Given(tab.net, g.net, {r.kind})
      /\ Pageless(g) => Pageless(tab) \/ (r.kind = "sync" /\ r.page = Null)
      /\ \A q \in g.net : q \in tab.net \/ (q.kind = r.kind /\ q.page = r.page /\ q.fit = r.fit)
  BY ActFields, Sending
<1> HIDE DEF g
<1>2. Given(tab.net, g.net, Kinds)
  BY <1>1, GivenWider
<1>3. ~apart /\ tab.place = "settings" => tab.user # Null
  BY DEF Inv, Agrees, Agreed, Settled
<1>4. Entering(g)
  BY <1>1 DEF Entering, Stays
<1>5. g.place = tab.place /\ Same(tab, g)
  BY <1>1 DEF Stays
<1>6. Fits(g)
  BY <1>1, <1>2, <1>3, <1>4, <1>5, ActFits
<1> QED BY <1>6 DEF g

LEMMA InvAuthenticate ==
    ASSUME Inv, NEW u \in Users, NEW right \in BOOLEAN, Authenticate(u, right)
    PROVE  Inv'
<1> DEFINE p == IF tab.redirect = Null THEN "home" ELSE tab.redirect
           r == [Req("login", u, p) EXCEPT !.fit = right]
<1>1. p \in Pages
  BY ActFields, RouteFacts
<1>2. tab.place \in LoginPages /\ UserActs(SendRequest(tab, r))
  BY DEF Authenticate
<1> HIDE DEF p
<1>3. /\ r \in Request /\ r.kind = "login" /\ r.user = u /\ r.page = p /\ r.status = "sent" /\ r.live
  BY <1>1 DEF Req, Request, Identity
<1> HIDE DEF r
<1>4. Carries(r)
  BY <1>1, <1>3 DEF Carries
<1>5. tab.place \notin {"settings", "none"}
  BY <1>2 DEF LoginPages
<1>6. Fits(SendRequest(tab, r))
  BY <1>3, <1>4, <1>5, FormFits DEF Kinds, Identity
<1> QED BY <1>2, <1>6, InvAct

LEMMA InvCreateUser ==
    ASSUME Inv, NEW u \in Newcomers, CreateUser(u)
    PROVE  Inv'
<1> DEFINE r == Req("signup", u, Null)
<1>1. tab.place \in SignupPages /\ UserActs(SendRequest(tab, r))
  BY DEF CreateUser
<1>2. /\ r \in Request /\ r.kind = "signup" /\ r.user \in Users /\ r.status = "sent" /\ r.live
  BY DEF Req, Request, Identity, Users
<1> HIDE DEF r
<1>3. Carries(r)
  BY <1>2 DEF Carries
<1>4. tab.place \notin {"settings", "none"}
  BY <1>1 DEF SignupPages
<1>5. Fits(SendRequest(tab, r))
  BY <1>2, <1>3, <1>4, FormFits DEF Kinds, Identity
<1> QED BY <1>1, <1>5, InvAct

LEMMA InvRedeemInvite ==
    ASSUME Inv, NEW u \in Newcomers, RedeemInvite(u)
    PROVE  Inv'
<1>1. PICK p \in Destinations : UserActs(SendRequest(tab, Req("redeem", u, p)))
  BY DEF RedeemInvite
<1> DEFINE r == Req("redeem", u, p)
<1>2. tab.place = "invite" /\ UserActs(SendRequest(tab, r)) /\ p \in Pages
  BY <1>1, RouteFacts DEF RedeemInvite
<1>3. /\ r \in Request /\ r.kind = "redeem" /\ r.user \in Users /\ r.page = p /\ r.status = "sent" /\ r.live
  BY <1>2 DEF Req, Request, Identity, Users
<1> HIDE DEF r
<1>4. Carries(r)
  BY <1>3 DEF Carries
<1>5. Fits(SendRequest(tab, r))
  BY <1>2, <1>3, <1>4, FormFits DEF Kinds, Identity
<1> QED BY <1>2, <1>5, InvAct

LEMMA InvResetPassword ==
    ASSUME Inv, NEW u \in Members, ResetPassword(u)
    PROVE  Inv'
<1> DEFINE r == Req("reset", u, Null)
<1>1. tab.place = "reset_token" /\ UserActs(SendRequest(tab, r))
  BY DEF ResetPassword
<1>2. /\ r \in Request /\ r.kind = "reset" /\ r.user \in Users /\ r.status = "sent" /\ r.live
  BY DEF Req, Request, Identity, Users
<1> HIDE DEF r
<1>3. Carries(r)
  BY <1>2 DEF Carries
<1>4. Fits(SendRequest(tab, r))
  BY <1>1, <1>2, <1>3, FormFits DEF Kinds, Identity
<1> QED BY <1>1, <1>4, InvAct

LEMMA InvUpdateUser ==
    ASSUME Inv, NEW fit \in BOOLEAN, UpdateUser(fit)
    PROVE  Inv'
<1> DEFINE r == [Req("save", Null, Null) EXCEPT !.fit = fit]
<1>1. tab.place = "settings" /\ UserActs(SendRequest(tab, r))
  BY DEF UpdateUser
<1>2. /\ r \in Request /\ r.kind = "save" /\ r.status = "sent" /\ r.live
  BY DEF Req, Request, Identity
<1> HIDE DEF r
<1>3. Carries(r)
  BY <1>2 DEF Carries
<1>4. Fits(SendRequest(tab, r))
  BY <1>1, <1>2, <1>3, FormFits DEF Kinds, Identity
<1> QED BY <1>1, <1>4, InvAct

\* What a page sent that is loaded again goes on, with nobody to hear it.
LEMMA InvReload ==
    ASSUME Inv, Reload
    PROVE  Inv'
<1> DEFINE t == Opened(tab.stored, tab.place)
           Sent == {q \in tab.net : q.kind \in Identity /\ q.status = "sent" /\ q.live}
           Dead(r) == [r EXCEPT !.live = FALSE, !.n = r.n + 9]
           old == {Dead(r) : r \in Sent}
           g == [t EXCEPT !.net = t.net \cup old]
<1>1. UserActs(g) /\ tab.place \in Pages
  BY ActFields DEF Reload
<1>2. tab.stored \in Users \cup {Null}
  BY ActFields
<1>3. /\ Tab(t) /\ Entering(t) /\ t.user = tab.stored /\ t.stored = tab.stored
      /\ \A q \in t.net : /\ q.kind \in {"logout", "get", "sync", "load"} /\ q.status # "401"
                          /\ q.kind # "load" => q.status = "sent" /\ q.live
      /\ tab.stored # Null => \E q \in t.net : q.kind = "sync" /\ q.status = "sent" /\ q.live
      /\ tab.stored = Null => ~Pageless(t)
      /\ t.place = "settings" => tab.stored # Null
  <2> DEFINE s == tab.stored
             p == tab.place
  <2>1. s \in Users \cup {Null} /\ p \in Pages
    BY <1>1, <1>2
  <2> HIDE DEF s, p
  <2>2. LET o == Opened(s, p)
        IN  /\ Tab(o) /\ Entering(o) /\ o.user = s /\ o.stored = s
            /\ \A q \in o.net : /\ q.kind \in {"logout", "get", "sync", "load"} /\ q.status # "401"
                                /\ q.kind # "load" => q.status = "sent" /\ q.live
            /\ s # Null => \E q \in o.net : q.kind = "sync" /\ q.status = "sent" /\ q.live
            /\ s = Null => ~Pageless(o)
            /\ o.place = "settings" => s # Null
    BY <2>1, Opening
  <2> QED BY <2>2 DEF s, p
<1> HIDE DEF t
<1>4. Sent \subseteq Request /\ IsFiniteSet(Sent) /\ \A r \in Sent : Carries(r)
  <2>1. IsFiniteSet(Sent)
    BY FS_Subset, ActFields DEF Tab, Base
  <2> QED BY <2>1, ActFields DEF Tab, Base, TabType
<1>5. \A r \in Sent : LET d == Dead(r)
                      IN  /\ d \in Request /\ d.kind = r.kind /\ d.user = r.user /\ d.page = r.page
                          /\ d.fit = r.fit /\ d.status = "sent" /\ ~d.live
  <2> TAKE r \in Sent
  <2>1. r \in Request /\ r.status = "sent"
    BY <1>4
  <2>2. r.n + 9 \in Nat
    BY <2>1 DEF Request
  <2> QED BY <2>1, <2>2 DEF Request
<1>6. IsFiniteSet(old)
  <2> DEFINE f == [r \in Sent |-> Dead(r)]
  <2>1. f \in Surjection(Sent, old)
    BY DEF Surjection
  <2> HIDE DEF f
  <2> QED BY <1>4, <2>1, FS_Surjection
<1>7. \A r \in Sent : Carries(Dead(r)) /\ r.kind \in Identity
  <2> SUFFICES ASSUME NEW r \in Sent
               PROVE  Carries(Dead(r)) /\ r.kind \in Identity
    OBVIOUS
  <2>1. Carries(r) /\ r.kind \in Identity /\ r.status = "sent"
    BY <1>4
  <2>2. LET d == Dead(r)
        IN  /\ d.kind = r.kind /\ d.user = r.user /\ d.page = r.page
            /\ d.fit = r.fit /\ d.status = "sent" /\ ~d.live
    BY <1>5
  <2> HIDE DEF Dead, Sent
  <2> QED BY <2>1, <2>2 DEF Carries
<1> HIDE DEF Dead
<1>8. /\ old \subseteq Request
      /\ \A q \in old : q.kind \in Identity /\ q.status = "sent" /\ ~q.live /\ Carries(q)
  BY <1>5, <1>7
<1> HIDE DEF old, Sent
<1>9. /\ g \in TabType /\ g.net = t.net \cup old /\ Stays(t, g)
  BY <1>3, <1>8 DEF Tab, Base, TabType, Stays, Same
<1> HIDE DEF g
<1>10. Tab(g)
  <2>1. IsFiniteSet(g.net)
    <3>1. IsFiniteSet(t.net)
      BY <1>3 DEF Tab, Base
    <3> QED BY <1>6, <1>9, <3>1, FS_Union
  <2>2. \A q \in g.net : Carries(q)
    BY <1>3, <1>8, <1>9 DEF Tab, Base
  <2>3. Awaited(g)
    BY <1>3, <1>8, <1>9 DEF Tab, Awaited, Stays, Identity
  <2> QED BY <1>9, <2>1, <2>2, <2>3 DEF Tab, Base
<1>11. Entering(g)
  BY <1>3, <1>8, <1>9 DEF Entering, Stays, Same
<1>12. g.user = tab.stored /\ g.stored = tab.stored /\ g.place = t.place
  BY <1>3, <1>9 DEF Stays, Same
<1>13. ASSUME ~Crossed(g)
       PROVE  Agreed(g, session)
  <2>1. Sees(g, session)
    BY <1>3, <1>9, <1>12 DEF Sees, Corrects
  <2>2. \A q \in g.net : q.status # "401" /\ (q.kind # "load" => q.status = "sent")
    BY <1>3, <1>8, <1>9
  <2>3. \A q \in g.net : Says(q, session)
    BY <2>2 DEF Says, Identity
  <2>4. \A q \in g.net : q.kind \in Identity /\ ~q.live => g.user = Null
    <3> SUFFICES ASSUME NEW q \in g.net, q.kind \in Identity, g.user # Null
                 PROVE  FALSE
      OBVIOUS
    <3>1. PICK x \in g.net : x.kind = "sync"
      BY <1>3, <1>9, <1>12
    <3>2. x # q
      BY <3>1 DEF Identity
    <3> QED BY <1>13, <3>2 DEF Crossed
  <2>5. Settled(g)
    BY <1>3, <1>8, <1>9, <1>12, <2>4 DEF Settled, Identity
  <2> QED BY <2>1, <2>3, <2>5 DEF Agreed
<1>14. g.user = Null => ~Pageless(g)
  BY <1>3, <1>8, <1>9, <1>12 DEF Pageless, Identity
<1>15. Fits(g)
  BY <1>10, <1>11, <1>12, <1>13, <1>14 DEF Fits
<1>16. UserActs(g)
  BY <1>1 DEF g
<1> QED BY <1>15, <1>16, InvAct

---------------------------------------------------------------------------
(* The server, the network and the other tabs.                             *)

\* Of the requests, r has become q.
Turned(M, N, r, q, code, u) ==
    /\ N = (M \ {r}) \cup {q}
    /\ q.kind = r.kind /\ q.page = r.page /\ q.fit = r.fit /\ q.live = r.live
    /\ q.status = code /\ q.user = u

LEMMA Replaced ==
    ASSUME Inv, NEW r \in tab.net, NEW code \in {"ok", "refused", "401", "failed"},
           NEW u \in Users \cup {Null}, Carries([r EXCEPT !.status = code, !.user = u]),
           tab' = Becoming(r, code, u)
    PROVE  /\ Tab(tab') /\ Entering(tab') /\ Stays(tab, tab')
           /\ \E q : Turned(tab.net, tab'.net, r, q, code, u)
           /\ Crossed(tab') => Crossed(tab)
<1> DEFINE q == [r EXCEPT !.status = code, !.user = u]
           g == Becoming(r, code, u)
<1>1. r \in Request /\ Carries(r)
  BY ActFields DEF Tab, Base, TabType
<1>2. /\ q \in Request /\ q.kind = r.kind /\ q.page = r.page /\ q.fit = r.fit /\ q.live = r.live
      /\ q.status = code /\ q.user = u
  BY <1>1 DEF Request
<1>3. g = [tab EXCEPT !.net = (tab.net \ {r}) \cup {q}]
  BY DEF Becoming
<1>4. Carries(q)
  OBVIOUS
<1> HIDE DEF q
<1>5. g \in TabType /\ Stays(tab, g) /\ g.net = (tab.net \ {r}) \cup {q}
  BY <1>2, <1>3, ActFields DEF Tab, Base, TabType, Stays, Same
<1>6. tab' = g
  OBVIOUS
<1> HIDE DEF g
<1>7. IsFiniteSet(g.net)
  <2>1. IsFiniteSet(tab.net)
    BY ActFields DEF Tab, Base
  <2>2. IsFiniteSet(tab.net \ {r})
    BY <2>1, FS_RemoveElement
  <2> QED BY <1>5, <2>2, FS_AddElement
<1>8. Tab(g)
  <2>1. \A x \in g.net : Carries(x)
    BY <1>4, <1>5, ActFields DEF Tab, Base
  <2>2. Awaited(g)
    <3>1. Awaited(tab)
      BY ActFields DEF Tab
    <3> QED BY <1>2, <1>5, <3>1 DEF Awaited, Stays
  <2> QED BY <1>5, <1>7, <2>1, <2>2 DEF Tab, Base
<1>9. Entering(g)
  BY <1>2, <1>5, ActFields DEF Entering, Stays, Same
<1>10. Crossed(g) => Crossed(tab)
  <2> SUFFICES ASSUME NEW x \in g.net, x.kind \in Identity, g.net # {x}
               PROVE  Crossed(tab)
    BY DEF Crossed
  <2>1. PICK y \in g.net : y # x
    OBVIOUS
  <2>2. CASE x = q
    BY <1>2, <1>5, <2>1, <2>2 DEF Crossed
  <2>3. CASE x # q
    BY <1>5, <2>1, <2>3 DEF Crossed
  <2> QED BY <2>2, <2>3
<1>11. Turned(tab.net, g.net, r, q, code, u)
  BY <1>2, <1>5 DEF Turned
<1> QED BY <1>5, <1>6, <1>8, <1>9, <1>10, <1>11

LEMMA InvReplaced ==
    ASSUME Inv, NEW r \in tab.net, NEW code \in {"ok", "refused", "401", "failed"},
           NEW u \in Users \cup {Null}, Carries([r EXCEPT !.status = code, !.user = u]),
           tab' = Becoming(r, code, u),
           session' \in Users \cup {Null}, known' \subseteq Users,
           links' \subseteq {"invite", "reset"} \X Users,
           foreign' = foreign, losses' \in 0..MaxUpsets, haste' = haste,
           apart' \in BOOLEAN, Crossed(tab) => apart',
           ~apart' => Agreed(tab', session'),
           ~apart' /\ foreign = 0 /\ tab.user = Null /\ Pageless(tab') => session' = Null
    PROVE  Inv'
<1>1. /\ Tab(tab') /\ Entering(tab') /\ Stays(tab, tab')
      /\ Crossed(tab') => Crossed(tab)
  BY Replaced
<1>2. SessionTypeInv'
  BY <1>1 DEF Inv, SessionTypeInv
<1>3. Alone'
  BY <1>1 DEF Alone
<1>4. Agrees'
  BY DEF Agrees
<1>5. SignedOff'
  BY <1>1 DEF SignedOff, Stays, Same
<1>6. Stored'
  BY <1>1 DEF Inv, Stored, Stays, Same
<1> QED BY <1>2, <1>3, <1>4, <1>5, <1>6 DEF Inv

\* A request that changes whose session it is, is the only one, or nothing is
\* said of tab and server.
LEMMA OnlyOne ==
    ASSUME Inv, NEW r \in tab.net, r.kind \in Identity, ~apart
    PROVE  tab.net = {r} /\ ~Pageless(tab)
<1>1. tab.net = {r}
  BY DEF Inv, Alone, Crossed
<1> QED BY <1>1 DEF Pageless, Identity

LEMMA InvIdentity ==
    ASSUME Inv, NEW r \in tab.net, r.kind \in Identity, r.status = "sent",
           NEW code \in {"ok", "refused", "401"},
           NEW u \in Users \cup {Null}, Carries([r EXCEPT !.status = code, !.user = u]),
           tab' = Becoming(r, code, u),
           session' \in Users \cup {Null}, known' \subseteq Users,
           links' \subseteq {"invite", "reset"} \X Users,
           UNCHANGED <<foreign, losses, haste>>,
           apart' = apart \/ apart' = TRUE,
           ~apart' => /\ code = "ok" /\ r.kind \in {"login", "relogin"} => u = session'
                      /\ code = "ok" /\ r.kind = "logout" => session' = Null
                      /\ code = "401" => session' = Null
                      /\ code = "ok" \/ (session' = session /\ r.kind # "relogin")
    PROVE  Inv'
<1>1. /\ Stays(tab, tab')
      /\ \E q : Turned(tab.net, tab'.net, r, q, code, u)
  <2>1. code \in {"ok", "refused", "401", "failed"}
    OBVIOUS
  <2> QED BY <2>1, Replaced
<1>2. PICK q : /\ tab'.net = (tab.net \ {r}) \cup {q}
               /\ q.kind = r.kind /\ q.page = r.page /\ q.fit = r.fit /\ q.live = r.live
               /\ q.status = code /\ q.user = u
  BY <1>1 DEF Turned
<1>3. apart \in BOOLEAN
  BY DEF Inv, SessionTypeInv
<1>4. ASSUME ~apart'
      PROVE  tab.net = {r} /\ tab'.net = {q} /\ Agreed(tab, session)
  BY <1>2, <1>3, <1>4, OnlyOne DEF Inv, Agrees
<1>5. ASSUME ~apart'
      PROVE  Agreed(tab', session')
  <2>1. /\ Sees(tab, session) /\ Settled(tab)
    BY <1>4, <1>5 DEF Agreed
  <2>2. Says(q, session')
    BY <1>2, <1>5 DEF Says, Identity
  <2>3. Settled(tab')
    <3>1. /\ tab.place = "settings" => tab.user # Null
          /\ r.kind \in Identity /\ ~r.live => tab.user = Null
          /\ r.kind = "save" /\ r.live => tab.user # Null
          /\ r.kind = "login" /\ ~r.fit /\ r.live => tab.place # "settings"
      BY <2>1 DEF Settled
    <3> QED BY <1>1, <1>2, <1>4, <1>5, <3>1 DEF Settled, Stays, Same
  <2>4. Sees(tab', session')
    <3>1. CASE code = "ok" /\ r.live
      BY <1>2, <3>1 DEF Sees, Corrects
    <3>2. CASE code = "ok" /\ ~r.live
      BY <1>1, <2>1, <3>2 DEF Sees, Settled, Stays, Same
    <3>3. CASE code # "ok"
      <4>1. ~Corrects(r)
        BY <1>5, <3>3 DEF Corrects, Identity
      <4> QED BY <1>1, <1>4, <1>5, <2>1, <3>3, <4>1 DEF Sees, Stays, Same
    <3> QED BY <3>1, <3>2, <3>3
  <2> QED BY <1>4, <1>5, <2>2, <2>3, <2>4 DEF Agreed
<1>6. ~apart' => ~Pageless(tab')
  BY <1>2, <1>4 DEF Pageless, Identity
<1>7. /\ losses' \in 0..MaxUpsets /\ apart' \in BOOLEAN /\ (Crossed(tab) => apart')
  BY <1>3 DEF Inv, SessionTypeInv, Alone
<1> QED BY <1>5, <1>6, <1>7, InvReplaced

\* Those that leave the session alone.
LEMMA InvOther ==
    ASSUME Inv, NEW r \in tab.net, r.kind \notin Identity,
           NEW code \in {"ok", "refused", "401", "failed"},
           NEW u \in Users \cup {Null}, Carries([r EXCEPT !.status = code, !.user = u]),
           tab' = Becoming(r, code, u),
           session' = session, known' \subseteq Users, links' = links,
           foreign' = foreign, losses' \in 0..MaxUpsets, haste' = haste,
           apart' = apart \/ apart' = TRUE \/ (r.kind = "sync" /\ tab.net = {r} /\ tab.user # Null),
           apart' \in BOOLEAN,
           ~apart' => /\ r.kind = "sync" => code \in {"ok", "401"} /\ (code = "ok" => u = session)
                      /\ code = "401" => session = Null
    PROVE  Inv'
<1>1. /\ Stays(tab, tab')
      /\ \E q : Turned(tab.net, tab'.net, r, q, code, u)
  <2>1. code \in {"ok", "refused", "401", "failed"}
    OBVIOUS
  <2> QED BY <2>1, Replaced
<1>2. PICK q : /\ tab'.net = (tab.net \ {r}) \cup {q}
               /\ q.kind = r.kind /\ q.page = r.page /\ q.fit = r.fit /\ q.live = r.live
               /\ q.status = code /\ q.user = u
  BY <1>1 DEF Turned
<1>3. apart \in BOOLEAN /\ Carries(r)
  BY ActFields DEF Inv, SessionTypeInv, Tab, Base
<1>4. ASSUME ~apart'
      PROVE  Says(q, session)
  BY <1>2, <1>4 DEF Says, Identity
<1>5. r.kind = "sync" => r.live
  BY <1>3 DEF Carries, Identity
<1>6. ASSUME ~apart', ~apart
      PROVE  /\ Agreed(tab', session)
             /\ foreign = 0 /\ tab.user = Null /\ Pageless(tab') => session = Null
  <2>1. Sees(tab, session) /\ Settled(tab) /\ \A x \in tab.net : Says(x, session)
    BY <1>6 DEF Inv, Agrees, Agreed
  <2>2. \A x \in tab'.net : Says(x, session)
    BY <1>2, <1>4, <1>6, <2>1
  <2>3. Settled(tab')
    BY <1>1, <1>2, <2>1 DEF Settled, Stays, Same, Identity
  <2>4. Corrects(r) => Corrects(q)
    BY <1>2, <1>5, <1>6 DEF Corrects, Identity
  <2>5. Sees(tab', session)
    BY <1>1, <1>2, <2>1, <2>4 DEF Sees, Stays, Same
  <2>6. Pageless(tab') => Pageless(tab)
    BY <1>2 DEF Pageless
  <2>7. foreign = 0 /\ tab.user = Null /\ Pageless(tab) => session = Null
    BY <1>6 DEF Inv, SignedOff
  <2> QED BY <2>2, <2>3, <2>5, <2>6, <2>7 DEF Agreed
<1>7. ASSUME ~apart', apart
      PROVE  Agreed(tab', session) /\ tab.user # Null
  <2>1. r.kind = "sync" /\ tab.net = {r} /\ tab.user # Null
    BY <1>7
  <2>2. tab'.net = {q} /\ tab'.user # Null
    BY <1>1, <1>2, <2>1 DEF Stays, Same
  <2>3. Corrects(q)
    BY <1>2, <1>5, <1>7, <2>1 DEF Corrects
  <2>4. Settled(tab')
    BY <1>2, <2>1, <2>2 DEF Settled, Identity
  <2> QED BY <1>4, <1>7, <2>1, <2>2, <2>3, <2>4 DEF Agreed, Sees
<1>8. Crossed(tab) => apart'
  <2> SUFFICES ASSUME Crossed(tab)
               PROVE  apart'
    OBVIOUS
  <2>1. apart
    BY DEF Inv, Alone
  <2>2. ~(r.kind = "sync" /\ tab.net = {r})
    BY DEF Crossed, Identity
  <2> QED BY <1>3, <2>1, <2>2
<1>9. /\ session' \in Users \cup {Null} /\ links' \subseteq {"invite", "reset"} \X Users
      /\ ~apart' => Agreed(tab', session')
      /\ ~apart' /\ foreign = 0 /\ tab.user = Null /\ Pageless(tab') => session' = Null
  BY <1>3, <1>6, <1>7 DEF Inv, SessionTypeInv
<1> QED BY <1>8, <1>9, InvReplaced

---------------------------------------------------------------------------

LEMMA RequestTypes ==
    ASSUME Inv, NEW r \in tab.net
    PROVE  /\ r \in Request /\ Carries(r) /\ r.user \in Users \cup {Null}
           /\ \A code, u : LET q == [r EXCEPT !.status = code, !.user = u]
                             IN  /\ q.kind = r.kind /\ q.page = r.page /\ q.fit = r.fit
                                 /\ q.live = r.live /\ q.status = code /\ q.user = u
<1>1. r \in Request /\ Carries(r)
  BY ActFields DEF Tab, Base, TabType
<1> QED BY <1>1 DEF Request

LEMMA InvServeRead ==
    ASSUME Inv, NEW r \in tab.net, r.status = "sent", ServeRead(r),
           UNCHANGED <<foreign, losses, haste>>
    PROVE  Inv'
<1>1. /\ r.kind \in {"sync", "get", "load"} /\ r.kind \notin Identity
      /\ session' = session /\ known' = known /\ links' = links
  BY DEF ServeRead, Identity
<1>2. PICK code \in {"ok", "401", "refused"}, u \in Users \cup {Null} :
        /\ tab' = Becoming(r, code, u)
        /\ code = "401" => session = Null /\ u = Null
        /\ r.kind = "sync" /\ code = "ok" => u = session /\ session # Null
        /\ code = "refused" => r.kind = "load"
  <2>1. session \in Users \cup {Null}
    BY DEF Inv, SessionTypeInv
  <2>2. r.kind = "sync" => r.page \notin Loads \ Guarded
    BY RequestTypes, RouteFacts DEF Carries
  <2>3. CASE /\ session = Null /\ r.page \notin Loads \ Guarded
             /\ tab' = Becoming(r, "401", Null)
    BY <2>3
  <2>4. CASE /\ session # Null \/ r.page \in Loads \ Guarded
             /\ tab' = Becoming(r, "ok", IF r.kind = "sync" THEN session ELSE Null)
    BY <2>1, <2>2, <2>4
  <2>5. CASE /\ session # Null /\ r.kind = "load"
             /\ tab' = Becoming(r, "refused", Null)
    BY <2>5
  <2> QED BY <2>3, <2>4, <2>5 DEF ServeRead
<1>3. Carries([r EXCEPT !.status = code, !.user = u])
  <2> DEFINE q == [r EXCEPT !.status = code, !.user = u]
  <2>1. /\ q.kind = r.kind /\ q.page = r.page /\ q.fit = r.fit
        /\ q.live = r.live /\ q.status = code /\ q.user = u /\ Carries(r)
    BY RequestTypes
  <2> HIDE DEF q
  <2>2. Carries(q)
    BY <1>1, <1>2, <2>1 DEF Carries, Identity
  <2> QED BY <2>2 DEF q
<1>4. /\ apart' = IF r.kind = "sync" /\ tab.net = {r} /\ tab.user # Null THEN FALSE ELSE apart
      /\ apart \in BOOLEAN
  BY DEF ServeRead, Inv, SessionTypeInv
<1>5. /\ known' \subseteq Users /\ losses' \in 0..MaxUpsets
  BY <1>1 DEF Inv, SessionTypeInv
<1>6. /\ apart' = apart \/ apart' = TRUE \/ (r.kind = "sync" /\ tab.net = {r} /\ tab.user # Null)
      /\ apart' \in BOOLEAN
  BY <1>4
<1> QED BY <1>1, <1>2, <1>3, <1>5, <1>6, InvOther

LEMMA ServeTypes ==
    ASSUME Inv
    PROVE  session \in Users \cup {Null} /\ known \subseteq Users /\ links \subseteq {"invite", "reset"} \X Users
BY DEF Inv, SessionTypeInv

\* What an answer to one of these forms carries.
LEMMA AnswerCarries ==
    ASSUME Inv, NEW r \in tab.net,
           r.kind \in {"logout", "redeem", "reset", "signup", "save", "login", "relogin"}
    PROVE  /\ r.user \in Users =>
                 /\ Carries([r EXCEPT !.status = "ok", !.user = r.user])
                 /\ r.kind \notin {"login", "relogin"} =>
                       Carries([r EXCEPT !.status = "refused", !.user = r.user])
           /\ r.kind \in {"save", "logout"} =>
                 \A u : /\ Carries([r EXCEPT !.status = "ok", !.user = u])
                       /\ Carries([r EXCEPT !.status = "refused", !.user = u])
                       /\ Carries([r EXCEPT !.status = "401", !.user = u])
           /\ r.kind = "login" /\ ~r.fit => Carries([r EXCEPT !.status = "refused", !.user = Null])
<1>1. ASSUME NEW code \in {"ok", "refused", "401"}, NEW u,
             code = "ok" => u \in Users \/ r.kind \in {"save", "logout"},
             r.kind \in {"login", "relogin"} =>
                 code = "ok" \/ (code = "refused" /\ r.kind = "login" /\ ~r.fit)
      PROVE  Carries([r EXCEPT !.status = code, !.user = u])
  <2> DEFINE q == [r EXCEPT !.status = code, !.user = u]
  <2>1. /\ q.kind = r.kind /\ q.page = r.page /\ q.fit = r.fit
        /\ q.live = r.live /\ q.status = code /\ q.user = u /\ Carries(r)
    BY RequestTypes
  <2> HIDE DEF q
  <2>2. Carries(q)
    BY <1>1, <2>1 DEF Carries, Identity
  <2> QED BY <2>2 DEF q
<1>2. ASSUME r.user \in Users
      PROVE  /\ Carries([r EXCEPT !.status = "ok", !.user = r.user])
             /\ r.kind \notin {"login", "relogin"} =>
                   Carries([r EXCEPT !.status = "refused", !.user = r.user])
  BY <1>1, <1>2
<1>3. ASSUME r.kind \in {"save", "logout"}, NEW u
      PROVE  /\ Carries([r EXCEPT !.status = "ok", !.user = u])
             /\ Carries([r EXCEPT !.status = "refused", !.user = u])
             /\ Carries([r EXCEPT !.status = "401", !.user = u])
  BY <1>1, <1>3
<1>4. ASSUME r.kind = "login", ~r.fit
      PROVE  Carries([r EXCEPT !.status = "refused", !.user = Null])
  BY <1>1, <1>4
<1> QED BY <1>2, <1>3, <1>4

LEMMA InvServeSignIn ==
    ASSUME Inv, NEW r \in tab.net, r.status = "sent", ServeSignIn(r),
           UNCHANGED <<foreign, losses, haste>>
    PROVE  Inv'
<1> DEFINE code == IF r.fit THEN "ok" ELSE "refused"
           u == IF r.fit THEN r.user ELSE Null
<1>1. /\ r.kind \in {"login", "relogin"} /\ tab' = Becoming(r, code, u)
      /\ session' = IF r.fit THEN r.user ELSE session
      /\ known' = known /\ links' = links /\ apart' = apart
  BY DEF ServeSignIn
<1>2. r.user \in Users /\ (r.kind = "relogin" => r.fit)
  BY <1>1, RequestTypes DEF Carries
<1>3. code = (IF r.fit THEN "ok" ELSE "refused") /\ u = (IF r.fit THEN r.user ELSE Null)
  OBVIOUS
<1>4. Carries([r EXCEPT !.status = code, !.user = u])
  BY <1>1, <1>2, <1>3, AnswerCarries
<1>5. /\ code \in {"ok", "refused", "401"} /\ u \in Users \cup {Null}
      /\ code = "ok" => u = session'
      /\ code # "ok" => session' = session /\ r.kind # "relogin"
      /\ code # "401"
      /\ session' \in Users \cup {Null}
  BY <1>1, <1>2, ServeTypes
<1>6. r.kind \in Identity /\ r.kind # "logout"
  BY <1>1 DEF Identity
<1> HIDE DEF code, u
<1> QED BY <1>1, <1>4, <1>5, <1>6, ServeTypes, InvIdentity

LEMMA InvServeSignOut ==
    ASSUME Inv, NEW r \in tab.net, r.status = "sent", ServeSignOut(r),
           UNCHANGED <<foreign, losses, haste>>
    PROVE  Inv'
<1>1. /\ r.kind = "logout" /\ tab' = Becoming(r, "ok", Null) /\ session' = Null
      /\ known' = known /\ links' = links /\ apart' = apart
  BY DEF ServeSignOut
<1>2. Carries([r EXCEPT !.status = "ok", !.user = Null])
  BY <1>1, AnswerCarries
<1>3. r.kind \in Identity
  BY <1>1 DEF Identity
<1> QED BY <1>1, <1>2, <1>3, ServeTypes, InvIdentity

LEMMA InvServeRedeem ==
    ASSUME Inv, NEW r \in tab.net, r.status = "sent", ServeRedeem(r),
           UNCHANGED <<foreign, losses, haste>>
    PROVE  Inv'
<1>1. r.kind = "redeem" /\ r.user \in Users /\ r.kind \in Identity
  BY RequestTypes DEF ServeRedeem, Carries, Identity
<1>2. /\ Carries([r EXCEPT !.status = "ok", !.user = r.user])
      /\ Carries([r EXCEPT !.status = "refused", !.user = r.user])
  BY <1>1, AnswerCarries
<1>3. CASE /\ tab' = Becoming(r, "ok", r.user) /\ session' = Null
           /\ links' = links \ {<<"invite", r.user>>} /\ known' = known \cup {r.user}
           /\ UNCHANGED apart
  <2>1. links' \subseteq {"invite", "reset"} \X Users /\ known' \subseteq Users
    BY <1>1, <1>3, ServeTypes
  <2> QED BY <1>1, <1>2, <1>3, <2>1, InvIdentity
<1>4. CASE /\ tab' = Becoming(r, "refused", r.user) /\ session' = r.user
           /\ apart' = TRUE
           /\ UNCHANGED <<known, links>>
  BY <1>1, <1>2, <1>4, ServeTypes, InvIdentity
<1>5. CASE tab' = Becoming(r, "refused", r.user) /\ UNCHANGED <<session, known, links, apart>>
  BY <1>1, <1>2, <1>5, ServeTypes, InvIdentity
<1> QED BY <1>3, <1>4, <1>5 DEF ServeRedeem

LEMMA InvServeReset ==
    ASSUME Inv, NEW r \in tab.net, r.status = "sent", ServeReset(r),
           UNCHANGED <<foreign, losses, haste>>
    PROVE  Inv'
<1>1. r.kind = "reset" /\ r.user \in Users /\ r.kind \in Identity /\ known' = known /\ apart' = apart
  BY RequestTypes DEF ServeReset, Carries, Identity
<1>2. /\ Carries([r EXCEPT !.status = "ok", !.user = r.user])
      /\ Carries([r EXCEPT !.status = "refused", !.user = r.user])
  BY <1>1, AnswerCarries
<1>3. CASE /\ tab' = Becoming(r, "ok", r.user) /\ session' = r.user
           /\ links' = links \ {<<"reset", r.user>>}
  <2>1. links' \subseteq {"invite", "reset"} \X Users
    BY <1>3, ServeTypes
  <2> QED BY <1>1, <1>2, <1>3, <2>1, ServeTypes, InvIdentity
<1>4. CASE tab' = Becoming(r, "refused", r.user) /\ UNCHANGED <<session, links>>
  BY <1>1, <1>2, <1>4, ServeTypes, InvIdentity
<1> QED BY <1>3, <1>4 DEF ServeReset

LEMMA InvServeSignup ==
    ASSUME Inv, NEW r \in tab.net, r.status = "sent", ServeSignup(r),
           UNCHANGED <<foreign, losses, haste>>
    PROVE  Inv'
<1>1. /\ r.kind = "signup" /\ r.user \in Users /\ r.kind \notin Identity
      /\ session' = session /\ links' = links /\ apart' = apart
  BY RequestTypes DEF ServeSignup, Carries, Identity
<1>2. /\ Carries([r EXCEPT !.status = "ok", !.user = r.user])
      /\ Carries([r EXCEPT !.status = "refused", !.user = r.user])
  BY <1>1, AnswerCarries
<1>3. PICK code \in {"ok", "refused"} : tab' = Becoming(r, code, r.user)
  BY DEF ServeSignup
<1>4. known' \subseteq Users
  BY <1>1, ServeTypes DEF ServeSignup
<1>5. losses' \in 0..MaxUpsets /\ apart' \in BOOLEAN
  BY <1>1 DEF Inv, SessionTypeInv
<1> QED BY <1>1, <1>2, <1>3, <1>4, <1>5, InvOther

LEMMA InvServeSave ==
    ASSUME Inv, NEW r \in tab.net, r.status = "sent", ServeSave(r),
           UNCHANGED <<foreign, losses, haste>>
    PROVE  Inv'
<1>1. r.kind = "save" /\ r.kind \in Identity /\ UNCHANGED <<known, links, apart>>
  BY DEF ServeSave, Identity
<1>2. CASE session = Null
  <2>1. tab' = Becoming(r, "401", Null) /\ session' = session
    BY <1>2 DEF ServeSave
  <2>2. Carries([r EXCEPT !.status = "401", !.user = Null])
    BY <1>1, AnswerCarries
  <2> QED BY <1>1, <1>2, <2>1, <2>2, ServeTypes, InvIdentity
<1>3. CASE tab' = Becoming(r, "ok", session) /\ session' = IF r.fit THEN session ELSE Null
  <2>1. Carries([r EXCEPT !.status = "ok", !.user = session])
    BY <1>1, AnswerCarries
  <2>2. session' \in Users \cup {Null}
    BY <1>3, ServeTypes
  <2> QED BY <1>1, <1>3, <2>1, <2>2, ServeTypes, InvIdentity
<1>4. CASE tab' = Becoming(r, "refused", Null) /\ UNCHANGED session
  <2>1. Carries([r EXCEPT !.status = "refused", !.user = Null])
    BY <1>1, AnswerCarries
  <2> QED BY <1>1, <1>4, <2>1, ServeTypes, InvIdentity
<1> QED BY <1>2, <1>3, <1>4 DEF ServeSave

LEMMA InvServe ==
    ASSUME Inv, ServeRequest
    PROVE  Inv'
<1>1. PICK r \in tab.net :
        /\ r.status = "sent"
        /\ \/ ServeRead(r) \/ ServeSignIn(r) \/ ServeSignOut(r) \/ ServeRedeem(r)
           \/ ServeReset(r) \/ ServeSignup(r) \/ ServeSave(r)
  BY DEF ServeRequest
<1>2. UNCHANGED <<foreign, losses, haste>>
  BY DEF ServeRequest
<1> QED
  BY <1>1, <1>2, InvServeRead, InvServeSignIn, InvServeSignOut, InvServeRedeem, InvServeReset,
     InvServeSignup, InvServeSave

LEMMA InvFail ==
    ASSUME Inv, Fail
    PROVE  Inv'
<1>1. PICK r \in tab.net :
        /\ tab' = Becoming(r, "failed", Null)
        /\ apart' = (apart \/ r.kind \in Identity \cup {"sync"})
  BY DEF Fail
<1>2. Carries([r EXCEPT !.status = "failed", !.user = Null])
  <2> DEFINE q == [r EXCEPT !.status = "failed", !.user = Null]
  <2>1. /\ q.kind = r.kind /\ q.page = r.page /\ q.fit = r.fit
        /\ q.live = r.live /\ q.status = "failed" /\ q.user = Null /\ Carries(r)
    BY RequestTypes
  <2> HIDE DEF q
  <2>2. Carries(q)
    BY <2>1 DEF Carries
  <2> QED BY <2>2 DEF q
<1>3. /\ foreign' = foreign /\ haste' = haste /\ losses' \in 0..MaxUpsets
      /\ session' = session /\ known' = known /\ links' = links /\ apart \in BOOLEAN
  BY RoutesOK DEF Fail, Inv, SessionTypeInv
<1>4. CASE r.kind \in Identity \cup {"sync"}
  <2>1. apart' = TRUE
    BY <1>1, <1>4
  <2> QED BY <1>1, <1>2, <1>3, <2>1, ServeTypes, InvReplaced
<1>5. CASE r.kind \notin Identity \cup {"sync"}
  <2>1. apart' = apart
    BY <1>1, <1>3, <1>5
  <2> QED BY <1>1, <1>2, <1>3, <1>5, <2>1, ServeTypes, InvOther
<1> QED BY <1>4, <1>5

LEMMA InvOtherTab ==
    ASSUME Inv, OtherTab
    PROVE  Inv'
<1>1. PICK u \in known \cup {Null} : session' = u /\ tab' = [tab EXCEPT !.stored = u]
  BY DEF OtherTab
<1>2. u \in Users \cup {Null}
  BY ServeTypes
<1>3. /\ tab' \in TabType /\ tab'.net = tab.net /\ tab'.user = tab.user /\ tab'.nav = tab.nav
      /\ tab'.place = tab.place /\ tab'.target = tab.target /\ tab'.loading = tab.loading
  BY <1>1, <1>2, ActFields DEF Tab, Base, TabType
<1>4. Tab(tab') /\ Entering(tab')
  BY <1>3, ActFields DEF Tab, Base, Awaited, Entering
<1>5. /\ apart' = TRUE /\ foreign' \in 0..MaxUpsets /\ foreign' # 0
      /\ known' = known /\ links' = links /\ losses' = losses /\ haste' = haste
  BY RoutesOK DEF OtherTab, Inv, SessionTypeInv
<1>6. SessionTypeInv'
  BY <1>1, <1>2, <1>4, <1>5 DEF Inv, SessionTypeInv
<1> QED BY <1>5, <1>6 DEF Inv, Alone, Agrees, SignedOff, Stored

LEMMA InvExpire ==
    ASSUME Inv, Expire
    PROVE  Inv'
<1>1. /\ apart' = TRUE /\ foreign' \in 0..MaxUpsets /\ foreign' # 0 /\ session' = Null
      /\ known' = known /\ links' = links /\ tab' = tab /\ losses' = losses /\ haste' = haste
  BY RoutesOK DEF Expire, Inv, SessionTypeInv
<1>2. SessionTypeInv'
  BY <1>1 DEF Inv, SessionTypeInv
<1> QED BY <1>1, <1>2 DEF Inv, Alone, Agrees, SignedOff, Stored

---------------------------------------------------------------------------
(* Answers.                                                                *)

Without(r) == [tab EXCEPT !.net = tab.net \ {r}]

LEMMA Taken ==
    ASSUME Inv, NEW r \in tab.net
    PROVE  LET t == Without(r)
           IN  /\ Base(t) /\ Stays(tab, t) /\ t.net = tab.net \ {r} /\ Entering(t)
               /\ ~(r.kind = "load" /\ r.live) => Tab(t)
               /\ Pageless(t) => Pageless(tab)
<1> DEFINE t == Without(r)
<1>1. t \in TabType /\ Stays(tab, t) /\ t.net = tab.net \ {r}
  BY ActFields DEF Tab, Base, TabType, Stays, Same, Without
<1> HIDE DEF t
<1>2. IsFiniteSet(t.net)
  BY <1>1, ActFields, FS_RemoveElement DEF Tab, Base
<1>3. Base(t)
  BY <1>1, <1>2, ActFields DEF Tab, Base
<1>4. Entering(t)
  BY <1>1, ActFields DEF Entering, Stays, Same
<1>5. ~(r.kind = "load" /\ r.live) => Tab(t)
  <2>1. Awaited(tab)
    BY ActFields DEF Tab
  <2> QED BY <1>1, <1>3, <2>1 DEF Tab, Awaited, Stays
<1>6. Pageless(t) => Pageless(tab)
  BY <1>1 DEF Pageless
<1> QED BY <1>1, <1>3, <1>4, <1>5, <1>6 DEF t

\* A guarded page has a user, but for a login that was refused.
Modest(r, g) ==
    Guards(g) /\ g.user = Null =>
        \/ Guards(tab) /\ tab.user = Null
        \/ r.kind \in {"login", "relogin"} /\ r.status \in {"refused", "failed"}

\* Nobody is signed in but by a request for it.
ByRequest(r, g) ==
    tab.user = Null /\ g.user # Null /\ ~apart /\ foreign = 0 =>
        r.status = "ok" /\ r.kind # "load" /\ (r.kind \in {"login", "relogin"} \/ r.page # Null)

Takes(r, g) ==
    /\ Fits(g) /\ Modest(r, g) /\ ByRequest(r, g)
    /\ Given(tab.net \ {r}, g.net, Kinds)

LEMMA AnswerFits ==
    ASSUME Inv, NEW r \in tab.net, r.status # "sent", NEW g, Tab(g), Entering(g),
           Kept(tab.net \ {r}, g.net), Given(tab.net \ {r}, g.net, Kinds \ {"save", "redeem", "reset"}),
           \A q \in g.net : q.kind = "login" => q \in tab.net \/ q.fit,
           ~apart /\ g.place = "settings" => g.user # Null,
           ~apart => Sees(g, session),
           ~apart /\ foreign = 0 /\ g.user = Null /\ Pageless(g) => session = Null,
           foreign = 0 => g.stored = g.user,
           Modest(r, g), ByRequest(r, g)
    PROVE  Takes(r, g)
<1>1. ASSUME ~apart
      PROVE  Agreed(g, session)
  <2>1. \A q \in tab.net : Says(q, session)
    BY <1>1 DEF Inv, Agrees, Agreed
  <2>2. \A q \in g.net : Says(q, session)
    <3>1. \A q \in g.net : \/ q \in tab.net
                           \/ q.kind = "load" /\ (q.status = "401" => session = Null)
                           \/ q.status = "sent"
      BY <2>1 DEF Given, Says
    <3> QED BY <2>1, <3>1 DEF Says, Identity
  <2>3. \A q \in tab.net : q.kind \in Identity => q = r
    BY <1>1, OnlyOne
  <2>4. \A q \in g.net : \/ q \notin tab.net /\ q.live /\ q.kind # "save"
                         \/ q.kind = "load"
                         \/ q \in tab.net \ {r}
                         \/ q.status = "sent" /\ q.live /\ q.kind # "save"
    BY DEF Given
  <2>5. \A q \in g.net : q.kind \in Identity => q.live /\ q.kind # "save"
    BY <2>3, <2>4 DEF Identity
  <2>6. \A q \in g.net : q.kind = "login" => q.fit
    <3> SUFFICES ASSUME NEW q \in g.net, q.kind = "login", q \in tab.net
                 PROVE  FALSE
      OBVIOUS
    <3>1. q = r
      BY <2>3 DEF Identity
    <3>2. q \in tab.net \ {r} \/ q.status = "sent"
      BY DEF Given
    <3> QED BY <3>1, <3>2
  <2>7. Settled(g)
    <3>1. g.place = "settings" => g.user # Null
      BY <1>1
    <3>2. \A q \in g.net : /\ ~(q.kind \in Identity /\ ~q.live)
                          /\ ~(q.kind = "save" /\ q.live)
                          /\ ~(q.kind = "login" /\ ~q.fit /\ q.live)
      BY <2>5, <2>6 DEF Identity
    <3> QED BY <3>1, <3>2 DEF Settled
  <2> QED BY <1>1, <2>2, <2>7 DEF Agreed
<1>2. Fits(g)
  BY <1>1 DEF Fits
<1>3. Given(tab.net \ {r}, g.net, Kinds)
  BY GivenWider
<1> QED BY <1>2, <1>3 DEF Takes

\* The rest of the requests keeps what was seen.
LEMMA SeesStill ==
    ASSUME Inv, NEW r \in tab.net, ~apart, ~Corrects(r), NEW g, g.user = tab.user,
           Kept(tab.net \ {r}, g.net)
    PROVE  Sees(g, session)
<1>1. Sees(tab, session)
  BY DEF Inv, Agrees, Agreed
<1>2. \A q : Corrects(q) => q.kind # "load"
  BY DEF Corrects, Identity
<1> QED BY <1>1, <1>2 DEF Sees, Kept

\* The tab goes on as it was.
LEMMA Nothing ==
    ASSUME Inv, NEW r \in tab.net, r.status # "sent", ~(r.kind = "load" /\ r.live),
           ~apart => ~Corrects(r) \/ tab.user = Null
    PROVE  Takes(r, Without(r))
<1> DEFINE g == Without(r)
<1>1. /\ Tab(g) /\ Stays(tab, g) /\ g.net = tab.net \ {r} /\ Entering(g)
      /\ Pageless(g) => Pageless(tab)
  BY Taken
<1> HIDE DEF g
<1>2. /\ Kept(tab.net \ {r}, g.net) /\ Given(tab.net \ {r}, g.net, Kinds \ {"save", "redeem", "reset"})
      /\ \A q \in g.net : q.kind = "login" => q \in tab.net
  BY <1>1 DEF Kept, Given
<1>3. g.user = tab.user /\ g.stored = tab.stored /\ g.place = tab.place /\ g.target = tab.target
  BY <1>1 DEF Stays, Same
<1>4. ~apart => Sees(g, session)
  BY <1>2, <1>3, SeesStill DEF Sees
<1>5. ~apart /\ g.place = "settings" => g.user # Null
  BY <1>3 DEF Inv, Agrees, Agreed, Settled
<1>6. ~apart /\ foreign = 0 /\ g.user = Null /\ Pageless(g) => session = Null
  BY <1>1, <1>3 DEF Inv, SignedOff
<1>7. foreign = 0 => g.stored = g.user
  BY <1>3 DEF Inv, Stored
<1>8. Modest(r, g) /\ ByRequest(r, g)
  BY <1>3 DEF Modest, ByRequest, Guards
<1>9. Takes(r, g)
  BY <1>1, <1>2, <1>4, <1>5, <1>6, <1>7, <1>8, AnswerFits
<1> QED BY <1>9 DEF g

\* The session has ended.
LEMMA Ended ==
    ASSUME Inv, NEW r \in tab.net, r.status = "401"
    PROVE  Takes(r, ClearUser(Without(r)))
<1> DEFINE t == Without(r)
           g == ClearUser(t)
<1>1. Base(t) /\ Stays(tab, t) /\ t.net = tab.net \ {r}
  BY Taken
<1> HIDE DEF t
<1>2. /\ Tab(g) /\ g.user = Null /\ g.stored = Null /\ g.place = "login" /\ g.target = Null
      /\ Kept(t.net, g.net) /\ Given(t.net, g.net, {})
      /\ ~Guards(g)
  BY <1>1, Clearing
<1> HIDE DEF g
<1>3. /\ Kept(tab.net \ {r}, g.net) /\ Given(tab.net \ {r}, g.net, Kinds \ {"save", "redeem", "reset"})
      /\ \A q \in g.net : q.kind = "login" => q \in tab.net
  BY <1>1, <1>2 DEF Given
<1>4. Entering(g) /\ Sees(g, session)
  BY <1>2 DEF Entering, Sees
<1>5. ~apart => session = Null
  BY DEF Inv, Agrees, Agreed, Says
<1>6. Modest(r, g) /\ ByRequest(r, g)
  BY <1>2 DEF Modest, ByRequest
<1>7. Takes(r, g)
  BY <1>2, <1>3, <1>4, <1>5, <1>6, AnswerFits
<1> QED BY <1>7 DEF g, t

Later == Kinds \ {"save", "redeem", "reset"}

\* Two things done on one answer.
LEMMA Both ==
    ASSUME NEW L, NEW M, NEW N, Kept(L, M), Kept(M, N),
           Given(L, M, Later \ {"login"}), Given(M, N, Later \ {"login"})
    PROVE  Kept(L, N) /\ Given(L, N, Later \ {"login"})
<1>1. Given(L, N, (Later \ {"login"}) \cup (Later \ {"login"}))
  BY GivenMore
<1> QED BY <1>1, KeptMore

LEMMA NoLogin ==
    ASSUME NEW r \in tab.net, NEW N, Given(tab.net \ {r}, N, Later \ {"login"})
    PROVE  /\ Given(tab.net \ {r}, N, Kinds \ {"save", "redeem", "reset"})
           /\ \A q \in N : q.kind = "login" => q \in tab.net
BY DEF Given, Later

LEMMA GivenLater ==
    \A M, N, kinds : kinds \subseteq {"logout", "get", "sync", "load", "relogin"} /\ Given(M, N, kinds) =>
        Given(M, N, Later \ {"login"})
BY DEF Given, Later, Kinds, Identity

\* The user of an answer, with whatever page it leads to: the tab sees the session.
LEMMA UserFits ==
    ASSUME Inv, NEW r \in tab.net, r.status = "ok", r.kind \in {"sync", "login", "relogin"},
           NEW g, Tab(g), Entering(g), g.user = r.user, g.stored = r.user, r.user \in Users,
           Kept(tab.net \ {r}, g.net), Given(tab.net \ {r}, g.net, Later \ {"login"})
    PROVE  Takes(r, g)
<1>1. ~apart => Says(r, session)
  BY DEF Inv, Agrees, Agreed
<1>2. ~apart => Sees(g, session)
  BY <1>1 DEF Sees, Says
<1>3. g.user # Null
  BY RouteFacts
<1>4. Modest(r, g)
  BY <1>3 DEF Modest
<1>5. ByRequest(r, g)
  <2> SUFFICES ASSUME tab.user = Null, ~apart, foreign = 0, r.kind = "sync", r.page = Null
               PROVE  FALSE
    BY DEF ByRequest
  <2>1. Pageless(tab)
    BY DEF Pageless
  <2>2. session = Null
    BY <2>1 DEF Inv, SignedOff
  <2> QED BY <1>1, <1>3, <2>2 DEF Says
<1> QED BY <1>2, <1>3, <1>4, <1>5, NoLogin, AnswerFits

LEMMA SyncedTakes ==
    ASSUME Inv, NEW r \in tab.net, r.status = "ok", r.kind = "sync", r.live
    PROVE  Takes(r, Synced(Without(r), r))
<1> DEFINE t == Without(r)
           s == setCurrentUser(t, r.user)
           g == Synced(t, r)
<1>1. r.user \in Users /\ r.page \in {Null, "root"} \cup Destinations
  BY RequestTypes DEF Carries
<1>2. Tab(t) /\ Stays(tab, t) /\ t.net = tab.net \ {r} /\ Entering(t)
  BY Taken
<1> HIDE DEF t
<1>3. /\ Tab(s) /\ s.user = r.user /\ s.stored = r.user /\ s.place = t.place /\ s.net = t.net /\ s.nav = t.nav
  BY <1>1, <1>2, Signing DEF Tab
<1>4. g = CASE r.page = Null -> s
            [] r.page = "root" -> SessionUpdated(Go(s, "root", "root"))
            [] OTHER -> Go(s, r.page, s.place)
  BY DEF Synced
<1> HIDE DEF s, g
<1>5. r.user # Null /\ Destinations \subseteq Pages /\ "root" \in Pages /\ Null \notin Pages
  BY <1>1, RouteFacts
<1>6. tab.place = "none" => r.page = Null
  BY ActFields DEF Entering
<1>7. CASE r.page = Null
  <2>1. g = s
    BY <1>4, <1>5, <1>7
  <2>2. Entering(g)
    BY <1>2, <1>3, <1>5, <2>1 DEF Entering
  <2>3. Kept(tab.net \ {r}, g.net) /\ Given(tab.net \ {r}, g.net, Later \ {"login"})
    BY <1>2, <1>3, <2>1 DEF Kept, Given
  <2>4. Takes(r, g)
    BY <1>1, <1>3, <2>1, <2>2, <2>3, UserFits
  <2> QED BY <2>4 DEF g, t
<1>8. ASSUME NEW p \in Pages, NEW url, tab.place # "none"
      PROVE  LET m == Go(s, p, url)
             IN  /\ Tab(m) /\ m.user = r.user /\ m.stored = r.user /\ m.place # "none"
                 /\ Kept(tab.net \ {r}, m.net) /\ Given(tab.net \ {r}, m.net, Later \ {"login"})
  <2>1. Goes(s, Go(s, p, url))
    BY <1>3, <1>5, Went DEF Tab
  <2> QED BY <1>2, <1>3, <1>8, <2>1, GivenLater DEF Goes, Same, Stays
<1>9. CASE r.page = "root"
  <2> DEFINE m == Go(s, "root", "root")
  <2>1. g = SessionUpdated(m)
    BY <1>4, <1>5, <1>9
  <2>2. /\ Tab(m) /\ m.user = r.user /\ m.stored = r.user /\ m.place # "none"
        /\ Kept(tab.net \ {r}, m.net) /\ Given(tab.net \ {r}, m.net, Later \ {"login"})
    BY <1>5, <1>6, <1>8, <1>9
  <2> HIDE DEF m
  <2>3. /\ Tab(g) /\ g.user = m.user /\ g.stored = m.stored /\ g.place = m.place
        /\ Kept(m.net, g.net) /\ Given(m.net, g.net, {"sync"})
    BY <2>1, <2>2, Updated
  <2>4. Kept(tab.net \ {r}, g.net) /\ Given(tab.net \ {r}, g.net, Later \ {"login"})
    BY <2>2, <2>3, Both, GivenLater
  <2>5. Entering(g)
    BY <2>2, <2>3 DEF Entering
  <2>6. Takes(r, g)
    BY <1>1, <2>2, <2>3, <2>4, <2>5, UserFits
  <2> QED BY <2>6 DEF g, t
<1>10. CASE r.page # Null /\ r.page # "root"
  <2>1. g = Go(s, r.page, s.place)
    BY <1>4, <1>10
  <2>2. r.page \in Pages /\ tab.place # "none"
    BY <1>1, <1>5, <1>6, <1>10
  <2>3. /\ Tab(g) /\ g.user = r.user /\ g.stored = r.user /\ g.place # "none"
        /\ Kept(tab.net \ {r}, g.net) /\ Given(tab.net \ {r}, g.net, Later \ {"login"})
    BY <1>8, <2>1, <2>2
  <2>4. Entering(g)
    BY <2>3 DEF Entering
  <2>5. Takes(r, g)
    BY <1>1, <2>3, <2>4, UserFits
  <2> QED BY <2>5 DEF g, t
<1> QED BY <1>7, <1>9, <1>10

LEMMA SignedInTakes ==
    ASSUME Inv, NEW r \in tab.net, r.status = "ok", r.kind = "login", r.live
    PROVE  Takes(r, SignedIn(Without(r), r))
<1> DEFINE t == Without(r)
           s == setCurrentUser(t, r.user)
           m == Go(s, r.page, r.page)
           g == SessionUpdated(m)
<1>1. r.user \in Users /\ r.page \in Pages
  BY RequestTypes DEF Carries
<1>2. Tab(t) /\ Stays(tab, t) /\ t.net = tab.net \ {r}
  BY Taken
<1> HIDE DEF t
<1>3. Tab(s) /\ s.user = r.user /\ s.stored = r.user /\ s.place = t.place /\ s.net = t.net
  BY <1>1, <1>2, Signing DEF Tab
<1>4. SignedIn(t, r) = g /\ tab.place # "none"
  BY ActFields DEF SignedIn, Entering
<1> HIDE DEF s
<1>5. Goes(s, m)
  BY <1>1, <1>3, Went DEF Tab
<1> HIDE DEF m
<1>6. /\ Tab(g) /\ g.user = m.user /\ g.stored = m.stored /\ g.place = m.place
      /\ Kept(m.net, g.net) /\ Given(m.net, g.net, {"sync"})
  BY <1>5, Updated DEF Goes
<1>7. Kept(tab.net \ {r}, g.net) /\ Given(tab.net \ {r}, g.net, Later \ {"login"})
  <2>1. Kept(tab.net \ {r}, m.net) /\ Given(tab.net \ {r}, m.net, Later \ {"login"})
    BY <1>2, <1>3, <1>5, GivenLater DEF Goes
  <2> QED BY <1>6, <2>1, Both, GivenLater
<1>8. Entering(g) /\ g.user = r.user /\ g.stored = r.user
  BY <1>2, <1>3, <1>4, <1>5, <1>6 DEF Entering, Goes, Same, Stays
<1> HIDE DEF g
<1>9. Takes(r, g)
  BY <1>1, <1>6, <1>7, <1>8, UserFits
<1> QED BY <1>4, <1>9 DEF t

LEMMA RedeemedTakes ==
    ASSUME Inv, NEW r \in tab.net, r.status = "ok", r.kind = "relogin", r.live
    PROVE  Takes(r, Redeemed(Without(r), r))
<1> DEFINE t == Without(r)
           s == setCurrentUser(t, r.user)
           m == SessionUpdated(s)
           g == syncUser(m, r.page)
<1>1. r.user \in Users /\ r.page \in Destinations
  BY RequestTypes DEF Carries
<1>2. Tab(t) /\ Stays(tab, t) /\ t.net = tab.net \ {r}
  BY Taken
<1> HIDE DEF t
<1>3. Tab(s) /\ s.user = r.user /\ s.stored = r.user /\ s.place = t.place /\ s.net = t.net
  BY <1>1, <1>2, Signing DEF Tab
<1>4. Redeemed(t, r) = g /\ tab.place # "none"
  BY ActFields DEF Redeemed, Entering
<1> HIDE DEF s
<1>5. /\ Tab(m) /\ m.user = s.user /\ m.stored = s.stored /\ m.place = s.place
      /\ Kept(s.net, m.net) /\ Given(s.net, m.net, {"sync"})
  BY <1>3, Updated
<1> HIDE DEF m
<1>6. /\ Tab(g) /\ Stays(m, g) /\ Kept(m.net, g.net) /\ Given(m.net, g.net, {"sync"})
  BY <1>1, <1>5, Syncing
<1>7. Kept(tab.net \ {r}, g.net) /\ Given(tab.net \ {r}, g.net, Later \ {"login"})
  <2>1. Kept(tab.net \ {r}, m.net) /\ Given(tab.net \ {r}, m.net, Later \ {"login"})
    BY <1>2, <1>3, <1>5, GivenLater
  <2> QED BY <1>6, <2>1, Both, GivenLater
<1>8. Entering(g) /\ g.user = r.user /\ g.stored = r.user
  BY <1>2, <1>3, <1>4, <1>5, <1>6 DEF Entering, Same, Stays
<1> HIDE DEF g
<1>9. Takes(r, g)
  BY <1>1, <1>6, <1>7, <1>8, UserFits
<1> QED BY <1>4, <1>9 DEF t

\* An answer is followed by another request.
LEMMA SendTakes ==
    ASSUME Inv, NEW r \in tab.net, r.status # "sent", ~(r.kind = "load" /\ r.live), tab.place # "none",
           NEW q \in Request, Carries(q), q.kind \in {"relogin", "login", "sync"}, q.fit,
           q.status = "sent", q.live,
           q.kind = "sync" /\ q.page = Null /\ ~apart => tab.user # Null,
           ~Corrects(r) \/ Corrects(q)
    PROVE  Takes(r, SendRequest(Without(r), q))
<1> DEFINE t == Without(r)
           g == SendRequest(t, q)
<1>1. /\ Tab(t) /\ Stays(tab, t) /\ t.net = tab.net \ {r}
      /\ Pageless(t) => Pageless(tab)
  BY Taken
<1> HIDE DEF t
<1>2. /\ Tab(g) /\ Stays(t, g) /\ Kept(t.net, g.net) /\ Given(t.net, g.net, {q.kind})
      /\ Pageless(g) => Pageless(t) \/ (q.kind = "sync" /\ q.page = Null)
      /\ \E s \in g.net : s.kind = q.kind /\ s.status = "sent" /\ s.live
      /\ \A s \in g.net : s \in t.net \/ s.fit = q.fit
  BY <1>1, Sending
<1> HIDE DEF g
<1>3. /\ Kept(tab.net \ {r}, g.net) /\ Given(tab.net \ {r}, g.net, Kinds \ {"save", "redeem", "reset"})
      /\ \A s \in g.net : s.kind = "login" => s \in tab.net \/ s.fit
  BY <1>1, <1>2 DEF Given, Kinds, Identity
<1>4. g.user = tab.user /\ g.stored = tab.stored /\ g.place = tab.place /\ g.target = tab.target
  BY <1>1, <1>2 DEF Stays, Same
<1>5. ~apart => Sees(g, session)
  <2>1. CASE Corrects(q)
    <3>1. \E s \in g.net : Corrects(s)
      BY <1>2, <2>1 DEF Corrects, Identity
    <3> QED BY <3>1 DEF Sees
  <2>2. CASE ~Corrects(r)
    BY <1>3, <1>4, <2>2, SeesStill
  <2> QED BY <2>1, <2>2
<1>6. ~apart /\ g.place = "settings" => g.user # Null
  BY <1>4 DEF Inv, Agrees, Agreed, Settled
<1>7. ~apart /\ foreign = 0 /\ g.user = Null /\ Pageless(g) => session = Null
  BY <1>1, <1>2, <1>4 DEF Inv, SignedOff
<1>8. foreign = 0 => g.stored = g.user
  BY <1>4 DEF Inv, Stored
<1>9. Modest(r, g) /\ ByRequest(r, g) /\ Entering(g)
  BY <1>4 DEF Modest, ByRequest, Guards, Entering
<1>10. Takes(r, g)
  BY <1>2, <1>3, <1>5, <1>6, <1>7, <1>8, <1>9, AnswerFits
<1> QED BY <1>10 DEF g, t

\* The requests of forms come from a page.
LEMMA FromPage ==
    ASSUME Inv, NEW r \in tab.net, r.live, r.kind \notin {"load", "sync"}
    PROVE  tab.place # "none"
BY ActFields DEF Entering

LEMMA FollowedTakes ==
    ASSUME Inv, NEW r \in tab.net, r.status = "ok", r.live, r.kind \in {"redeem", "reset", "signup", "save"}
    PROVE  Takes(r, Accepted(Without(r), r))
<1> DEFINE t == Without(r)
<1>1. /\ r \in Request
      /\ r.kind \in {"redeem", "reset", "signup"} => r.user \in Users
      /\ r.kind = "redeem" => r.page \in Destinations
      /\ tab.place # "none"
  BY RequestTypes, FromPage DEF Carries
<1>2. /\ Destinations \subseteq Pages /\ "root" \in Pages /\ Null \notin Pages
      /\ {"relogin", "login", "sync"} \subseteq Kinds
  BY RouteFacts DEF Kinds, Identity
<1>3. CASE r.kind = "redeem"
  <2> DEFINE q == Req("relogin", r.user, r.page)
  <2>1. /\ q \in Request /\ q.kind = "relogin" /\ q.user = r.user /\ q.page = r.page
        /\ q.fit /\ q.status = "sent" /\ q.live
    BY <1>1, <1>2, <1>3, NewRequest
  <2>2. Accepted(t, r) = SendRequest(t, q)
    BY <1>3 DEF Accepted
  <2> HIDE DEF q
  <2>3. Carries(q) /\ Corrects(q)
    BY <1>1, <1>3, <2>1 DEF Carries, Corrects
  <2> QED BY <1>1, <1>3, <2>1, <2>2, <2>3, SendTakes
<1>4. CASE r.kind = "reset"
  <2> DEFINE q == Req("sync", Null, "root")
  <2>1. /\ q \in Request /\ q.kind = "sync" /\ q.page = "root" /\ q.fit /\ q.status = "sent" /\ q.live
    BY <1>2, NewRequest
  <2>2. Accepted(t, r) = SendRequest(t, q)
    BY <1>4 DEF Accepted, syncUser
  <2> HIDE DEF q
  <2>3. Carries(q) /\ Corrects(q)
    BY <2>1 DEF Carries, Corrects
  <2> QED BY <1>1, <1>2, <1>4, <2>1, <2>2, <2>3, SendTakes
<1>5. CASE r.kind = "signup"
  <2> DEFINE q == Req("login", r.user, "root")
  <2>1. /\ q \in Request /\ q.kind = "login" /\ q.user = r.user /\ q.page = "root"
        /\ q.fit /\ q.status = "sent" /\ q.live
    BY <1>1, <1>2, <1>5, NewRequest
  <2>2. Accepted(t, r) = SendRequest(t, q)
    BY <1>5 DEF Accepted
  <2> HIDE DEF q
  <2>3. Carries(q) /\ ~Corrects(r)
    BY <1>1, <1>2, <1>5, <2>1 DEF Carries, Corrects, Identity
  <2> QED BY <1>1, <1>5, <2>1, <2>2, <2>3, SendTakes
<1>6. CASE r.kind = "save"
  <2> DEFINE q == Req("sync", Null, Null)
  <2>1. /\ q \in Request /\ q.kind = "sync" /\ q.page = Null /\ q.fit /\ q.status = "sent" /\ q.live
    BY <1>2, NewRequest
  <2>2. Accepted(t, r) = SendRequest(t, q)
    BY <1>6 DEF Accepted, syncUser
  <2> HIDE DEF q
  <2>3. Carries(q) /\ Corrects(q)
    BY <2>1 DEF Carries, Corrects
  <2>4. ~apart => tab.user # Null
    BY <1>6 DEF Inv, Agrees, Agreed, Settled
  <2> QED BY <1>1, <1>6, <2>1, <2>2, <2>3, <2>4, SendTakes
<1> QED BY <1>3, <1>4, <1>5, <1>6

\* Nobody is led to the open home page.
LEMMA WentOut ==
    ASSUME NEW t, Base(t), t.user = Null
    PROVE  LET g == Go(t, "root", "root")
           IN  g.place = "root" /\ ~Guards(g)
<1> DEFINE g == Go(t, "root", "root")
<1>1. "root" \in Pages /\ "root" \notin Guarded /\ "root" \notin Loads /\ Null \notin Guarded
  BY RouteFacts
<1>2. g = IF t.place = "root" THEN Superseded(t) ELSE Enter(t, "root")
  BY <1>1 DEF Go
<1> HIDE DEF g
<1>3. g.place = "root" /\ g.target = Null
  <2>1. CASE t.place = "root"
    BY <1>2, <2>1, Overtaken DEF NoLoad
  <2>2. CASE t.place # "root"
    BY <1>1, <1>2, <2>2, Entered
  <2> QED BY <2>1, <2>2
<1> QED BY <1>1, <1>3 DEF Guards, g

LEMMA SignedOutTakes ==
    ASSUME Inv, NEW r \in tab.net, r.status = "ok", r.kind = "logout", r.live
    PROVE  Takes(r, SignedOut(Without(r)))
<1> DEFINE t == Without(r)
           s == clear(t)
           m == SessionUpdated(s)
           g == Go(m, "root", "root")
<1>1. Tab(t) /\ Stays(tab, t) /\ t.net = tab.net \ {r}
  BY Taken
<1>2. SignedOut(t) = g
  BY DEF SignedOut
<1> HIDE DEF t
<1>3. Tab(s) /\ s.user = Null /\ s.stored = Null /\ s.place = t.place /\ s.net = t.net
  BY <1>1, ClearIs, Signing DEF Tab
<1> HIDE DEF s
<1>4. /\ Tab(m) /\ m.user = Null /\ m.stored = Null /\ m.place = s.place
      /\ Kept(s.net, m.net) /\ Given(s.net, m.net, {"sync"})
  BY <1>3, Updated
<1> HIDE DEF m
<1>5. /\ Goes(m, g) /\ g.place = "root" /\ ~Guards(g) /\ Given(m.net, g.net, {"get", "sync", "load"})
  <2>1. "root" \in Pages /\ "root" \notin Guarded
    BY RouteFacts
  <2> QED BY <1>4, <2>1, Went, WentOut DEF Tab
<1> HIDE DEF g
<1>6. Kept(tab.net \ {r}, g.net) /\ Given(tab.net \ {r}, g.net, Later \ {"login"})
  <2>1. Kept(tab.net \ {r}, m.net) /\ Given(tab.net \ {r}, m.net, Later \ {"login"})
    BY <1>1, <1>3, <1>4, GivenLater
  <2> QED BY <1>5, <2>1, Both, GivenLater DEF Goes
<1>7. /\ Tab(g) /\ g.user = Null /\ g.stored = Null /\ g.place # "settings" /\ Entering(g)
  BY <1>4, <1>5 DEF Goes, Same, Entering
<1>8. ~apart => session = Null
  BY DEF Inv, Agrees, Agreed, Says
<1>9. Sees(g, session) /\ Modest(r, g) /\ ByRequest(r, g)
  BY <1>5, <1>7 DEF Sees, Modest, ByRequest
<1>10. Takes(r, g)
  BY <1>6, <1>7, <1>8, <1>9, NoLogin, AnswerFits
<1> QED BY <1>2, <1>10 DEF t

\* The state that was loaded is entered.
LEMMA LoadedTakes ==
    ASSUME Inv, NEW r \in tab.net, r.status = "ok", r.kind = "load", r.live
    PROVE  Takes(r, Enter(Without(r), r.page))
<1> DEFINE t == Without(r)
           g == Enter(t, r.page)
<1>1. /\ Base(t) /\ Stays(tab, t) /\ t.net = tab.net \ {r}
      /\ Pageless(t) => Pageless(tab)
  BY Taken
<1>2. r.page \in Pages \cap Loads /\ r.page = tab.target
  <2>1. Awaited(tab)
    BY ActFields DEF Tab
  <2> QED BY <2>1, RequestTypes DEF Carries, Awaited
<1>3. r.page \notin {"home", "root", "settings", "logout", "login", "none"}
  BY <1>2, RouteFacts
<1> HIDE DEF t
<1>4. /\ Tab(g) /\ Same(t, g) /\ g.target = Null /\ g.place = r.page
      /\ Kept(t.net, g.net) /\ Given(t.net, g.net, {"get", "sync"})
      /\ Pageless(g) => Pageless(t)
  <2> DEFINE p == r.page
  <2>1. p \in Pages /\ p \notin {"home", "root", "settings", "logout", "login", "none"} /\ g = Enter(t, p)
    BY <1>2, <1>3
  <2> HIDE DEF p, g
  <2>2. /\ Tab(g) /\ Same(t, g) /\ g.target = Null
        /\ Kept(t.net, g.net) /\ Given(t.net, g.net, {"get", "sync"})
        /\ Pageless(g) => Pageless(t)
        /\ g.place = p
    BY <1>1, <2>1, Entered
  <2> QED BY <2>2 DEF p
<1> HIDE DEF g
<1>5. /\ Kept(tab.net \ {r}, g.net) /\ Given(tab.net \ {r}, g.net, Later \ {"login"})
      /\ g.user = tab.user /\ g.stored = tab.stored /\ Entering(g) /\ g.place # "settings"
  BY <1>1, <1>3, <1>4, GivenLater DEF Stays, Same, Entering
<1>6. ~apart => Sees(g, session)
  BY <1>5, SeesStill DEF Corrects, Identity
<1>7. ~apart /\ foreign = 0 /\ g.user = Null /\ Pageless(g) => session = Null
  BY <1>1, <1>4, <1>5 DEF Inv, SignedOff
<1>8. foreign = 0 => g.stored = g.user
  BY <1>5 DEF Inv, Stored
<1>9. Modest(r, g) /\ ByRequest(r, g)
  <2>1. Guards(g) => Guards(tab)
    BY <1>2, <1>4, RouteFacts DEF Guards
  <2> QED BY <1>5, <2>1 DEF Modest, ByRequest
<1>10. Takes(r, g)
  BY <1>4, <1>5, <1>6, <1>7, <1>8, <1>9, NoLogin, AnswerFits
<1> QED BY <1>10 DEF g, t

\* The state that cannot be loaded is not entered.
LEMMA UnloadedTakes ==
    ASSUME Inv, NEW r \in tab.net, r.status \in {"refused", "failed"}, r.kind = "load", r.live
    PROVE  Takes(r, [Without(r) EXCEPT !.target = Null])
<1> DEFINE t == Without(r)
           g == [t EXCEPT !.target = Null]
<1>1. /\ Base(t) /\ Stays(tab, t) /\ t.net = tab.net \ {r} /\ Entering(t)
      /\ Pageless(t) => Pageless(tab)
  BY Taken
<1> HIDE DEF t
<1>2. /\ g \in TabType /\ g.net = t.net /\ g.user = t.user /\ g.stored = t.stored /\ g.nav = t.nav
      /\ g.place = t.place /\ g.target = Null
  BY <1>1 DEF Base, TabType
<1> HIDE DEF g
<1>3. Tab(g)
  <2>1. Awaited(tab)
    BY ActFields DEF Tab
  <2>2. \A q \in g.net : q.kind = "load" => ~q.live
    BY <1>1, <1>2, <2>1 DEF Awaited
  <2> QED BY <1>1, <1>2, <2>2 DEF Tab, Base, Awaited
<1>4. /\ Kept(tab.net \ {r}, g.net) /\ Given(tab.net \ {r}, g.net, Later \ {"login"})
      /\ g.user = tab.user /\ g.stored = tab.stored /\ g.place = tab.place /\ Entering(g)
      /\ Pageless(g) => Pageless(tab)
  BY <1>1, <1>2 DEF Kept, Given, Stays, Same, Entering, Pageless
<1>5. ~apart => Sees(g, session)
  BY <1>4, SeesStill DEF Corrects, Identity
<1>6. ~apart /\ g.place = "settings" => g.user # Null
  BY <1>4 DEF Inv, Agrees, Agreed, Settled
<1>7. ~apart /\ foreign = 0 /\ g.user = Null /\ Pageless(g) => session = Null
  BY <1>4 DEF Inv, SignedOff
<1>8. foreign = 0 => g.stored = g.user
  BY <1>4 DEF Inv, Stored
<1>9. Modest(r, g) /\ ByRequest(r, g)
  <2>1. Guards(g) => Guards(tab)
    BY <1>2, <1>4, RouteFacts DEF Guards
  <2> QED BY <1>4, <2>1 DEF Modest, ByRequest
<1>10. Takes(r, g)
  BY <1>3, <1>4, <1>5, <1>6, <1>7, <1>8, <1>9, NoLogin, AnswerFits
<1> QED BY <1>10 DEF g, t

\* Who could not sign in is forgotten.
LEMMA ForgottenTakes ==
    ASSUME Inv, NEW r \in tab.net, r.status \in {"refused", "failed"}, r.kind \in {"login", "relogin"}, r.live
    PROVE  Takes(r, clear(Without(r)))
<1> DEFINE t == Without(r)
           g == clear(t)
<1>1. Tab(t) /\ Stays(tab, t) /\ t.net = tab.net \ {r}
  BY Taken
<1> HIDE DEF t
<1>2. Tab(g) /\ g.user = Null /\ g.stored = Null /\ g.place = t.place /\ g.net = t.net
  BY <1>1, ClearIs, Signing DEF Tab
<1> HIDE DEF g
<1>3. /\ Kept(tab.net \ {r}, g.net) /\ Given(tab.net \ {r}, g.net, Later \ {"login"})
      /\ g.place = tab.place /\ tab.place # "none"
  BY <1>1, <1>2, FromPage DEF Kept, Given, Stays, Same
<1>4. ASSUME ~apart
      PROVE  g.place # "settings" /\ ~Pageless(g)
  <2>1. r.kind = "login" /\ ~r.fit
    BY <1>4, RequestTypes DEF Inv, Agrees, Agreed, Says, Identity, Carries
  <2>2. g.place # "settings"
    BY <1>3, <1>4, <2>1 DEF Inv, Agrees, Agreed, Settled
  <2>3. tab.net = {r}
    BY <1>4, OnlyOne DEF Identity
  <2> QED BY <1>1, <1>2, <2>2, <2>3 DEF Pageless
<1>5. Sees(g, session) /\ Modest(r, g) /\ ByRequest(r, g) /\ Entering(g)
  BY <1>2, <1>3 DEF Sees, Modest, ByRequest, Entering
<1>6. Takes(r, g)
  BY <1>2, <1>3, <1>4, <1>5, NoLogin, AnswerFits
<1> QED BY <1>6 DEF g, t

\* Who is invited is led to the invitation.
LEMMA InvitedTakes ==
    ASSUME Inv, NEW r \in tab.net, r.status = "refused", r.kind = "signup", r.live
    PROVE  Takes(r, Go(Without(r), "invite", Without(r).place))
<1> DEFINE t == Without(r)
           g == Go(t, "invite", t.place)
<1>1. /\ Tab(t) /\ Stays(tab, t) /\ t.net = tab.net \ {r}
      /\ Pageless(t) => Pageless(tab)
  BY Taken
<1> HIDE DEF t
<1>2. Goes(t, g) /\ Given(t.net, g.net, {"get", "sync", "load"})
  BY <1>1, RouteFacts, Went DEF Tab
<1> HIDE DEF g
<1>3. /\ Kept(tab.net \ {r}, g.net) /\ Given(tab.net \ {r}, g.net, Later \ {"login"})
      /\ g.user = tab.user /\ g.stored = tab.stored /\ Tab(g) /\ Entering(g)
  BY <1>1, <1>2, FromPage, GivenLater DEF Goes, Stays, Same, Entering
<1>4. ~apart => Sees(g, session)
  BY <1>3, SeesStill DEF Corrects, Identity
<1>5. ~apart /\ g.place = "settings" => g.user # Null
  BY <1>1, <1>2, <1>3 DEF Goes, Stays, Same, Inv, Agrees, Agreed, Settled
<1>6. ~apart /\ foreign = 0 /\ g.user = Null /\ Pageless(g) => session = Null
  BY <1>1, <1>2, <1>3 DEF Goes, Stays, Same, Inv, SignedOff
<1>7. foreign = 0 => g.stored = g.user
  BY <1>3 DEF Inv, Stored
<1>8. Modest(r, g) /\ ByRequest(r, g)
  BY <1>1, <1>2, <1>3 DEF Goes, Stays, Same, Modest, ByRequest, Guards
<1>9. Takes(r, g)
  BY <1>3, <1>4, <1>5, <1>6, <1>7, <1>8, NoLogin, AnswerFits
<1> QED BY <1>9 DEF g, t

LEMMA AcceptedTakes ==
    ASSUME Inv, NEW r \in tab.net, r.status = "ok", r.live
    PROVE  Takes(r, Accepted(Without(r), r))
<1>1. r.kind \in Kinds
  BY RequestTypes DEF Request, Kinds
<1>2. CASE r.kind = "sync"
  BY <1>2, SyncedTakes DEF Accepted
<1>3. CASE r.kind = "login"
  BY <1>3, SignedInTakes DEF Accepted
<1>4. CASE r.kind = "logout"
  BY <1>4, SignedOutTakes DEF Accepted
<1>5. CASE r.kind = "relogin"
  BY <1>5, RedeemedTakes DEF Accepted
<1>6. CASE r.kind \in {"redeem", "reset", "signup", "save"}
  BY <1>6, FollowedTakes
<1>7. CASE r.kind = "load"
  BY <1>7, LoadedTakes DEF Accepted
<1>8. CASE r.kind = "get"
  BY <1>8, Nothing DEF Accepted, Corrects, Identity
<1> QED BY <1>1, <1>2, <1>3, <1>4, <1>5, <1>6, <1>7, <1>8 DEF Kinds, Identity

LEMMA RefusedTakes ==
    ASSUME Inv, NEW r \in tab.net, r.status \in {"refused", "failed"}, r.live
    PROVE  Takes(r, Refused(Without(r), r))
<1> DEFINE t == Without(r)
<1>1. CASE r.kind \in {"login", "relogin"}
  BY <1>1, ForgottenTakes DEF Refused
<1>2. CASE r.kind = "load"
  BY <1>2, UnloadedTakes DEF Refused
<1>3. CASE r.kind \notin {"login", "relogin", "load"}
  <2>1. CASE r.kind = "signup" /\ r.status = "refused" /\ <<"invite", r.user>> \in links
    BY <2>1, InvitedTakes DEF Refused
  <2>2. CASE ~(r.kind = "signup" /\ r.status = "refused" /\ <<"invite", r.user>> \in links)
    <3>1. Refused(t, r) = t
      BY <1>3, <2>2 DEF Refused
    <3>2. ~Corrects(r)
      BY <1>3 DEF Corrects
    <3> QED BY <1>3, <3>1, <3>2, Nothing
  <2> QED BY <2>1, <2>2
<1> QED BY <1>1, <1>2, <1>3

\* Whatever the answer, the tab becomes something it takes.
LEMMA Answered ==
    ASSUME Inv, Answer
    PROVE  \E r \in tab.net : r.status # "sent" /\ Becomes(tab') /\ Takes(r, tab')
<1>1. PICK r \in {q \in tab.net : q.status # "sent"} :
          Becomes(IF r.status = "401" /\ (r.live \/ r.kind = "load") THEN ClearUser(Without(r))
                  ELSE CASE ~r.live -> Without(r)
                         [] r.live /\ r.status = "ok" -> Accepted(Without(r), r)
                         [] OTHER -> Refused(Without(r), r))
  BY DEF Answer, Without
<1>2. r \in tab.net /\ r.status \in {"ok", "refused", "401", "failed"} /\ r.live \in BOOLEAN
  BY <1>1, RequestTypes DEF Request
<1>3. CASE r.status = "401" /\ (r.live \/ r.kind = "load")
  <2>1. Becomes(ClearUser(Without(r)))
    BY <1>1, <1>3
  <2> QED BY <1>2, <1>3, <2>1, Ended DEF Becomes
<1>4. CASE ~r.live /\ ~(r.status = "401" /\ r.kind = "load")
  <2>1. Becomes(Without(r))
    BY <1>1, <1>4
  <2>2. Takes(r, Without(r))
    BY <1>1, <1>2, <1>4, Nothing DEF Corrects
  <2> QED BY <1>1, <1>2, <2>1, <2>2 DEF Becomes
<1>5. CASE r.live /\ r.status = "ok"
  <2>1. Becomes(Accepted(Without(r), r))
    BY <1>1, <1>5
  <2> QED BY <1>2, <1>5, <2>1, AcceptedTakes DEF Becomes
<1>6. CASE r.live /\ r.status \in {"refused", "failed"}
  <2>1. Becomes(Refused(Without(r), r))
    BY <1>1, <1>6
  <2> QED BY <1>2, <1>6, <2>1, RefusedTakes DEF Becomes
<1> QED BY <1>2, <1>3, <1>4, <1>5, <1>6

LEMMA InvAnswer ==
    ASSUME Inv, Answer
    PROVE  Inv'
<1>1. PICK r \in tab.net : Becomes(tab') /\ Takes(r, tab')
  BY Answered
<1> DEFINE g == tab'
<1>2. Becomes(g) /\ Fits(g)
  BY <1>1 DEF Takes
<1> HIDE DEF g
<1>3. haste' \in 0..MaxHaste /\ UNCHANGED <<session, known, links, foreign, losses>>
  BY DEF Answer, Inv, SessionTypeInv
<1> QED BY <1>2, <1>3, InvBecomes

---------------------------------------------------------------------------
LEMMA InvNext == Inv /\ [SessionNext]_sessionVars => Inv'
<1> SUFFICES ASSUME Inv, [SessionNext]_sessionVars
             PROVE  Inv'
  OBVIOUS
<1>1. CASE \E p \in Pages : FollowLink(p)
  BY <1>1, InvVisit
<1>2. CASE \E p \in Pages \cap {"assessments", "inventories", "analyses"} : Menu(p)
  BY <1>2, InvMenu
<1>3. CASE \E u \in Users, right \in BOOLEAN : Authenticate(u, right)
  BY <1>3, InvAuthenticate
<1>4. CASE \E u \in Newcomers : CreateUser(u) \/ RedeemInvite(u)
  BY <1>4, InvCreateUser, InvRedeemInvite
<1>5. CASE \E u \in Members : ResetPassword(u)
  BY <1>5, InvResetPassword
<1>6. CASE \E fit \in BOOLEAN : UpdateUser(fit)
  BY <1>6, InvUpdateUser
<1>7. CASE Reload
  BY <1>7, InvReload
<1>8. CASE ServeRequest
  BY <1>8, InvServe
<1>9. CASE Fail
  BY <1>9, InvFail
<1>10. CASE OtherTab
  BY <1>10, InvOtherTab
<1>11. CASE Expire
  BY <1>11, InvExpire
<1>12. CASE Answer
  BY <1>12, InvAnswer
<1>13. CASE UNCHANGED sessionVars
  BY <1>13 DEF sessionVars, Inv, SessionTypeInv, Alone, Agrees, SignedOff, Stored
<1> QED BY <1>1, <1>2, <1>3, <1>4, <1>5, <1>6, <1>7, <1>8, <1>9, <1>10, <1>11, <1>12, <1>13 DEF SessionNext

LEMMA InvAlways == SessionSpec => []Inv
BY InvInit, InvNext, PTL DEF SessionSpec

\* Every variable keeps its type; the load that is waited for is that of the
\* state under way, and nothing is on its way without the loading sign (Go,
\* LoadingCtrl).
THEOREM SessionTypeCorrect == SessionSpec => []SessionTypeOK
<1>1. ASSUME Inv
      PROVE  SessionTypeOK
  <2>1. SessionTypeInv /\ Tab(tab) /\ tab \in TabType
    BY <1>1 DEF Inv, SessionTypeInv, Tab, Base
  <2>2. {r.page : r \in {q \in tab.net : q.kind = "load" /\ q.live}} = {tab.target} \ {Null}
    <3> DEFINE L == {q \in tab.net : q.kind = "load" /\ q.live}
    <3>1. \A r \in L : r.page = tab.target /\ r.page # Null
      BY <2>1, RouteFacts DEF Tab, Base, Carries, Awaited
    <3>2. tab.target # Null => \E r \in L : r.page = tab.target
      BY <2>1 DEF Tab, Awaited
    <3> HIDE DEF L
    <3>3. {r.page : r \in L} = {tab.target} \ {Null}
      BY <3>1, <3>2
    <3> QED BY <3>3 DEF L
  <2>3. tab.target # Null => tab.loading
    BY <2>1 DEF Tab, Awaited
  <2> QED BY <2>1, <2>2, <2>3 DEF SessionTypeOK, SessionTypeInv, TabType
<1> QED BY <1>1, InvAlways, PTL

\* When nothing is under way the tab shows nobody, or the user the server acts
\* for, unless tab and server have come apart (SessionService and the forms that
\* sign in, out and over as somebody else).
THEOREM SeenAlwaysServed == SessionSpec => []SeenIsServed
<1>1. Inv => SeenIsServed
  BY DEF Inv, Agrees, Agreed, Sees, SeenIsServed
<1> QED BY <1>1, InvAlways, PTL

\* Whose tab it is, and whether a guarded page is shown to nobody, changes with
\* answers and nothing else; a page that is loaded again believes the storage.
LEMMA OtherSteps ==
    ASSUME Inv, [SessionNext]_sessionVars, ~Answer
    PROVE  /\ tab'.user \in {tab.user, tab.stored}
           /\ Guards(tab') /\ tab'.user = Null => Guards(tab) /\ tab.user = Null
<1>1. ASSUME Stays(tab, tab')
      PROVE  /\ tab'.user \in {tab.user, tab.stored}
             /\ Guards(tab') /\ tab'.user = Null => Guards(tab) /\ tab.user = Null
  BY <1>1 DEF Stays, Same, Guards
<1>2. ASSUME NEW g, UserActs(g), Goes(tab, g)
      PROVE  /\ tab'.user \in {tab.user, tab.stored}
             /\ Guards(tab') /\ tab'.user = Null => Guards(tab) /\ tab.user = Null
  BY <1>2 DEF UserActs, Becomes, Goes, Same
<1>3. CASE \E p \in Pages : FollowLink(p)
  <2>1. PICK p \in Pages : UserActs(Go(tab, p, p))
    BY <1>3 DEF FollowLink
  <2>2. Goes(tab, Go(tab, p, p))
    BY ActFields, Went DEF Tab
  <2> QED BY <1>2, <2>1, <2>2
<1>4. CASE \E p \in Pages \cap {"assessments", "inventories", "analyses"} : Menu(p)
  <2>1. PICK p \in Pages : UserActs(Go(tab, p, tab.place)) /\ tab.nav # Null
    BY <1>4 DEF Menu
  <2>2. tab.user = Null => tab.place \in Pages \cup {Null}
    BY <2>1, ActFields DEF Entering
  <2>3. Goes(tab, Go(tab, p, tab.place))
    BY <2>2, ActFields, Went DEF Tab
  <2> QED BY <1>2, <2>1, <2>3
<1>5. ASSUME NEW r, UserActs(SendRequest(tab, r))
      PROVE  Stays(tab, tab')
  BY <1>5, ActFields DEF UserActs, Becomes, SendRequest, Stays, Same, Tab, Base, TabType
<1>6. CASE \/ \E u \in Users, right \in BOOLEAN : Authenticate(u, right)
           \/ \E u \in Newcomers : CreateUser(u) \/ RedeemInvite(u)
           \/ \E u \in Members : ResetPassword(u)
           \/ \E fit \in BOOLEAN : UpdateUser(fit)
  <2>1. \E r : UserActs(SendRequest(tab, r))
    BY <1>6 DEF Authenticate, CreateUser, RedeemInvite, ResetPassword, UpdateUser
  <2> QED BY <1>1, <1>5, <2>1
<1>7. CASE Reload
  <2> DEFINE t == Opened(tab.stored, tab.place)
  <2>1. tab.stored \in Users \cup {Null} /\ tab.place \in Pages
    BY <1>7, ActFields DEF Reload
  <2>2. t \in TabType /\ t.user = tab.stored /\ (tab.stored = Null => ~Guards(t))
    <3> DEFINE s == tab.stored
               p == tab.place
    <3>1. s \in Users \cup {Null} /\ p \in Pages
      BY <2>1
    <3> HIDE DEF s, p
    <3>2. LET o == Opened(s, p)
          IN  o \in TabType /\ o.user = s /\ (s = Null => ~Guards(o))
      BY <3>1, Opening DEF Tab, Base
    <3> QED BY <3>2 DEF s, p
  <2>3. \E N : tab' = [t EXCEPT !.net = N]
    BY <1>7 DEF Reload, UserActs, Becomes
  <2> HIDE DEF t
  <2>4. tab'.user = t.user /\ tab'.place = t.place /\ tab'.target = t.target
    BY <2>2, <2>3 DEF TabType
  <2> QED BY <2>2, <2>4 DEF Guards
<1>8. CASE ServeRequest \/ Fail
  <2>1. \E r, code, u : tab' = Becoming(r, code, u)
    BY <1>8 DEF ServeRequest, ServeRead, ServeSignIn, ServeSignOut, ServeRedeem, ServeReset, ServeSignup,
                ServeSave, Fail
  <2>2. Stays(tab, tab')
    BY <2>1, ActFields DEF Becoming, Stays, Same, Tab, Base, TabType
  <2> QED BY <1>1, <2>2
<1>9. CASE OtherTab
  <2>1. tab'.user = tab.user /\ tab'.place = tab.place /\ tab'.target = tab.target
    BY <1>9, ActFields DEF OtherTab, Tab, Base, TabType
  <2> QED BY <2>1 DEF Guards
<1>10. CASE Expire \/ UNCHANGED sessionVars
  <2>1. tab' = tab
    BY <1>10 DEF Expire, sessionVars
  <2> QED BY <2>1
<1> QED BY <1>3, <1>4, <1>6, <1>7, <1>8, <1>9, <1>10 DEF SessionNext

\* The answer is taken from the requests.
LEMMA IsTaken ==
    ASSUME NEW r \in tab.net, r.status # "sent", Takes(r, tab'), r.kind # "load"
    PROVE  r \in tab.net \ tab'.net
<1>1. Given(tab.net \ {r}, tab'.net, Kinds)
  BY DEF Takes
<1> QED BY <1>1 DEF Given

GuardStep ==
    Guards(tab') /\ tab'.user = Null =>
        \/ Guards(tab) /\ tab.user = Null
        \/ \E r \in tab.net \ tab'.net :
              r.kind \in {"login", "relogin"} /\ r.status \in {"refused", "failed"}

\* A guarded page is on screen, or on its way, with nobody signed in only when a
\* refused or lost login cleared the user under it: going there, being led there,
\* losing the session and loading the page again all end at the login (Go,
\* clear_user).
THEOREM GuardedPagesAlwaysHaveUser == SessionSpec => GuardedPagesHaveUser
<1>1. ASSUME Inv, [SessionNext]_sessionVars
      PROVE  GuardStep
  <2>1. CASE ~Answer
    BY <1>1, <2>1, OtherSteps DEF GuardStep
  <2>2. CASE Answer
    <3>1. PICK r \in tab.net : r.status # "sent" /\ Takes(r, tab')
      BY <1>1, <2>2, Answered
    <3>2. Modest(r, tab')
      BY <3>1 DEF Takes
    <3> QED BY <3>1, <3>2, IsTaken DEF GuardStep, Modest
  <2> QED BY <2>1, <2>2
<1> QED BY <1>1, InvAlways, PTL DEF SessionSpec, GuardedPagesHaveUser, GuardStep

RequestStep ==
    tab.user = Null /\ tab'.user # Null /\ ~apart' /\ foreign = 0 =>
        \/ tab'.user = tab.stored
        \/ \E r \in tab.net \ tab'.net :
              r.status = "ok" /\ (r.kind \in {"login", "relogin"} \/ r.page # Null)

\* Nobody is signed in in the tab again but by a login, a new password, a redeemed
\* invitation or the storage: no answer still under way brings back the user who
\* signed out (syncUser, logout).
THEOREM SignsInAlwaysOnRequest == SessionSpec => SignsInOnRequest
<1>1. ASSUME Inv, [SessionNext]_sessionVars
      PROVE  RequestStep
  <2>1. CASE ~Answer
    BY <1>1, <2>1, OtherSteps DEF RequestStep
  <2>2. CASE Answer
    <3>1. PICK r \in tab.net : r.status # "sent" /\ Becomes(tab') /\ Takes(r, tab')
      BY <1>1, <2>2, Answered
    <3>2. ByRequest(r, tab') /\ (apart => apart')
      BY <3>1 DEF Takes, Becomes
    <3> QED BY <3>1, <3>2, IsTaken DEF RequestStep, ByRequest
  <2> QED BY <2>1, <2>2
<1> QED BY <1>1, InvAlways, PTL DEF SessionSpec, SignsInOnRequest, RequestStep

=============================================================================
