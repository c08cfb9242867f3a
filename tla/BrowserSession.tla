--------------------------- MODULE BrowserSession ---------------------------
(***************************************************************************)
(* Who the browser believes is signed in, and who the server believes is:  *)
(* signing in and out, redeeming an invitation, resetting a password, the  *)
(* answers that say a session has ended, and the routes that may only be   *)
(* seen by somebody who is signed in.                                      *)
(*                                                                         *)
(* One tab, whose requests are served and answered in any order.  The      *)
(* session is a cookie: other tabs of the browser sign in and out with it, *)
(* and it may expire.                                                      *)
(***************************************************************************)
EXTENDS Naturals, FiniteSets

CONSTANTS
    Members,      \* users with a password
    Newcomers,    \* users without one: invited, or not known at all
    Pages,        \* the routes of the instance
    MaxUpsets,    \* bound: sessions ended or taken over elsewhere, lost requests
    MaxHaste,     \* bound: times the user acts while requests are under way
    Null

Users == Members \cup Newcomers

VARIABLES
    session,      \* whose session the cookie names, for the server
    known,        \* users who can sign in with a password
    links,        \* mailed links not yet used: invitations, new passwords
    tab,          \* what the tab holds, and its requests under way
    foreign, losses, haste,
    apart         \* history: tab and server may have come apart

sessionVars == <<session, known, links, tab, foreign, losses, haste, apart>>

---------------------------------------------------------------------------
(* Routes.  Guarded ones have authenticate: true; those that load resolve  *)
(* something from the server before their state is entered.                *)

UserRoutes ==
    [open    |-> {"login", "logout", "reset", "reset_token", "invite", "signup",
                  "signup_network_partners", "signup_partner", "signup_educator",
                  "signup_administrator"},
     guarded |-> {"settings"}, loads |-> {}]

HomeRoutes == [open |-> {"root", "faqs"}, guarded |-> {"home"}, loads |-> {}]

StaticRoutes ==
    [open |-> {"terms_of_use", "privacy"}, guarded |-> {}, loads |-> {}]

AboutRoutes ==
    [open    |-> {"about.pdredesign", "about.ra-assessment", "about.dt-inventory",
                  "about.dt-analysis"},
     guarded |-> {}, loads |-> {}]

AssessmentRoutes ==
    [open    |-> {"shared_assessment_report"},
     guarded |-> {"assessments", "assessment_dashboard", "assessment_report",
                  "assessment_assign"},
     loads   |-> {"assessments", "assessment_dashboard"}]

ResponsesConfig ==
    [open |-> {}, guarded |-> {"response_edit", "response_create"}, loads |-> {"response_edit"}]

ConsensusRouteConfig ==
    [open |-> {}, guarded |-> {"consensus_show", "consensus_create"}, loads |-> {"consensus_show"}]

AccessRoutes == [open |-> {}, guarded |-> {"grant_access"}, loads |-> {}]

InventoryRoutes ==
    [open    |-> {"inventories_shared_report"},
     guarded |-> {"inventories", "inventory_assign", "inventory_dashboard", "inventories_report"},
     loads   |-> {"inventories", "inventory_assign", "inventory_dashboard", "inventories_report",
                  "inventories_shared_report"}]

AnalysisRoutes ==
    [open    |-> {"inventory_analysis_shared_report"},
     guarded |-> {"analyses", "inventory_analysis_dashboard",
                  "inventory_analysis_consensus_create", "inventory_analysis_consensus",
                  "inventory_analysis_assign", "inventory_analysis_report"},
     loads   |-> {"analyses", "inventory_analysis_dashboard", "inventory_analysis_consensus",
                  "inventory_analysis_assign", "inventory_analysis_report",
                  "inventory_analysis_shared_report"}]

RouteFiles == {UserRoutes, HomeRoutes, StaticRoutes, AboutRoutes, AssessmentRoutes, ResponsesConfig,
               ConsensusRouteConfig, AccessRoutes, InventoryRoutes, AnalysisRoutes}

Guarded == UNION {f.guarded : f \in RouteFiles}
Loads   == UNION {f.loads : f \in RouteFiles}
Routes  == Guarded \cup UNION {f.open : f \in RouteFiles}

\* The sidebar of these holds the form to sign in.
LoginPages == {"login", "reset", "reset_token", "invite", "signup", "signup_network_partners"}

SignupPages == {"signup_partner", "signup_administrator"}

\* Where an invitation leads to: an analysis, an inventory or an assessment.
Destinations ==
    {"inventory_analysis_dashboard", "inventories_report", "response_create"} \cap Pages

ASSUME RoutesOK ==
    /\ {"root", "home", "login", "invite"} \subseteq Pages /\ Pages \subseteq Routes
    /\ Destinations # {}
    /\ MaxUpsets \in Nat /\ MaxHaste \in Nat
    /\ Members \cap Newcomers = {} /\ Null \notin Users /\ Null \notin Routes

---------------------------------------------------------------------------
(* Requests.  A number tells those of one kind apart.                      *)

Req(kind, u, p) ==
    [kind |-> kind, user |-> u, page |-> p, fit |-> TRUE, status |-> "sent", live |-> TRUE, n |-> 0]

Fresh(N, kind) ==
    CHOOSE n \in 1..(Cardinality(N) + 1) : \A q \in N : q.kind = kind => q.n # n

SendRequest(t, r) == [t EXCEPT !.net = @ \cup {[r EXCEPT !.n = Fresh(t.net, r.kind)]}]

\* These change whose session the cookie names.
Identity == {"login", "relogin", "logout", "redeem", "reset", "save"}

---------------------------------------------------------------------------
(* SessionService.                                                         *)

setCurrentUser(t, u) == [t EXCEPT !.user = u, !.stored = u]

clear(t) == [t EXCEPT !.user = Null, !.stored = Null]

\* What a sync leads to when it is answered: a page, or Null.
syncUser(t, p) == SendRequest(t, Req("sync", Null, p))

\* The navigation on session_updated.
SessionUpdated(t) == syncUser([t EXCEPT !.nav = t.user], Null)

---------------------------------------------------------------------------
(* Changes of state.                                                       *)

\* Mutant: the answer of an overtaken transition enters its state.
NeverSuperseded(t) == [t EXCEPT !.target = Null]

\* A transition that is overtaken ends without an event.
Superseded(t) ==
    [t EXCEPT !.target = Null,
              !.net = {[r EXCEPT !.live = @ /\ r.kind # "load"] : r \in t.net}]

\* Mutant: every home page synchronizes, that of nobody, too.
EnterSynced(t, p) ==
    LET at(q) == [Superseded(t) EXCEPT !.place = q, !.redirect = Null, !.loading = FALSE]
    IN  IF p \in {"home", "root"} THEN syncUser(at(p), Null) ELSE at(p)

\* The state is entered and its controllers run: that of logout signs out, that
\* of settings reads the user, and the home page synchronizes; the anonymous
\* home page sends a user to theirs.
Enter(t, p) ==
    LET at(q) == [Superseded(t) EXCEPT !.place = q, !.redirect = Null, !.loading = FALSE]
    IN  CASE p = "logout" -> SendRequest(at(p), Req("logout", Null, Null))
          [] p = "settings" -> SendRequest(at(p), Req("get", Null, Null))
          [] p = "home" \/ (p = "root" /\ t.user # Null) -> syncUser(at("home"), Null)
          [] OTHER -> at(p)

\* Nobody signed in: login, remembering the address of the moment.
Go(t, p, url) ==
    IF p \in Guarded /\ t.user = Null
    THEN [Enter(t, "login") EXCEPT !.redirect = url]
    ELSE IF p = t.place /\ p # "login" THEN Superseded(t)
    ELSE IF p \in Loads
    THEN SendRequest([Superseded(t) EXCEPT !.target = p, !.loading = TRUE], Req("load", Null, p))
    ELSE Enter(t, p)

\* Mutant: the user stays.
LoginOverUser(t) == Enter(t, "login")

\* Mutant: the page stays.
ClearedInPlace(t) == Superseded(clear(t))

\* clear_user; going from login to login keeps what it remembers.
ClearUser(t) ==
    IF t.place = "login" THEN Superseded(clear(t)) ELSE Enter(clear(t), "login")

\* A tab is opened: SessionService believes the storage, and asks.
Opened(stored, p) ==
    LET t == [user |-> stored, stored |-> stored, nav |-> stored, place |-> "none", redirect |-> Null,
              target |-> Null, loading |-> FALSE, net |-> {}]
    IN  Go(IF stored = Null THEN t ELSE syncUser(t, Null), p, p)

---------------------------------------------------------------------------
(* What the user does.                                                     *)

\* A request that names the user crosses another, or is crossed by one.
Crossed(t) == \E r \in t.net : r.kind \in Identity /\ t.net # {r}

Becomes(t) ==
    /\ tab' = t
    /\ apart' = (apart \/ Crossed(t))

UserActs(t) ==
    /\ Becomes(t)
    /\ IF tab.net = {} THEN UNCHANGED haste ELSE haste < MaxHaste /\ haste' = haste + 1
    /\ UNCHANGED <<session, known, links, foreign, losses>>

\* By a link or an address: where one is going is the address already.
FollowLink(p) == p # tab.place /\ UserActs(Go(tab, p, p))

\* By ui-sref of the navigation: the address is still that of the place.
Menu(p) == tab.nav # Null /\ p # tab.place /\ UserActs(Go(tab, p, tab.place))

Authenticate(u, right) ==
    /\ tab.place \in LoginPages /\ u \in known
    /\ UserActs(SendRequest(tab, [Req("login", u, IF tab.redirect = Null THEN "home" ELSE tab.redirect)
                      EXCEPT !.fit = right]))

CreateUser(u) == tab.place \in SignupPages /\ UserActs(SendRequest(tab, Req("signup", u, Null)))

RedeemInvite(u) ==
    /\ tab.place = "invite"
    /\ \E p \in Destinations : UserActs(SendRequest(tab, Req("redeem", u, p)))

ResetPassword(u) == tab.place = "reset_token" /\ UserActs(SendRequest(tab, Req("reset", u, Null)))

\* Not fit: the password is changed with the rest of the profile.
UpdateUser(fit) ==
    tab.place = "settings" /\ UserActs(SendRequest(tab, [Req("save", Null, Null) EXCEPT !.fit = fit]))

\* The page is loaded again: requests go on, with nobody to hear them.
Reload ==
    LET t == Opened(tab.stored, tab.place)
        old == {[r EXCEPT !.live = FALSE, !.n = @ + 9] :
                  r \in {q \in tab.net : q.kind \in Identity /\ q.status = "sent" /\ q.live}}
    IN  /\ tab.place # "none" /\ \A r \in tab.net : r.kind \in Identity => r.live
        /\ UserActs([t EXCEPT !.net = @ \cup old])

---------------------------------------------------------------------------
(* The server.                                                             *)

Becoming(r, status, u) == [tab EXCEPT !.net = (@ \ {r}) \cup {[r EXCEPT !.status = status, !.user = u]}]

\* Reads need a session, but for the reports that are shared.
ServeRead(r) ==
    /\ r.kind \in {"sync", "get", "load"}
    /\ \/ /\ session = Null /\ r.page \notin Loads \ Guarded
          /\ tab' = Becoming(r, "401", Null)
       \/ /\ session # Null \/ r.page \in Loads \ Guarded
          /\ tab' = Becoming(r, "ok", IF r.kind = "sync" THEN session ELSE Null)
       \/ /\ session # Null /\ r.kind = "load"      \* a tool of others
          /\ tab' = Becoming(r, "refused", Null)
    \* Alone under way, a sync tells a tab with a user who is signed in.
    /\ apart' = IF r.kind = "sync" /\ tab.net = {r} /\ tab.user # Null THEN FALSE ELSE apart
    /\ UNCHANGED <<session, known, links>>

ServeSignIn(r) ==
    /\ r.kind \in {"login", "relogin"}
    /\ tab' = Becoming(r, IF r.fit THEN "ok" ELSE "refused", IF r.fit THEN r.user ELSE Null)
    /\ session' = IF r.fit THEN r.user ELSE session
    /\ UNCHANGED <<known, links, apart>>

ServeSignOut(r) ==
    /\ r.kind = "logout"
    /\ tab' = Becoming(r, "ok", Null) /\ session' = Null
    /\ UNCHANGED <<known, links, apart>>

\* The invited user is signed in before their data are looked at; a new
\* password then ends the session, whose cookie was made from the old one.
ServeRedeem(r) ==
    /\ r.kind = "redeem"
    /\ IF <<"invite", r.user>> \in links
       THEN \/ /\ tab' = Becoming(r, "ok", r.user) /\ session' = Null
               /\ links' = links \ {<<"invite", r.user>>} /\ known' = known \cup {r.user}
               /\ UNCHANGED apart
            \/ /\ tab' = Becoming(r, "refused", r.user) /\ session' = r.user
               /\ apart' = TRUE
               /\ UNCHANGED <<known, links>>
       ELSE tab' = Becoming(r, "refused", r.user) /\ UNCHANGED <<session, known, links, apart>>

ServeReset(r) ==
    /\ r.kind = "reset"
    /\ \/ /\ <<"reset", r.user>> \in links
          /\ tab' = Becoming(r, "ok", r.user) /\ session' = r.user
          /\ links' = links \ {<<"reset", r.user>>}
       \/ /\ tab' = Becoming(r, "refused", r.user)
          /\ UNCHANGED <<session, links>>
    /\ UNCHANGED <<known, apart>>

\* Who is known or invited cannot register again.
ServeSignup(r) ==
    /\ r.kind = "signup"
    /\ \/ /\ r.user \notin known /\ <<"invite", r.user>> \notin links
          /\ tab' = Becoming(r, "ok", r.user) /\ known' = known \cup {r.user}
       \/ tab' = Becoming(r, "refused", r.user) /\ UNCHANGED known
    /\ UNCHANGED <<session, links, apart>>

\* A changed password ends the session here, too.
ServeSave(r) ==
    /\ r.kind = "save"
    /\ IF session = Null
       THEN tab' = Becoming(r, "401", Null) /\ UNCHANGED session
       ELSE \/ tab' = Becoming(r, "ok", session) /\ session' = IF r.fit THEN session ELSE Null
            \/ tab' = Becoming(r, "refused", Null) /\ UNCHANGED session
    /\ UNCHANGED <<known, links, apart>>

ServeRequest ==
    /\ \E r \in {q \in tab.net : q.status = "sent"} :
          \/ ServeRead(r) \/ ServeSignIn(r) \/ ServeSignOut(r) \/ ServeRedeem(r)
          \/ ServeReset(r) \/ ServeSignup(r) \/ ServeSave(r)
    /\ UNCHANGED <<foreign, losses, haste>>

\* A request is lost, or its answer is.
Fail ==
    /\ foreign + losses < MaxUpsets /\ losses' = losses + 1
    /\ \E r \in {q \in tab.net : q.status # "failed"} :
          /\ tab' = Becoming(r, "failed", Null)
          /\ apart' = (apart \/ r.kind \in Identity \cup {"sync"})
    /\ UNCHANGED <<session, known, links, foreign, haste>>

\* Another tab signs in or out, which the storage is told.
OtherTab ==
    /\ foreign + losses < MaxUpsets /\ foreign' = foreign + 1
    /\ \E u \in known \cup {Null} :
          u # session /\ session' = u /\ tab' = [tab EXCEPT !.stored = u]
    /\ apart' = TRUE
    /\ UNCHANGED <<known, links, losses, haste>>

Expire ==
    /\ foreign + losses < MaxUpsets /\ foreign' = foreign + 1
    /\ session # Null /\ session' = Null
    /\ apart' = TRUE
    /\ UNCHANGED <<known, links, tab, losses, haste>>

---------------------------------------------------------------------------
(* Answers.                                                                *)

SignedIn(t, r) == SessionUpdated(Go(setCurrentUser(t, r.user), r.page, r.page))

SignedOut(t) == Go(SessionUpdated(clear(t)), "root", "root")

\* The invitation is redeemed in three requests: this is the second's answer.
Redeemed(t, r) == syncUser(SessionUpdated(setCurrentUser(t, r.user)), r.page)

\* After a new password the sync leads home; after an invitation, to the tool.
Synced(t, r) ==
    LET s == setCurrentUser(t, r.user)
    IN  CASE r.page = Null -> s
          [] r.page = "root" -> SessionUpdated(Go(s, "root", "root"))
          [] OTHER -> Go(s, r.page, s.place)

Accepted(t, r) ==
    CASE r.kind = "sync" -> Synced(t, r)
      [] r.kind = "login" -> SignedIn(t, r)
      [] r.kind = "logout" -> SignedOut(t)
      [] r.kind = "redeem" -> SendRequest(t, Req("relogin", r.user, r.page))
      [] r.kind = "relogin" -> Redeemed(t, r)
      [] r.kind = "reset" -> syncUser(t, "root")
      [] r.kind = "signup" -> SendRequest(t, Req("login", r.user, "root"))
      [] r.kind = "save" -> syncUser(t, Null)
      [] r.kind = "load" -> Enter(t, r.page)
      [] OTHER -> t

\* A refused login forgets who was there; a page that cannot be loaded is not
\* entered, and the loading sign stays; who is invited is sent to the invitation.
Refused(t, r) ==
    CASE r.kind \in {"login", "relogin"} -> clear(t)
      [] r.kind = "load" -> [t EXCEPT !.target = Null]
      [] r.kind = "signup" /\ r.status = "refused" /\ <<"invite", r.user>> \in links ->
            Go(t, "invite", t.place)
      [] OTHER -> t

\* The interceptor hears of overtaken loads, too.
Answer ==
    /\ \E r \in {q \in tab.net : q.status # "sent"} :
          LET t == [tab EXCEPT !.net = @ \ {r}] IN
          Becomes(IF r.status = "401" /\ (r.live \/ r.kind = "load") THEN ClearUser(t)
                  ELSE CASE ~r.live -> t
                         [] r.live /\ r.status = "ok" -> Accepted(t, r)
                         [] OTHER -> Refused(t, r))
    /\ UNCHANGED <<session, known, links, foreign, losses, haste>>

---------------------------------------------------------------------------
\* A tab is opened with nobody signed in, somebody, or somebody whose session
\* has ended since.
SessionInit ==
    /\ \E u \in Members \cup {Null} :
          /\ session \in {u, Null}
          /\ tab = Opened(u, "root")
    /\ known = Members
    /\ \E invited \in SUBSET Newcomers :
          links = ({"invite"} \X invited) \cup ({"reset"} \X Members)
    /\ foreign = 0 /\ losses = 0 /\ haste = 0 /\ apart = FALSE

SessionNext ==
    \/ \E p \in Pages : FollowLink(p)
    \/ \E p \in Pages \cap {"assessments", "inventories", "analyses"} : Menu(p)
    \/ \E u \in Users, right \in BOOLEAN : Authenticate(u, right)
    \/ \E u \in Newcomers : CreateUser(u) \/ RedeemInvite(u)
    \/ \E u \in Members : ResetPassword(u)
    \/ \E fit \in BOOLEAN : UpdateUser(fit)
    \/ Reload \/ ServeRequest \/ Fail \/ OtherTab \/ Expire \/ Answer

SessionSpec == SessionInit /\ [][SessionNext]_sessionVars

---------------------------------------------------------------------------
(* Properties.                                                             *)

Request ==
    [kind : Identity \cup {"signup", "sync", "get", "load"}, user : Users \cup {Null},
     page : Pages \cup {Null}, fit : BOOLEAN, status : {"sent", "ok", "refused", "401", "failed"},
     live : BOOLEAN, n : Nat]

\* Every variable has its type; one load at most is waited for, that of the
\* state under way, and then the loading sign is shown (LoadingCtrl).
SessionTypeOK ==
    /\ session \in Users \cup {Null} /\ known \subseteq Users
    /\ links \subseteq {"invite", "reset"} \X Users
    /\ tab.user \in Users \cup {Null} /\ tab.stored \in Users \cup {Null}
    /\ tab.nav \in Users \cup {Null} /\ tab.net \subseteq Request
    /\ tab.place \in Pages \cup {"none"} /\ tab.redirect \in Pages \cup {Null}
    /\ {r.page : r \in {q \in tab.net : q.kind = "load" /\ q.live}} = {tab.target} \ {Null}
    /\ tab.target # Null => tab.loading
    /\ foreign \in 0..MaxUpsets /\ losses \in 0..MaxUpsets
    /\ haste \in 0..MaxHaste
    /\ apart \in BOOLEAN

\* When nothing is under way the tab shows nobody, or the user the server acts
\* for: signing in, out and over as somebody else through any of the forms
\* (SessionService, RedeemInvitationCtrl, ResetPasswordCtrl, signup) ends with
\* the two agreeing, unless requests crossed or were lost, a redemption was
\* refused after its user had been signed in, or another tab changed the session
\* and no sync has asked since.
SeenIsServed ==
    tab.net = {} /\ ~apart => tab.user \in {Null, session}

Guards(t) == {t.place, t.target} \cap Guarded # {}

\* A guarded page is on screen, or on its way, with nobody signed in only when a
\* refused or lost login, sent from another page, cleared the user under it.
GuardedPagesHaveUser ==
    [][Guards(tab') /\ tab'.user = Null =>
         \/ Guards(tab) /\ tab.user = Null
         \/ \E r \in tab.net \ tab'.net :
               r.kind \in {"login", "relogin"} /\ r.status \in {"refused", "failed"}]_sessionVars

\* Nobody is signed in in the tab again but by a login, at the end of a new
\* password or a redeemed invitation, or from the storage when the tab is loaded
\* again: no answer still under way brings back the user who signed out, unless
\* it crossed the request to sign out, or they signed in in another tab.
SignsInOnRequest ==
    [][tab.user = Null /\ tab'.user # Null /\ ~apart' /\ foreign = 0 =>
         \/ tab'.user = tab.stored
         \/ \E r \in tab.net \ tab'.net :
               r.status = "ok" /\ (r.kind \in {"login", "relogin"} \/ r.page # Null)]_sessionVars

=============================================================================
