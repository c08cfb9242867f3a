----------------------- MODULE AssessmentPermissions -----------------------
(***************************************************************************)
(* Who may do what in one assessment: the three join tables of levels, the *)
(* participants, the invitations and the requests for access.  Nothing in  *)
(* Assessments::Permission or in the controllers around it opens a         *)
(* transaction, so every statement commits by itself: each is a step of    *)
(* the thread that serves the request, other threads run between two of    *)
(* them, and an exception or a restart may leave the rest undone (Break).  *)
(*                                                                         *)
(* A user may have a level several times, since the join tables have no    *)
(* unique index, and several levels at once, since a grant revokes         *)
(* nothing.  The table of participants does have one.                      *)
(***************************************************************************)
EXTENDS Naturals, Sequences, FiniteSets

CONSTANTS
    Users,            \* people, named by their email addresses
    Owner,            \* the user_id of the assessment
    NetworkPartners,  \* users with that role
    Members,          \* users with an account from the start
    NoOne,
    Threads,          \* config/puma.rb: threads of all workers
    UpdateLists,      \* bound: the permissions that are posted
    RoleLists,        \* the roles a request may ask for
    InviteLevels,     \* the level of an invitation
    MaxServed         \* bound: requests ever served

Facilitator    == "facilitator"
Participant    == "participant"
Viewer         == "viewer"
NetworkPartner == "network_partner"
NoLevel        == "none"

Levels     == {Facilitator, Viewer, NetworkPartner}
RequestIds == 1..MaxServed

ASSUME ConstantsOK ==
    /\ Owner \in Members /\ Members \subseteq Users
    /\ NoOne \notin Users
    /\ MaxServed \in Nat
    /\ UpdateLists \subseteq Seq([user : Users, level : Levels \cup {Participant}])
    /\ RoleLists \subseteq Seq({Facilitator, Participant}) \ {<<>>}
    /\ InviteLevels \subseteq Levels \cup {Participant, NoLevel}

VARIABLES
    rows,          \* level -> user -> rows of the join table of that level
    participants,  \* users with a row of participants
    invitations,   \* user -> rows of user_invitations
    accounts,      \* users with an account
    requests,      \* id -> row of access_requests
    asked,         \* ids of access_requests given so far
    queued,        \* jobs ever enqueued
    thread,        \* thread -> the request it serves
    served,        \* requests served so far
    held,          \* history: user -> what that user ever was
    stripped       \* history: users whose old level went and no other came

access  == <<rows, participants, invitations, accounts, requests, asked, queued>>
history == <<held, stripped>>
vars    == <<access, thread, served, history>>

Stages == {"authorize", "next", "revoke", "add", "notify", "find", "grant", "resolve",
           "validate", "save", "account", "look", "enroll", "permission", "queue",
           "join", "leave", "store", "tell"}
Kinds  == {"update", "accept", "deny", "invite", "join", "leave", "request"}

Request   == [user : Users, roles : RoleLists]
NoRequest == [user |-> NoOne, roles |-> <<>>]

\* list: permissions still to update; read: the level of user, as read;
\* roles: those still to grant, of request.
Serving == [stage : Stages, kind : Kinds, by : Users, user : Users \cup {NoOne},
            level : Levels \cup {Participant, NoLevel},
            read : Levels \cup {Participant, NoLevel},
            list : Seq([user : Users, level : Levels \cup {Participant}]),
            roles : Seq({Facilitator, Participant}), request : {0} \cup RequestIds]
Idle    == [stage |-> "idle", kind |-> "none", by |-> NoOne, user |-> NoOne,
            level |-> NoLevel, read |-> NoLevel, list |-> <<>>, roles |-> <<>>, request |-> 0]

Job == [kind : {"granted", "requested", "invited"}, user : Users, role : Levels \cup {NoLevel}]

LevelsOf(u)     == {l \in Levels : rows[l][u] > 0}
Facilitates(u)  == u = Owner \/ Facilitator \in LevelsOf(u)
RequestsOf(u)   == {i \in RequestIds : requests[i].user = u}
ListedRoles(r)  == {r.roles[k] : k \in DOMAIN r.roles}

LevelOf(u) ==
    IF Facilitates(u) THEN Facilitator
    ELSE IF NetworkPartner \in LevelsOf(u) THEN NetworkPartner
    ELSE IF Viewer \in LevelsOf(u) THEN Viewer
    ELSE IF u \in participants THEN Participant ELSE NoLevel

TypeOK ==
    /\ rows \in [Levels -> [Users -> Nat]]
    /\ participants \subseteq Users
    /\ invitations \in [Users -> Nat]
    /\ accounts \subseteq Users
    /\ requests \in [RequestIds -> Request \cup {NoRequest}]
    /\ asked \in 0..MaxServed
    /\ queued \subseteq Job
    /\ thread \in [Threads -> Serving \cup {Idle}]
    /\ served \in 0..MaxServed
    /\ held \in [Users -> SUBSET (Levels \cup {Participant})]
    /\ stripped \subseteq Users

\* A new assessment, whose creator takes part unless a network partner.
Init ==
    /\ rows = [l \in Levels |-> [u \in Users |-> 0]]
    /\ participants = {Owner} \ NetworkPartners
    /\ invitations = [u \in Users |-> 0]
    /\ accounts = Members
    /\ requests = [i \in RequestIds |-> NoRequest]
    /\ asked = 0
    /\ queued = {}
    /\ thread = [th \in Threads |-> Idle]
    /\ served = 0
    /\ held = [u \in Users |-> IF u \in participants THEN {Participant} ELSE {}]
    /\ stripped = {}

-----------------------------------------------------------------------------
(* A request arrives.                                                      *)

Serve(th, req) ==
    /\ thread[th] = Idle
    /\ served < MaxServed
    /\ req.by \in accounts
    /\ served' = served + 1
    /\ thread' = [thread EXCEPT ![th] = req]
    /\ UNCHANGED <<access, history>>

\* Anybody signed in may ask for access; all else is authorized.
Arriving(kind, by, u) ==
    [stage |-> IF kind = "request" THEN "store" ELSE "authorize", kind |-> kind, by |-> by,
     user |-> u, level |-> NoLevel, read |-> NoLevel, list |-> <<>>, roles |-> <<>>, request |-> 0]

\* The dialog lists users that have an account.
ServeUpdate(th, by, list) ==
    /\ \A k \in DOMAIN list : list[k].user \in accounts
    /\ Serve(th, [Arriving("update", by, NoOne) EXCEPT !.list = list])

\* From the dialog, by email, whether or not there is such a request.
ServeAnswer(th, kind, by, u) ==
    /\ u \in accounts
    /\ Serve(th, Arriving(kind, by, u))

\* AccessController#grant: the link of a mail leads to the request with that
\* token, and from there to the user of it.
ServeToken(th, by, i) ==
    /\ requests[i] # NoRequest
    /\ Serve(th, Arriving("accept", by, requests[i].user))

ServeInvite(th, by, u, level) ==
    Serve(th, [Arriving("invite", by, u) EXCEPT !.level = level])

ServeParticipant(th, kind, by, u) ==
    /\ u \in accounts
    /\ Serve(th, Arriving(kind, by, u))

ServeRequest(th, u, roles) ==
    Serve(th, [Arriving("request", u, u) EXCEPT !.roles = roles])

-----------------------------------------------------------------------------
(* What follows what, in each of the handlers                              *)

\* Variant: the new level is added before the old one is revoked.
AddFirst(stage) ==
    CASE stage = "authorize" -> "next"
      [] stage = "next"      -> "add"
      [] stage = "add"       -> "notify"
      [] stage = "notify"    -> "revoke"
      [] OTHER               -> "next"

\* Variant: the job is enqueued before the level is added.
TellFirst(stage) ==
    CASE stage = "authorize" -> "next"
      [] stage = "next"      -> "revoke"
      [] stage = "revoke"    -> "notify"
      [] stage = "notify"    -> "add"
      [] OTHER               -> "next"

\* #update: for each permission, update_level and the add_level it ends with.
AfterUpdate(stage) ==
    CASE stage = "authorize" -> "next"
      [] stage = "next"      -> "revoke"
      [] stage = "revoke"    -> "add"
      [] stage = "add"       -> "notify"
      [] OTHER               -> "next"

\* accept_permission_requested and deny
AfterAnswer(kind, stage) ==
    CASE stage = "authorize"                     -> "find"
      [] stage = "find" /\ kind = "accept"       -> "grant"
      [] stage = "find" /\ kind = "deny"         -> "resolve"
      [] stage = "grant"                         -> "resolve"
      [] stage = "resolve" /\ kind = "accept"    -> "notify"
      [] OTHER                                   -> "idle"

\* #create of an invitation, InsertFromInvite#execute and its add_level
AfterInvite(stage) ==
    CASE stage = "authorize"          -> "validate"
      [] stage = "validate"           -> "save"
      [] stage = "save"               -> "account"
      [] stage = "account"            -> "look"
      [] stage \in {"look", "enroll"} -> "permission"
      [] stage = "permission"         -> "add"
      [] stage = "add"                -> "notify"
      [] stage = "notify"             -> "queue"
      [] OTHER                        -> "idle"

Following(kind, stage) ==
    CASE kind = "update"                                -> AfterUpdate(stage)
      [] kind \in {"accept", "deny"}                    -> AfterAnswer(kind, stage)
      [] kind = "invite"                                -> AfterInvite(stage)
      [] kind \in {"join", "leave"} /\ stage = "authorize" -> kind
      [] kind = "request" /\ stage = "store"            -> "tell"
      [] OTHER                                          -> "idle"

At(th, stage)   == thread[th].stage = stage
Become(th, req) == thread' = [thread EXCEPT ![th] = IF req.stage = "idle" THEN Idle ELSE req]
Onward(req)     == [req EXCEPT !.stage = Following(req.kind, req.stage)]
Proceed(th)     == Become(th, Onward(thread[th]))
Answered(th)    == Become(th, Idle)

\* The request ends with an exception, what it has committed stays.
Abort(th) ==
    LET req == thread[th]
    IN  /\ Answered(th)
        /\ stripped' = IF req.kind = "update" /\ req.stage = "add"
                       THEN stripped \cup {req.user} ELSE stripped
        /\ UNCHANGED <<access, served, held>>

Break(th) == thread[th] # Idle /\ Abort(th)

Give(u, role)     == held' = [held EXCEPT ![u] = @ \cup {role}]
InsertRow(l, u)   == rows' = [rows EXCEPT ![l][u] = @ + 1]
Granted(u, role)  == [kind |-> "granted", user |-> u, role |-> role]

\* authorize_action_for; AccessController asks the same of the authorizer.
Authorize(th) ==
    /\ At(th, "authorize")
    /\ IF Facilitates(thread[th].by) THEN Proceed(th) ELSE Answered(th)
    /\ UNCHANGED <<access, served, history>>

-----------------------------------------------------------------------------
(* update_permission for each of the permissions posted                    *)

\* revoke_level reads the level again, with the same queries: in one request
\* they are answered from the query cache, which no write has emptied since.
NextPermission(th) ==
    /\ At(th, "next")
    /\ LET req == thread[th]
       IN  IF req.list = <<>> THEN Answered(th)
           ELSE LET u     == Head(req.list).user
                    level == IF u \in NetworkPartners THEN Facilitator ELSE Head(req.list).level
                IN  Become(th,
                      IF u \in {req.by, Owner} \/ LevelOf(u) = level
                      THEN [req EXCEPT !.list = Tail(@)]
                      ELSE [Onward(req) EXCEPT !.list = Tail(@), !.user = u, !.level = level,
                                               !.read = LevelOf(u)])
    /\ UNCHANGED <<access, served, history>>

\* A participant keeps the row of participants.
Revoke(th) ==
    /\ At(th, "revoke")
    /\ LET req == thread[th]
       IN  rows' = IF req.read \in Levels
                   THEN [rows EXCEPT ![req.read][req.user] = 0] ELSE rows
    /\ Proceed(th)
    /\ UNCHANGED <<participants, invitations, accounts, requests, asked, queued, served, history>>

\* add_level, of an update and of an invitation, knows no other levels than these.
AddLevel(th) ==
    /\ At(th, "add")
    /\ LET req == thread[th]
       IN  \/ /\ req.level \in Levels
              /\ InsertRow(req.level, req.user)
              /\ Give(req.user, req.level)
              /\ Proceed(th)
              /\ UNCHANGED stripped
           \/ /\ req.level \notin Levels
              /\ Become(th, [req EXCEPT !.stage = Following(req.kind, "notify")])
              /\ stripped' = IF req.kind = "update" THEN stripped \cup {req.user} ELSE stripped
              /\ UNCHANGED <<rows, held>>
    /\ UNCHANGED <<participants, invitations, accounts, requests, asked, queued, served>>

\* notify_user_for_access_granted
Notify(th) ==
    /\ At(th, "notify")
    /\ LET req == thread[th]
       IN  queued' = IF req.level = Participant THEN queued
                     ELSE queued \cup {Granted(req.user, req.level)}
    /\ Proceed(th)
    /\ UNCHANGED <<rows, participants, invitations, accounts, requests, asked, served, history>>

-----------------------------------------------------------------------------
(* Requests for access                                                     *)

Store(th) ==
    /\ At(th, "store") /\ asked < MaxServed
    /\ asked' = asked + 1
    /\ requests' = [requests EXCEPT ![asked'] =
                       [user |-> thread[th].user, roles |-> thread[th].roles]]
    /\ Proceed(th)
    /\ UNCHANGED <<rows, participants, invitations, accounts, queued, served, history>>

Tell(th) ==
    /\ At(th, "tell")
    /\ queued' = queued \cup {[kind |-> "requested", user |-> thread[th].user, role |-> NoLevel]}
    /\ Proceed(th)
    /\ UNCHANGED <<rows, participants, invitations, accounts, requests, asked, served, history>>

\* Variant: only the first role is granted, the one the mail names.
FindFirstRole(th) ==
    /\ At(th, "find")
    /\ LET u == thread[th].user
       IN  \/ RequestsOf(u) = {} /\ Answered(th)
           \/ \E i \in RequestsOf(u) :
                 Become(th, [Onward(thread[th]) EXCEPT !.request = i,
                                !.level = Head(requests[i].roles), !.roles = <<Head(requests[i].roles)>>])
    /\ UNCHANGED <<access, served, history>>

\* Any request of the user: find_by has no order, and a token is not used here.
FindRequest(th) ==
    /\ At(th, "find")
    /\ LET u == thread[th].user
       IN  \/ RequestsOf(u) = {} /\ Answered(th)
           \/ \E i \in RequestsOf(u) :
                 Become(th, [Onward(thread[th]) EXCEPT !.request = i,
                                !.level = Head(requests[i].roles), !.roles = requests[i].roles])
    /\ UNCHANGED <<access, served, history>>

\* grant_participant looks for a row with the present time, finds none, and
\* runs into the unique index when there is one.
GrantRole(th) ==
    /\ At(th, "grant")
    /\ LET req  == thread[th]
           role == Head(req.roles)
           rest == [req EXCEPT !.roles = Tail(@)]
       IN  \/ /\ req.roles = <<>>
              /\ Proceed(th)
              /\ UNCHANGED <<access, history>>
           \/ /\ req.roles # <<>> /\ role = Facilitator
              /\ InsertRow(Facilitator, req.user)
              /\ Give(req.user, Facilitator)
              /\ Become(th, rest)
              /\ UNCHANGED <<participants, invitations, accounts, requests, asked, queued, stripped>>
           \/ /\ req.roles # <<>> /\ role = Participant /\ req.user \notin participants
              /\ participants' = participants \cup {req.user}
              /\ Give(req.user, Participant)
              /\ Become(th, rest)
              /\ UNCHANGED <<rows, invitations, accounts, requests, asked, queued, stripped>>
           \/ /\ req.roles # <<>> /\ role = Participant /\ req.user \in participants
              /\ Abort(th)
    /\ UNCHANGED served

\* Deleting a row that is gone is no error.
Resolve(th) ==
    /\ At(th, "resolve")
    /\ requests' = [requests EXCEPT ![thread[th].request] = NoRequest]
    /\ Proceed(th)
    /\ UNCHANGED <<rows, participants, invitations, accounts, asked, queued, served, history>>

-----------------------------------------------------------------------------
(* Invitations and participants                                            *)

\* validates_uniqueness_of :email; the database has no such index.
ValidateInvitation(th) ==
    /\ At(th, "validate")
    /\ IF invitations[thread[th].user] = 0 THEN Proceed(th) ELSE Answered(th)
    /\ UNCHANGED <<access, served, history>>

SaveInvitation(th) ==
    /\ At(th, "save")
    /\ invitations' = [invitations EXCEPT ![thread[th].user] = @ + 1]
    /\ Proceed(th)
    /\ UNCHANGED <<rows, participants, accounts, requests, asked, queued, served, history>>

\* create_or_update_user, and update_user_id, whose column nothing here reads.
EnsureAccount(th) ==
    /\ At(th, "account")
    /\ accounts' = accounts \cup {thread[th].user}
    /\ Proceed(th)
    /\ UNCHANGED <<rows, participants, invitations, requests, asked, queued, served, history>>

\* find_or_create_by of InsertFromInvite: the SELECT ...
LookForParticipant(th) ==
    /\ At(th, "look")
    /\ IF thread[th].user \in participants THEN Proceed(th)
       ELSE Become(th, [thread[th] EXCEPT !.stage = "enroll"])
    /\ UNCHANGED <<access, served, history>>

\* ... and the INSERT, of this request and of ParticipantsController#create.
Enroll(th) ==
    /\ At(th, "enroll") \/ At(th, "join")
    /\ LET u == thread[th].user
       IN  \/ /\ u \in participants
              /\ Abort(th)
           \/ /\ u \notin participants
              /\ participants' = participants \cup {u}
              /\ Give(u, Participant)
              /\ Proceed(th)
              /\ UNCHANGED <<rows, invitations, accounts, requests, asked, queued, stripped>>
    /\ UNCHANGED served

SetPermission(th) ==
    /\ At(th, "permission")
    /\ LET req   == thread[th]
           level == IF req.user \in NetworkPartners THEN Facilitator ELSE req.level
       IN  Become(th, [req EXCEPT !.level = level,
                          !.stage = IF level = NoLevel THEN "queue" ELSE Following(req.kind, req.stage)])
    /\ UNCHANGED <<access, served, history>>

\* Only if the browser asked to send the invitation.
QueueInvitation(th) ==
    /\ At(th, "queue")
    /\ \/ queued' = queued \cup {[kind |-> "invited", user |-> thread[th].user, role |-> NoLevel]}
       \/ UNCHANGED queued
    /\ Proceed(th)
    /\ UNCHANGED <<rows, participants, invitations, accounts, requests, asked, served, history>>

\* The destruction of a participant takes the invitations along, in one
\* transaction.
Leave(th) ==
    /\ At(th, "leave")
    /\ LET u == thread[th].user
       IN  \/ /\ u \in participants
              /\ participants' = participants \ {u}
              /\ invitations' = [invitations EXCEPT ![u] = 0]
           \/ /\ u \notin participants
              /\ UNCHANGED <<participants, invitations>>
    /\ Proceed(th)
    /\ UNCHANGED <<rows, accounts, requests, asked, queued, served, history>>

-----------------------------------------------------------------------------
Arrive(th) ==
    \E by \in Users :
       \/ \E list \in UpdateLists : ServeUpdate(th, by, list)
       \/ \E i \in RequestIds : ServeToken(th, by, i)
       \/ \E roles \in RoleLists : ServeRequest(th, by, roles)
       \/ \E u \in Users : \/ \E kind \in {"accept", "deny"} : ServeAnswer(th, kind, by, u)
                           \/ \E kind \in {"join", "leave"} : ServeParticipant(th, kind, by, u)
                           \/ \E level \in InviteLevels : ServeInvite(th, by, u, level)

ThreadStep(th) ==
    \/ Authorize(th)
    \/ NextPermission(th) \/ Revoke(th) \/ AddLevel(th) \/ Notify(th)
    \/ Store(th) \/ Tell(th) \/ FindRequest(th) \/ GrantRole(th) \/ Resolve(th)
    \/ ValidateInvitation(th) \/ SaveInvitation(th) \/ EnsureAccount(th)
    \/ LookForParticipant(th) \/ Enroll(th) \/ SetPermission(th) \/ QueueInvitation(th)
    \/ Leave(th)

Next == \E th \in Threads : Arrive(th) \/ ThreadStep(th) \/ Break(th)

Spec == Init /\ [][Next]_vars

-----------------------------------------------------------------------------
(* Properties                                                              *)

\* Whoever ever had a level has one, or is between the two statements of an
\* update: of several updates of one user the last to revoke adds after that,
\* however they overlap.  Excepted are users for whom the second statement
\* failed, or was asked for a level add_level does not know ("participant",
\* which the dialog offers).
NobodyStripped ==
    \A u \in Users :
       held[u] \cap Levels # {} /\ u \notin stripped =>
          \/ LevelsOf(u) # {}
          \/ \E th \in Threads : /\ thread[th].kind = "update" /\ thread[th].stage = "add"
                                 /\ thread[th].user = u

\* Whoever is told of a level was given it before, also when a request breaks
\* between the two.
OnlyHoldersAreTold ==
    \A j \in queued : j.kind = "granted" => j.role \in held[j.user]

\* A request for access disappears when it is denied, or when everything it
\* asked for has been granted: a grant that breaks leaves it pending.
RequestsEndWhole ==
    [][\A i \in RequestIds :
          requests[i] # NoRequest /\ requests'[i] = NoRequest =>
             \/ \E th \in Threads : /\ thread[th].kind = "deny" /\ thread[th].stage = "resolve"
                                    /\ thread[th].request = i
             \/ ListedRoles(requests[i]) \subseteq held[requests[i].user]]_vars
=============================================================================
