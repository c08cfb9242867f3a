-------------------- MODULE AssessmentPermissionsProofs --------------------
(***************************************************************************)
(* Proofs about AssessmentPermissions, for any users, threads, levels that *)
(* are posted and roles that are asked for.                                *)
(***************************************************************************)
EXTENDS AssessmentPermissions, TLAPS

Roles == {Facilitator, Participant}
Entry == [user : Users, level : Levels \cup {Participant}]

\* A request whose next stage may be the end.
Moving == [stage : Stages \cup {"idle"}, kind : Kinds, by : Users, user : Users \cup {NoOne},
           level : Levels \cup {Participant, NoLevel},
           read : Levels \cup {Participant, NoLevel},
           list : Seq(Entry), roles : Seq(Roles), request : {0} \cup RequestIds]

\* Each handler keeps to its own stages.
StagesOf(kind) ==
    CASE kind = "update"  -> {"authorize", "next", "revoke", "add", "notify"}
      [] kind = "accept"  -> {"authorize", "find", "grant", "resolve", "notify"}
      [] kind = "deny"    -> {"authorize", "find", "resolve"}
      [] kind = "invite"  -> {"authorize", "validate", "save", "account", "look", "enroll",
                              "permission", "add", "notify", "queue"}
      [] kind = "join"    -> {"authorize", "join"}
      [] kind = "leave"   -> {"authorize", "leave"}
      [] kind = "request" -> {"store", "tell"}
      [] OTHER            -> {}

\* An update has no user before its first permission; every other request has.
Placed(req) ==
    /\ req.stage \in StagesOf(req.kind)
    /\ req.kind # "update" \/ req.stage \notin {"authorize", "next"} => req.user \in Users
    /\ req.stage = "store" => req.roles \in RoleLists

InPlace == \A th \in Threads : thread[th] # Idle => Placed(thread[th])

\* Ids of requests are given once, in order.
Fresh == \A i \in RequestIds : i > asked => requests[i] = NoRequest

\* While a request is granted, what it asks for is given or still to be given.
Granting(req) ==
    req.kind = "accept" /\ req.stage \in {"grant", "resolve"} =>
       /\ req.request \in 1..asked
       /\ req.level \in held[req.user] \cup ListedRoles(req)
       /\ requests[req.request] # NoRequest =>
             /\ requests[req.request].user = req.user
             /\ ListedRoles(requests[req.request]) \subseteq held[req.user] \cup ListedRoles(req)
       /\ req.stage = "resolve" => req.roles = <<>>

Telling(req) == req.stage = "notify" => req.level \in held[req.user]

Whole == \A th \in Threads : Granting(thread[th]) /\ Telling(thread[th])

Placement == TypeOK /\ InPlace
Sound     == Placement /\ Fresh /\ Whole

-----------------------------------------------------------------------------
(* Lemmas about the operators                                              *)

LEMMA Following_Type ==
    ASSUME NEW kind \in Kinds, NEW stage \in StagesOf(kind)
    PROVE  /\ Following(kind, stage) \in StagesOf(kind) \cup {"idle"}
           /\ Following(kind, stage) \in Stages \cup {"idle"}
           /\ Following(kind, stage) \notin {"authorize", "store"}
           /\ Following(kind, stage) = "next" => kind = "update"
<1>1. CASE kind = "update"
  BY <1>1 DEF Following, AfterUpdate, StagesOf, Stages
<1>2. CASE kind \in {"accept", "deny"}
  BY <1>2 DEF Following, AfterAnswer, StagesOf, Stages
<1>3. CASE kind = "invite"
  BY <1>3 DEF Following, AfterInvite, StagesOf, Stages
<1>4. CASE kind \in {"join", "leave"}
  BY <1>4 DEF Following, StagesOf, Stages
<1>5. CASE kind = "request"
  BY <1>5 DEF Following, StagesOf, Stages
<1> QED BY <1>1, <1>2, <1>3, <1>4, <1>5 DEF Kinds

LEMMA LevelOf_Type ==
    ASSUME NEW u PROVE LevelOf(u) \in Levels \cup {Participant, NoLevel}
BY DEF LevelOf, Levels

\* A thread that is not idle serves a request of the right shape.
LEMMA Serving_At ==
    ASSUME Placement, NEW th \in Threads, thread[th].stage # "idle"
    PROVE  thread[th] \in Serving /\ Placed(thread[th])
<1>1. thread[th] \in Serving \cup {Idle}
  BY DEF Placement, TypeOK
<1>2. thread[th] # Idle
  BY DEF Idle
<1> QED BY <1>1, <1>2 DEF Placement, InPlace

LEMMA Become_Placed ==
    ASSUME Placement, NEW th \in Threads, NEW req \in Moving,
           req.stage # "idle" => Placed(req), Become(th, req)
    PROVE  /\ thread' \in [Threads -> Serving \cup {Idle}]
           /\ InPlace'
<1>1. req.stage # "idle" => req \in Serving
  BY DEF Moving, Serving, Entry, Roles
<1>2. thread \in [Threads -> Serving \cup {Idle}]
  BY DEF Placement, TypeOK
<1>3. thread' = [thread EXCEPT ![th] = IF req.stage = "idle" THEN Idle ELSE req]
  BY DEF Become
<1>4. thread' \in [Threads -> Serving \cup {Idle}]
  BY <1>1, <1>2, <1>3
<1>5. ASSUME NEW t \in Threads, thread'[t] # Idle PROVE Placed(thread'[t])
  <2>1. CASE t = th
    BY <1>2, <1>3, <1>5, <2>1
  <2>2. CASE t # th
    BY <1>2, <1>3, <1>5, <2>2 DEF Placement, InPlace
  <2> QED BY <2>1, <2>2
<1> QED BY <1>4, <1>5 DEF InPlace

LEMMA Answered_Placed ==
    ASSUME Placement, NEW th \in Threads, Answered(th)
    PROVE  /\ thread' \in [Threads -> Serving \cup {Idle}]
           /\ InPlace'
<1>1. thread \in [Threads -> Serving \cup {Idle}]
  BY DEF Placement, TypeOK
<1>2. thread' = [thread EXCEPT ![th] = Idle]
  BY DEF Answered, Become, Idle
<1>3. ASSUME NEW t \in Threads, thread'[t] # Idle PROVE Placed(thread'[t])
  BY <1>1, <1>2, <1>3 DEF Placement, InPlace
<1> QED BY <1>1, <1>2, <1>3 DEF InPlace

\* Going on with a request of the same user and roles.
LEMMA Onward_Moving ==
    ASSUME Placement, NEW th \in Threads, thread[th].stage # "idle"
    PROVE  /\ Onward(thread[th]) \in Moving
           /\ thread[th].stage # "next" /\ Onward(thread[th]).stage # "idle"
                => Placed(Onward(thread[th]))
<1> DEFINE req == thread[th]
<1>1. req \in Serving /\ Placed(req)
  BY Serving_At
<1>2. req.kind \in Kinds /\ req.stage \in StagesOf(req.kind)
  BY <1>1 DEF Serving, Placed
<1>3. /\ Following(req.kind, req.stage) \in StagesOf(req.kind) \cup {"idle"}
      /\ Following(req.kind, req.stage) \in Stages \cup {"idle"}
      /\ Following(req.kind, req.stage) \notin {"authorize", "store"}
  BY <1>2, Following_Type
<1>4. req.kind = "update" /\ req.stage = "authorize" => Following(req.kind, req.stage) = "next"
  BY DEF Following, AfterUpdate
<1> HIDE DEF req
<1>5. /\ Onward(req) \in Moving
      /\ Onward(req).stage = Following(req.kind, req.stage)
      /\ Onward(req).kind = req.kind /\ Onward(req).user = req.user
  BY <1>1, <1>3 DEF Onward, Serving, Moving, Entry, Roles
<1>6. ASSUME req.stage # "next", Onward(req).stage # "idle" PROVE Placed(Onward(req))
  BY <1>1, <1>3, <1>4, <1>5, <1>6 DEF Placed
<1> QED BY <1>5, <1>6 DEF req

LEMMA Proceed_Placed ==
    ASSUME Placement, NEW th \in Threads, thread[th].stage \notin {"idle", "next"}, Proceed(th)
    PROVE  /\ thread' \in [Threads -> Serving \cup {Idle}]
           /\ InPlace'
<1>1. Become(th, Onward(thread[th]))
  BY DEF Proceed
<1> QED BY <1>1, Onward_Moving, Become_Placed

-----------------------------------------------------------------------------
(* Type correctness, with every request in its place                       *)

LEMMA Init_Placement == Init => Placement
BY ConstantsOK DEF ConstantsOK, Init, Placement, TypeOK, InPlace, Levels, NoRequest, Idle

LEMMA Serve_Placement ==
    ASSUME Placement, NEW th \in Threads, NEW req \in Moving, req.stage # "idle", Placed(req),
           Serve(th, req)
    PROVE  Placement'
<1>1. Become(th, req)
  BY DEF Serve, Become
<1>2. /\ thread' \in [Threads -> Serving \cup {Idle}]
      /\ InPlace'
  BY <1>1, Become_Placed
<1> QED BY <1>2, ConstantsOK DEF ConstantsOK, Serve, Placement, TypeOK, access, history

LEMMA Arrive_Placement ==
    ASSUME Placement, NEW th \in Threads, Arrive(th)
    PROVE  Placement'
<1>1. PICK by \in Users :
         \/ \E list \in UpdateLists : ServeUpdate(th, by, list)
         \/ \E i \in RequestIds : ServeToken(th, by, i)
         \/ \E roles \in RoleLists : ServeRequest(th, by, roles)
         \/ \E u \in Users : \/ \E kind \in {"accept", "deny"} : ServeAnswer(th, kind, by, u)
                             \/ \E kind \in {"join", "leave"} : ServeParticipant(th, kind, by, u)
                             \/ \E level \in InviteLevels : ServeInvite(th, by, u, level)
  BY DEF Arrive
<1>2. ASSUME NEW kind \in Kinds, NEW u \in Users \cup {NoOne}
      PROVE  Arriving(kind, by, u) \in Moving /\ Arriving(kind, by, u).stage # "idle"
  BY DEF Arriving, Moving, Stages
<1>3. ASSUME NEW kind \in Kinds \ {"request", "update"}, NEW u \in Users
      PROVE  Placed(Arriving(kind, by, u))
  BY <1>3 DEF Arriving, Placed, StagesOf, Kinds
<1>4. ASSUME NEW list \in UpdateLists, ServeUpdate(th, by, list) PROVE Placement'
  <2> DEFINE old == Arriving("update", by, NoOne)
             new == [old EXCEPT !.list = list]
  <2>1. list \in Seq(Entry)
    BY ConstantsOK DEF ConstantsOK, Entry
  <2>2. old \in Moving /\ old.stage = "authorize" /\ old.kind = "update"
    BY <1>2 DEF Kinds, Arriving
  <2>3. Serve(th, new)
    BY <1>4 DEF ServeUpdate
  <2> HIDE DEF old
  <2>4. new \in Moving /\ new.stage = "authorize" /\ new.kind = "update"
    BY <2>1, <2>2 DEF Moving
  <2> HIDE DEF new
  <2>5. Placed(new)
    BY <2>4 DEF Placed, StagesOf
  <2> QED BY <2>3, <2>4, <2>5, Serve_Placement
<1>5. ASSUME NEW kind \in Kinds \ {"request", "update"}, NEW u \in Users,
             Serve(th, Arriving(kind, by, u))
      PROVE  Placement'
  BY <1>2, <1>3, <1>5, Serve_Placement
<1>6. ASSUME NEW i \in RequestIds, ServeToken(th, by, i) PROVE Placement'
  <2>1. requests[i].user \in Users
    BY <1>6 DEF ServeToken, Placement, TypeOK, Request
  <2> QED BY <1>5, <1>6, <2>1 DEF ServeToken, Kinds
<1>7. ASSUME NEW roles \in RoleLists, ServeRequest(th, by, roles) PROVE Placement'
  <2> DEFINE old == Arriving("request", by, by)
             new == [old EXCEPT !.roles = roles]
  <2>1. roles \in Seq(Roles)
    BY ConstantsOK DEF ConstantsOK, Roles
  <2>2. old \in Moving /\ old.stage = "store" /\ old.kind = "request" /\ old.user = by
    BY <1>2 DEF Kinds, Arriving
  <2>3. Serve(th, new)
    BY <1>7 DEF ServeRequest
  <2> HIDE DEF old
  <2>4. /\ new \in Moving /\ new.stage = "store" /\ new.kind = "request"
        /\ new.user = by /\ new.roles = roles
    BY <2>1, <2>2 DEF Moving
  <2> HIDE DEF new
  <2>5. Placed(new)
    BY <2>4 DEF Placed, StagesOf
  <2> QED BY <2>3, <2>4, <2>5, Serve_Placement
<1>8. ASSUME NEW u \in Users, NEW level \in InviteLevels, ServeInvite(th, by, u, level)
      PROVE  Placement'
  <2> DEFINE old == Arriving("invite", by, u)
             new == [old EXCEPT !.level = level]
  <2>1. level \in Levels \cup {Participant, NoLevel}
    BY ConstantsOK DEF ConstantsOK
  <2>2. old \in Moving /\ old.stage = "authorize" /\ old.kind = "invite" /\ old.user = u
    BY <1>2 DEF Kinds, Arriving
  <2>3. Serve(th, new)
    BY <1>8 DEF ServeInvite
  <2> HIDE DEF old
  <2>4. new \in Moving /\ new.stage = "authorize" /\ new.kind = "invite" /\ new.user = u
    BY <2>1, <2>2 DEF Moving
  <2> HIDE DEF new
  <2>5. Placed(new)
    BY <2>4 DEF Placed, StagesOf
  <2> QED BY <2>3, <2>4, <2>5, Serve_Placement
<1>9. ASSUME NEW u \in Users,
             \/ \E kind \in {"accept", "deny"} : ServeAnswer(th, kind, by, u)
             \/ \E kind \in {"join", "leave"} : ServeParticipant(th, kind, by, u)
      PROVE  Placement'
  BY <1>5, <1>9 DEF ServeAnswer, ServeParticipant, Kinds
<1> QED BY <1>1, <1>4, <1>6, <1>7, <1>8, <1>9

LEMMA Abort_Placement ==
    ASSUME Placement, NEW th \in Threads, thread[th] # Idle, Abort(th)
    PROVE  Placement'
<1>1. /\ thread' \in [Threads -> Serving \cup {Idle}]
      /\ InPlace'
  BY Answered_Placed DEF Abort
<1>2. thread[th] \in Serving /\ Placed(thread[th])
  BY DEF Placement, TypeOK, InPlace
<1>3. thread[th].kind = "update" /\ thread[th].stage = "add" => thread[th].user \in Users
  BY <1>2 DEF Placed
<1>4. thread[th].kind = "invite" => thread[th].user \in Users
  BY <1>2 DEF Placed
<1> QED BY <1>1, <1>3, <1>4 DEF Abort, Placement, TypeOK, access

\* An action that goes on with the request, or ends it, and changes rows of
\* the right shape.
LEMMA Thread_Placement ==
    ASSUME Placement, NEW th \in Threads, thread[th].stage \notin {"idle", "next"},
           Proceed(th) \/ Answered(th),
           (rows \in [Levels -> [Users -> Nat]])', (participants \subseteq Users)',
           (invitations \in [Users -> Nat])', (accounts \subseteq Users)',
           (requests \in [RequestIds -> Request \cup {NoRequest}])',
           (asked \in 0..MaxServed)', (queued \subseteq Job)', UNCHANGED served,
           (held \in [Users -> SUBSET (Levels \cup {Participant})])',
           (stripped \subseteq Users)'
    PROVE  Placement'
<1>1. /\ thread' \in [Threads -> Serving \cup {Idle}]
      /\ InPlace'
  BY Proceed_Placed, Answered_Placed
<1> QED BY <1>1 DEF Placement, TypeOK

LEMMA Update_Placement ==
    ASSUME Placement, NEW th \in Threads,
           NextPermission(th) \/ Revoke(th) \/ AddLevel(th) \/ Notify(th)
    PROVE  Placement'
<1> DEFINE req == thread[th]
<1>1. thread[th].stage # "idle"
  BY DEF NextPermission, Revoke, AddLevel, Notify, At
<1>2. req \in Serving /\ Placed(req)
  BY <1>1, Serving_At
<1> USE DEF Placement, TypeOK, access, history
<1>3. CASE NextPermission(th)
  <2> HIDE DEF Placement, TypeOK
  <2>0. req.stage = "next" /\ req.kind = "update"
    BY <1>2, <1>3 DEF NextPermission, At, Placed, StagesOf, Serving, Kinds
  <2>1. CASE req.list = <<>>
    <3>1. Answered(th) /\ UNCHANGED <<access, served, history>>
      BY <1>3, <2>1 DEF NextPermission
    <3> QED BY <3>1, Answered_Placed DEF Placement, TypeOK
  <2>2. CASE req.list # <<>>
    <3> DEFINE u     == Head(req.list).user
               level == IF u \in NetworkPartners THEN Facilitator ELSE Head(req.list).level
               skip  == [req EXCEPT !.list = Tail(@)]
               take  == [Onward(req) EXCEPT !.list = Tail(@), !.user = u, !.level = level,
                                            !.read = LevelOf(u)]
    <3>1. req.list \in Seq(Entry)
      BY <1>2 DEF Serving, Entry
    <3>2. Head(req.list) \in Entry /\ Tail(req.list) \in Seq(Entry)
      BY <2>2, <3>1
    <3>3. u \in Users /\ level \in Levels \cup {Participant}
      BY <3>2 DEF Entry, Levels
    <3>4. LevelOf(u) \in Levels \cup {Participant, NoLevel}
      BY LevelOf_Type
    <3>5. Onward(req) = [req EXCEPT !.stage = "revoke"]
      BY <2>0 DEF Onward, Following, AfterUpdate
    <3>6. /\ Become(th, IF u \in {req.by, Owner} \/ LevelOf(u) = level THEN skip ELSE take)
          /\ UNCHANGED <<access, served, history>>
      BY <1>3, <2>2 DEF NextPermission
    <3> HIDE DEF u, level
    <3>7. skip \in Moving /\ Placed(skip)
      BY <1>2, <2>0, <3>2 DEF Serving, Moving, Entry, Roles, Placed, StagesOf
    <3>8. take \in Moving /\ Placed(take)
      <4>1. Onward(req) \in Moving /\ Onward(req).stage = "revoke" /\ Onward(req).kind = "update"
            /\ Onward(req).list = req.list
        BY <1>1, <1>2, <2>0, <3>5, Onward_Moving DEF Serving
      <4>2. take \in Moving /\ take.stage = "revoke" /\ take.kind = "update" /\ take.user = u
        BY <4>1, <3>2, <3>3, <3>4 DEF Moving
      <4> HIDE DEF take
      <4> QED BY <3>3, <4>2 DEF Placed, StagesOf
    <3> HIDE DEF skip, take
    <3>9. thread' \in [Threads -> Serving \cup {Idle}] /\ InPlace'
      BY <3>6, <3>7, <3>8, Become_Placed
    <3> QED BY <3>6, <3>9 DEF Placement, TypeOK
  <2> QED BY <2>1, <2>2
<1>4. CASE Revoke(th)
  <2>1. req.user \in Users
    BY <1>2, <1>4 DEF Revoke, At, Placed
  <2>2. (rows \in [Levels -> [Users -> Nat]])'
    BY <1>4, <2>1 DEF Revoke
  <2> QED BY <1>4, <2>2, Thread_Placement DEF Revoke, At
<1>5. CASE AddLevel(th)
  <2>1. req.user \in Users
    BY <1>2, <1>5 DEF AddLevel, At, Placed
  <2>2. CASE req.level \in Levels
    <3>1. (rows \in [Levels -> [Users -> Nat]])' /\ (held \in [Users -> SUBSET (Levels \cup {Participant})])'
      <4>1. /\ rows' = [rows EXCEPT ![req.level][req.user] = @ + 1]
            /\ held' = [held EXCEPT ![req.user] = @ \cup {req.level}]
        BY <1>5, <2>2 DEF AddLevel, InsertRow, Give
      <4>2. rows[req.level][req.user] + 1 \in Nat
        BY <2>1, <2>2
      <4>3. (rows \in [Levels -> [Users -> Nat]])'
        BY <2>1, <2>2, <4>1, <4>2
      <4>4. (held \in [Users -> SUBSET (Levels \cup {Participant})])'
        BY <2>1, <2>2, <4>1
      <4> QED BY <4>3, <4>4
    <3> QED BY <1>5, <2>2, <3>1, Thread_Placement DEF AddLevel, At
  <2>3. CASE req.level \notin Levels
    <3> DEFINE new == [req EXCEPT !.stage = Following(req.kind, "notify")]
    <3>1. req.kind \in {"update", "invite"}
      BY <1>2, <1>5 DEF AddLevel, At, Placed, StagesOf, Serving, Kinds
    <3>2. /\ Following(req.kind, "notify") = IF req.kind = "update" THEN "next" ELSE "queue"
      BY <3>1 DEF Following, AfterUpdate, AfterInvite
    <3>3. new \in Moving /\ Placed(new)
      BY <1>2, <3>1, <3>2, <2>1 DEF Serving, Moving, Entry, Roles, Placed, StagesOf, Stages
    <3>4. Become(th, new)
      BY <1>5, <2>3 DEF AddLevel
    <3> HIDE DEF new, Placement, TypeOK
    <3>5. thread' \in [Threads -> Serving \cup {Idle}] /\ InPlace'
      BY <3>3, <3>4, Become_Placed
    <3> QED BY <1>5, <2>1, <2>3, <3>5 DEF AddLevel, Placement, TypeOK
  <2> QED BY <2>2, <2>3
<1>6. CASE Notify(th)
  <2>1. req.user \in Users /\ req.level \in Levels \cup {Participant, NoLevel}
    BY <1>2, <1>6 DEF Notify, At, Placed, Serving
  <2>2. (queued \subseteq Job)'
    BY <1>6, <2>1 DEF Notify, Granted, Job
  <2> QED BY <1>6, <2>2, Thread_Placement DEF Notify, At
<1> QED BY <1>3, <1>4, <1>5, <1>6

LEMMA Request_Placement ==
    ASSUME Placement, NEW th \in Threads,
           Store(th) \/ Tell(th) \/ FindRequest(th) \/ GrantRole(th) \/ Resolve(th)
    PROVE  Placement'
<1> DEFINE req == thread[th]
<1>1. thread[th].stage # "idle" /\ thread[th] # Idle
  <2>1. thread[th].stage \in {"store", "tell", "find", "grant", "resolve"}
    BY DEF Store, Tell, FindRequest, GrantRole, Resolve, At
  <2> QED BY <2>1 DEF Idle
<1>2. req \in Serving /\ Placed(req)
  BY <1>1, Serving_At
<1>3. req.stage # "next" => req.user \in Users \/ req.stage = "authorize"
  BY <1>2 DEF Placed
<1> USE DEF Placement, TypeOK, access, history
<1>4. CASE Store(th)
  <2>1. req.roles \in RoleLists /\ req.user \in Users
    BY <1>2, <1>4 DEF Store, At, Placed
  <2>2. (requests \in [RequestIds -> Request \cup {NoRequest}])' /\ (asked \in 0..MaxServed)'
    BY <1>4, <2>1, ConstantsOK DEF ConstantsOK, Store, Request, RequestIds
  <2> QED BY <1>4, <2>2, Thread_Placement DEF Store, At
<1>5. CASE Tell(th)
  <2>1. (queued \subseteq Job)'
    BY <1>3, <1>5 DEF Tell, At, Job
  <2> QED BY <1>5, <2>1, Thread_Placement DEF Tell, At
<1>6. CASE FindRequest(th)
  <2>1. CASE Answered(th)
    BY <1>6, <2>1, Thread_Placement DEF FindRequest, At
  <2>2. ASSUME NEW i \in RequestsOf(req.user),
               Become(th, [Onward(req) EXCEPT !.request = i, !.level = Head(requests[i].roles),
                                              !.roles = requests[i].roles])
        PROVE  Placement'
    <3> HIDE DEF Placement
    <3> DEFINE new == [Onward(req) EXCEPT !.request = i, !.level = Head(requests[i].roles),
                                          !.roles = requests[i].roles]
    <3>1. req.user \in Users /\ req.kind \in {"accept", "deny"}
      BY <1>2, <1>6 DEF FindRequest, At, Placed, StagesOf, Serving, Kinds
    <3>2. i \in RequestIds /\ requests[i] \in Request
      BY <3>1, ConstantsOK DEF ConstantsOK, RequestsOf, NoRequest, Placement
    <3>3. requests[i].roles \in Seq(Roles) \ {<<>>}
      BY <3>2, ConstantsOK DEF ConstantsOK, Request, Roles
    <3>4. Head(requests[i].roles) \in Roles
      BY <3>3
    <3>5. Onward(req) \in Moving /\ Onward(req).kind = req.kind /\ Onward(req).user = req.user
          /\ Onward(req).stage = Following(req.kind, "find")
      BY <1>1, <1>2, <1>6, Onward_Moving DEF Onward, Serving, FindRequest, At
    <3>6. Following(req.kind, "find") \in {"grant", "resolve"}
          /\ Following(req.kind, "find") \in StagesOf(req.kind)
      BY <3>1 DEF Following, AfterAnswer, StagesOf
    <3>7. /\ new \in Moving /\ new.kind = req.kind /\ new.user = req.user
          /\ new.stage = Following(req.kind, "find")
      BY <3>2, <3>3, <3>4, <3>5 DEF Moving, Roles, Levels
    <3> HIDE DEF new
    <3>8. Placed(new)
      BY <3>1, <3>6, <3>7 DEF Placed
    <3>9. thread' \in [Threads -> Serving \cup {Idle}] /\ InPlace'
      BY <2>2, <3>7, <3>8, Become_Placed DEF new
    <3> QED BY <1>6, <3>9 DEF FindRequest, Placement
  <2> QED BY <1>6, <2>1, <2>2 DEF FindRequest
<1>7. CASE GrantRole(th)
  <2>1. req.user \in Users /\ req.roles \in Seq(Roles) /\ req.kind = "accept" /\ req.stage = "grant"
    BY <1>2, <1>7 DEF GrantRole, At, Placed, StagesOf, Serving, Kinds, Roles
  <2> DEFINE rest == [req EXCEPT !.roles = Tail(@)]
  <2>2. ASSUME req.roles # <<>> PROVE rest \in Moving /\ Placed(rest)
    <3>1. Tail(req.roles) \in Seq(Roles)
      BY <2>1, <2>2
    <3> QED BY <1>2, <2>1, <3>1 DEF Serving, Moving, Entry, Roles, Placed, StagesOf
  <2>3. CASE req.roles = <<>> /\ Proceed(th) /\ UNCHANGED <<access, history>>
    BY <1>7, <2>1, <2>3, Thread_Placement DEF GrantRole
  <2>4. CASE req.roles # <<>> /\ Become(th, rest)
    <3> HIDE DEF rest, Placement
    <3>1. thread' \in [Threads -> Serving \cup {Idle}] /\ InPlace'
      BY <2>2, <2>4, Become_Placed
    <3>2. CASE InsertRow(Facilitator, req.user) /\ Give(req.user, Facilitator)
               /\ UNCHANGED <<participants, invitations, accounts, requests, asked, queued, stripped>>
      <4>1. /\ rows' = [rows EXCEPT ![Facilitator][req.user] = @ + 1]
            /\ held' = [held EXCEPT ![req.user] = @ \cup {Facilitator}]
        BY <3>2 DEF InsertRow, Give
      <4>2. Facilitator \in Levels /\ rows[Facilitator][req.user] + 1 \in Nat
        BY <2>1 DEF Levels, Placement
      <4>3. (rows \in [Levels -> [Users -> Nat]])'
        BY <2>1, <4>1, <4>2 DEF Placement
      <4>4. (held \in [Users -> SUBSET (Levels \cup {Participant})])'
        BY <2>1, <4>1, <4>2 DEF Placement
      <4> QED BY <1>7, <3>1, <3>2, <4>3, <4>4 DEF GrantRole, Placement
    <3>3. CASE participants' = participants \cup {req.user} /\ Give(req.user, Participant)
               /\ UNCHANGED <<rows, invitations, accounts, requests, asked, queued, stripped>>
      BY <1>7, <2>1, <3>1, <3>3 DEF GrantRole, Give, Placement
    <3>4. Head(req.roles) = Facilitator \/ Head(req.roles) = Participant
      BY <2>1, <2>4 DEF Roles
    <3>5. \/ Abort(th)
          \/ InsertRow(Facilitator, req.user) /\ Give(req.user, Facilitator)
             /\ UNCHANGED <<participants, invitations, accounts, requests, asked, queued, stripped>>
          \/ participants' = participants \cup {req.user} /\ Give(req.user, Participant)
             /\ UNCHANGED <<rows, invitations, accounts, requests, asked, queued, stripped>>
      BY <1>7, <2>4 DEF GrantRole
    <3> QED BY <1>1, <3>2, <3>3, <3>5, Abort_Placement
  <2>5. CASE Abort(th)
    BY <1>1, <2>5, Abort_Placement
  <2> QED BY <1>7, <2>3, <2>4, <2>5 DEF GrantRole
<1>8. CASE Resolve(th)
  <2>1. (requests \in [RequestIds -> Request \cup {NoRequest}])'
    BY <1>8 DEF Resolve
  <2> QED BY <1>8, <2>1, Thread_Placement DEF Resolve, At
<1> QED BY <1>4, <1>5, <1>6, <1>7, <1>8

LEMMA Invite_Placement ==
    ASSUME Placement, NEW th \in Threads,
           \/ Authorize(th) \/ ValidateInvitation(th) \/ SaveInvitation(th) \/ EnsureAccount(th)
           \/ LookForParticipant(th) \/ Enroll(th) \/ SetPermission(th) \/ QueueInvitation(th)
           \/ Leave(th)
    PROVE  Placement'
<1> DEFINE req == thread[th]
<1>1. thread[th].stage # "idle" /\ thread[th] # Idle
  BY DEF Authorize, ValidateInvitation, SaveInvitation, EnsureAccount, LookForParticipant,
         Enroll, SetPermission, QueueInvitation, Leave, At, Idle
<1>2. req \in Serving /\ Placed(req)
  BY <1>1, Serving_At
<1>3. req.stage \notin {"next", "authorize"} => req.user \in Users
  BY <1>2 DEF Placed
<1> USE DEF Placement, TypeOK, access, history
<1>4. CASE Authorize(th)
  BY <1>4, Thread_Placement DEF Authorize, At
<1>5. CASE ValidateInvitation(th)
  BY <1>5, Thread_Placement DEF ValidateInvitation, At
<1>6. CASE SaveInvitation(th)
  <2>1. invitations' = [invitations EXCEPT ![req.user] = @ + 1]
    BY <1>6 DEF SaveInvitation
  <2>2. invitations[req.user] + 1 \in Nat
    BY <1>3, <1>6 DEF SaveInvitation, At
  <2>3. (invitations \in [Users -> Nat])'
    BY <2>1, <2>2
  <2> QED BY <1>6, <2>3, Thread_Placement DEF SaveInvitation, At
<1>7. CASE EnsureAccount(th)
  <2>1. (accounts \subseteq Users)'
    BY <1>3, <1>7 DEF EnsureAccount, At
  <2> QED BY <1>7, <2>1, Thread_Placement DEF EnsureAccount, At
<1>8. CASE LookForParticipant(th)
  <2>1. CASE Proceed(th)
    BY <1>8, <2>1, Thread_Placement DEF LookForParticipant, At
  <2>2. CASE Become(th, [req EXCEPT !.stage = "enroll"])
    <3> DEFINE new == [req EXCEPT !.stage = "enroll"]
    <3>1. new \in Moving /\ Placed(new)
      BY <1>2, <1>3, <1>8
      DEF LookForParticipant, At, Serving, Moving, Entry, Roles, Placed, StagesOf, Stages, Kinds
    <3> HIDE DEF new, Placement
    <3>2. thread' \in [Threads -> Serving \cup {Idle}] /\ InPlace'
      BY <2>2, <3>1, Become_Placed DEF new
    <3> QED BY <1>8, <3>2 DEF LookForParticipant, Placement
  <2> QED BY <1>8, <2>1, <2>2 DEF LookForParticipant
<1>9. CASE Enroll(th)
  <2>1. CASE Abort(th)
    BY <1>1, <2>1, Abort_Placement
  <2>2. CASE ~Abort(th)
    <3>1. req.user \in Users
      BY <1>3, <1>9 DEF Enroll, At
    <3>2. (held \in [Users -> SUBSET (Levels \cup {Participant})])' /\ (participants \subseteq Users)'
      BY <1>9, <2>2, <3>1 DEF Enroll, Give
    <3> QED BY <1>9, <2>2, <3>2, Thread_Placement DEF Enroll, At
  <2> QED BY <2>1, <2>2
<1>10. CASE SetPermission(th)
  <2> DEFINE level == IF req.user \in NetworkPartners THEN Facilitator ELSE req.level
             new   == [req EXCEPT !.level = level, !.stage = IF level = NoLevel THEN "queue"
                                                        ELSE Following(req.kind, req.stage)]
  <2>1. level \in Levels \cup {Participant, NoLevel}
    BY <1>2 DEF Serving, Levels
  <2>2. req.kind = "invite" /\ Following(req.kind, req.stage) = "add" /\ req.user \in Users
    BY <1>2, <1>3, <1>10
    DEF SetPermission, At, Placed, StagesOf, Serving, Kinds, Following, AfterInvite
  <2>3. Become(th, new) /\ UNCHANGED <<access, served, history>>
    BY <1>10 DEF SetPermission
  <2> HIDE DEF level, Placement
  <2>4. new \in Moving /\ Placed(new)
    BY <1>2, <2>1, <2>2 DEF Serving, Moving, Entry, Roles, Placed, StagesOf, Stages
  <2> HIDE DEF new
  <2>5. thread' \in [Threads -> Serving \cup {Idle}] /\ InPlace'
    BY <2>3, <2>4, Become_Placed
  <2> QED BY <2>3, <2>5 DEF Placement
<1>11. CASE QueueInvitation(th)
  <2>1. (queued \subseteq Job)'
    BY <1>3, <1>11 DEF QueueInvitation, At, Job
  <2> QED BY <1>11, <2>1, Thread_Placement DEF QueueInvitation, At
<1>12. CASE Leave(th)
  <2>1. (invitations \in [Users -> Nat])' /\ (participants \subseteq Users)'
    BY <1>12 DEF Leave
  <2> QED BY <1>12, <2>1, Thread_Placement DEF Leave, At
<1> QED BY <1>4, <1>5, <1>6, <1>7, <1>8, <1>9, <1>10, <1>11, <1>12

LEMMA Next_Placement ==
    ASSUME Placement, [Next]_vars PROVE Placement'
<1>1. CASE UNCHANGED vars
  BY <1>1 DEF vars, access, history, Placement, TypeOK, InPlace
<1>2. ASSUME NEW th \in Threads, Arrive(th) \/ ThreadStep(th) \/ Break(th)
      PROVE  Placement'
  BY <1>2, Arrive_Placement, Update_Placement, Request_Placement, Invite_Placement,
     Abort_Placement DEF ThreadStep, Break
<1> QED BY <1>1, <1>2 DEF Next

\* Every variable has the values its declaration says, in every state.
THEOREM TypeCorrect == Spec => []TypeOK
<1>1. Placement => TypeOK
  BY DEF Placement
<1> QED BY <1>1, Init_Placement, Next_Placement, PTL DEF Spec

-----------------------------------------------------------------------------
(* Nobody loses a level to two updates                                     *)

\* Only the thread th goes on.
Only(th) == \A t \in Threads \ {th} : thread'[t] = thread[t]

LEMMA Become_Only ==
    ASSUME Placement, NEW th \in Threads, NEW req, Become(th, req)
    PROVE  Only(th) /\ thread'[th] = IF req.stage = "idle" THEN Idle ELSE req
BY DEF Become, Only, Placement, TypeOK

LEMMA Serve_Only ==
    ASSUME Placement, NEW th \in Threads, NEW req, Serve(th, req)
    PROVE  Only(th) /\ thread[th] = Idle /\ UNCHANGED <<access, history>> /\ thread'[th] = req
BY DEF Serve, Only, Placement, TypeOK

LEMMA Proceed_Only ==
    ASSUME Placement, NEW th \in Threads, thread[th].stage # "idle",
           Proceed(th) \/ Answered(th)
    PROVE  /\ Only(th)
           /\ Answered(th) => thread'[th] = Idle
           /\ Proceed(th) => /\ thread'[th].stage = Following(thread[th].kind, thread[th].stage)
                             /\ thread'[th] = Idle \/ /\ thread'[th] = Onward(thread[th])
                                                      /\ thread'[th].kind = thread[th].kind
                                                      /\ thread'[th].user = thread[th].user
                                                      /\ thread'[th].level = thread[th].level
                                                      /\ thread'[th].roles = thread[th].roles
                                                      /\ thread'[th].request = thread[th].request
<1>1. thread[th] \in Serving
  BY Serving_At
<1>2. /\ Onward(thread[th]).stage = Following(thread[th].kind, thread[th].stage)
      /\ Onward(thread[th]).kind = thread[th].kind
      /\ Onward(thread[th]).user = thread[th].user
      /\ Onward(thread[th]).level = thread[th].level
      /\ Onward(thread[th]).roles = thread[th].roles
      /\ Onward(thread[th]).request = thread[th].request
  BY <1>1 DEF Onward, Serving
<1>3. CASE Answered(th)
  <2>1. Become(th, Idle) /\ Idle.stage = "idle"
    BY <1>3 DEF Answered, Idle
  <2>2. Only(th) /\ thread'[th] = Idle
    BY <2>1, Become_Only
  <2>3. CASE Proceed(th)
    <3>1. Become(th, Onward(thread[th]))
      BY <2>3 DEF Proceed
    <3>2. thread'[th] = IF Onward(thread[th]).stage = "idle" THEN Idle ELSE Onward(thread[th])
      BY <3>1, Become_Only
    <3> QED BY <1>2, <2>1, <2>2, <3>2
  <2> QED BY <2>2, <2>3
<1>4. CASE Proceed(th) /\ ~Answered(th)
  <2>1. Become(th, Onward(thread[th]))
    BY <1>4 DEF Proceed
  <2>2. Only(th) /\ thread'[th] = IF Onward(thread[th]).stage = "idle" THEN Idle ELSE Onward(thread[th])
    BY <2>1, Become_Only
  <2> QED BY <1>2, <1>4, <2>2 DEF Idle
<1> QED BY <1>3, <1>4

LEMMA Insert_Levels ==
    ASSUME Placement, NEW l \in Levels, NEW u \in Users, InsertRow(l, u)
    PROVE  l \in LevelsOf(u)' /\ \A v \in Users : LevelsOf(v) \subseteq LevelsOf(v)'
<1>1. /\ rows \in [Levels -> [Users -> Nat]]
      /\ rows' = [rows EXCEPT ![l][u] = @ + 1]
  BY DEF InsertRow, Placement, TypeOK
<1>2. \A k \in Levels, v \in Users : rows'[k][v] = IF k = l /\ v = u THEN rows[k][v] + 1 ELSE rows[k][v]
  BY <1>1
<1>3. \A k \in Levels, v \in Users : rows[k][v] \in Nat
  BY <1>1
<1> QED BY <1>2, <1>3 DEF LevelsOf

\* A step that takes no level away and leaves no "add" is harmless.
LEMMA Keeps_Levels ==
    ASSUME Placement, NobodyStripped, NEW th \in Threads, Only(th),
           ~(thread[th].kind = "update" /\ thread[th].stage = "add"),
           stripped \subseteq stripped',
           \A u \in Users : LevelsOf(u) \subseteq LevelsOf(u)',
           \A u \in Users : held'[u] \cap Levels \subseteq held[u] \cup LevelsOf(u)'
    PROVE  NobodyStripped'
<1> SUFFICES ASSUME NEW u \in Users, held'[u] \cap Levels # {}, u \notin stripped',
                    LevelsOf(u)' = {}
             PROVE  \E t \in Threads : /\ thread'[t].kind = "update" /\ thread'[t].stage = "add"
                                       /\ thread'[t].user = u
  BY DEF NobodyStripped
<1>1. held[u] \cap Levels # {} /\ LevelsOf(u) = {} /\ u \notin stripped
  OBVIOUS
<1>2. PICK t \in Threads : /\ thread[t].kind = "update" /\ thread[t].stage = "add"
                           /\ thread[t].user = u
  BY <1>1 DEF NobodyStripped
<1>3. t # th
  BY <1>2
<1>4. thread'[t] = thread[t]
  BY <1>3 DEF Only
<1> QED BY <1>2, <1>4

LEMMA Same_Levels ==
    ASSUME UNCHANGED rows PROVE \A u \in Users : LevelsOf(u)' = LevelsOf(u)
BY DEF LevelsOf

LEMMA Arrive_Levels ==
    ASSUME Placement, NobodyStripped, NEW th \in Threads, Arrive(th)
    PROVE  NobodyStripped'
<1>1. PICK req : Serve(th, req)
  BY DEF Arrive, ServeUpdate, ServeToken, ServeRequest, ServeAnswer, ServeParticipant, ServeInvite
<1>2. Only(th) /\ thread[th] = Idle /\ UNCHANGED <<access, history>>
  BY <1>1, Serve_Only
<1>3. thread[th].stage # "add"
  BY <1>2 DEF Idle
<1>4. UNCHANGED <<rows, held, stripped>>
  BY <1>2 DEF access, history
<1> QED BY <1>2, <1>3, <1>4, Keeps_Levels, Same_Levels

LEMMA Abort_Levels ==
    ASSUME Placement, NobodyStripped, NEW th \in Threads, thread[th] # Idle, Abort(th)
    PROVE  NobodyStripped'
<1>1. Become(th, Idle) /\ UNCHANGED <<rows, held>>
  BY DEF Abort, Answered, access
<1>2. Only(th)
  BY <1>1, Become_Only
<1>3. stripped \subseteq stripped'
  BY DEF Abort
<1>4. CASE ~(thread[th].kind = "update" /\ thread[th].stage = "add")
  BY <1>1, <1>2, <1>3, <1>4, Keeps_Levels, Same_Levels
<1>5. CASE thread[th].kind = "update" /\ thread[th].stage = "add"
  <2>1. thread[th].user \in stripped'
    BY <1>5 DEF Abort
  <2>2. ASSUME NEW u \in Users, held'[u] \cap Levels # {}, u \notin stripped'
        PROVE  \/ LevelsOf(u)' # {}
               \/ \E t \in Threads : /\ thread'[t].kind = "update" /\ thread'[t].stage = "add"
                                     /\ thread'[t].user = u
    <3>1. held[u] \cap Levels # {} /\ u \notin stripped /\ LevelsOf(u)' = LevelsOf(u)
      BY <1>1, <1>3, <2>2, Same_Levels
    <3>2. ASSUME NEW t \in Threads, thread[t].user = u PROVE thread'[t] = thread[t]
      BY <1>2, <2>1, <2>2, <3>2 DEF Only
    <3> QED BY <3>1, <3>2 DEF NobodyStripped
  <2> QED BY <2>2 DEF NobodyStripped
<1> QED BY <1>4, <1>5

LEMMA Revoke_Levels ==
    ASSUME Placement, NobodyStripped, NEW th \in Threads, Revoke(th)
    PROVE  NobodyStripped'
<1> DEFINE req == thread[th]
<1>1. req.stage = "revoke"
  BY DEF Revoke, At
<1>2. req \in Serving /\ Placed(req)
  BY <1>1, Serving_At
<1>3. req.kind = "update" /\ req.user \in Users
  BY <1>1, <1>2 DEF Placed, StagesOf, Serving, Kinds
<1>4. Only(th) /\ thread'[th].kind = "update" /\ thread'[th].stage = "add"
      /\ thread'[th].user = req.user
  <2>1. Following(req.kind, req.stage) = "add"
    BY <1>1, <1>3 DEF Following, AfterUpdate
  <2> QED BY <1>1, <1>3, <2>1, Proceed_Only DEF Revoke, Idle
<1>5. UNCHANGED <<held, stripped>>
  BY DEF Revoke, history
<1>6. ASSUME NEW u \in Users, u # req.user PROVE LevelsOf(u)' = LevelsOf(u)
  <2>1. \A l \in Levels : rows'[l][u] = rows[l][u]
    BY <1>3, <1>6 DEF Revoke, Placement, TypeOK
  <2> QED BY <2>1 DEF LevelsOf
<1>7. ASSUME NEW u \in Users, u # req.user, NEW t \in Threads, thread[t].user = u
      PROVE  thread'[t] = thread[t]
  BY <1>4, <1>7 DEF Only
<1> QED BY <1>4, <1>5, <1>6, <1>7 DEF NobodyStripped

LEMMA AddLevel_Levels ==
    ASSUME Placement, NobodyStripped, NEW th \in Threads, AddLevel(th)
    PROVE  NobodyStripped'
<1> DEFINE req == thread[th]
<1>1. req.stage = "add"
  BY DEF AddLevel, At
<1>2. req \in Serving /\ Placed(req)
  BY <1>1, Serving_At
<1>3. req.user \in Users
  BY <1>1, <1>2 DEF Placed
<1>4. stripped \subseteq stripped'
  BY DEF AddLevel
<1>5. CASE req.level \in Levels
  <2>1. /\ InsertRow(req.level, req.user) /\ Give(req.user, req.level)
        /\ Proceed(th) /\ UNCHANGED stripped
    BY <1>5 DEF AddLevel
  <2>2. Only(th)
    BY <1>1, <2>1, Proceed_Only
  <2>3. PICK l \in Levels, w \in Users : l = req.level /\ w = req.user
    BY <1>3, <1>5
  <2>4. InsertRow(l, w) /\ Give(w, l)
    BY <2>1, <2>3
  <2>5. l \in LevelsOf(w)' /\ \A v \in Users : LevelsOf(v) \subseteq LevelsOf(v)'
    BY <2>4, Insert_Levels
  <2>6. ASSUME NEW u \in Users, u # w, held'[u] \cap Levels # {}, u \notin stripped'
        PROVE  \/ LevelsOf(u)' # {}
               \/ \E t \in Threads : /\ thread'[t].kind = "update" /\ thread'[t].stage = "add"
                                     /\ thread'[t].user = u
    <3>1. held'[u] = held[u]
      BY <2>4, <2>6 DEF Give, Placement, TypeOK
    <3>2. ASSUME NEW t \in Threads, thread[t].user = u PROVE thread'[t] = thread[t]
      BY <2>2, <2>3, <2>6, <3>2 DEF Only
    <3>3. LevelsOf(u) \subseteq LevelsOf(u)' /\ u \notin stripped
      BY <2>1, <2>5, <2>6
    <3> QED BY <2>6, <3>1, <3>2, <3>3 DEF NobodyStripped
  <2>7. LevelsOf(w)' # {}
    BY <2>5
  <2> QED BY <2>6, <2>7 DEF NobodyStripped
<1>6. CASE req.level \notin Levels
  <2> DEFINE new == [req EXCEPT !.stage = Following(req.kind, "notify")]
  <2>1. /\ Become(th, new) /\ UNCHANGED <<rows, held>>
        /\ stripped' = IF req.kind = "update" THEN stripped \cup {req.user} ELSE stripped
    BY <1>6 DEF AddLevel
  <2>2. Only(th)
    BY <2>1, Become_Only
  <2>3. CASE req.kind # "update"
    BY <1>4, <2>1, <2>2, <2>3, Keeps_Levels, Same_Levels
  <2>4. CASE req.kind = "update"
    <3>1. ASSUME NEW u \in Users, u \notin stripped', NEW t \in Threads, thread[t].user = u
          PROVE  thread'[t] = thread[t]
      BY <2>1, <2>2, <2>4, <3>1 DEF Only
    <3> QED BY <1>4, <2>1, <3>1, Same_Levels DEF NobodyStripped
  <2> QED BY <2>3, <2>4
<1> QED BY <1>5, <1>6

\* The steps that grant: a request for access, and the INSERT of a participant.
LEMMA Grant_Levels ==
    ASSUME Placement, NobodyStripped, NEW th \in Threads, GrantRole(th) \/ Enroll(th)
    PROVE  NobodyStripped'
<1> DEFINE req == thread[th]
<1>1. req.stage \in {"grant", "enroll", "join"}
  BY DEF GrantRole, Enroll, At
<1>2. req \in Serving /\ Placed(req)
  BY <1>1, Serving_At
<1>3. req.user \in Users /\ thread[th] # Idle
  BY <1>1, <1>2 DEF Placed, Idle
<1>4. CASE Abort(th)
  BY <1>3, <1>4, Abort_Levels
<1>5. ASSUME NEW new, Become(th, new) PROVE Only(th)
  BY <1>5, Become_Only
<1>6. CASE InsertRow(Facilitator, req.user) /\ Give(req.user, Facilitator) /\ Only(th)
           /\ UNCHANGED stripped
  <2>1. PICK w \in Users : w = req.user
    BY <1>3
  <2>2. Facilitator \in Levels
    BY DEF Levels
  <2>3. Facilitator \in LevelsOf(w)' /\ \A v \in Users : LevelsOf(v) \subseteq LevelsOf(v)'
    BY <1>6, <2>1, <2>2, Insert_Levels
  <2>4. \A u \in Users : held'[u] = IF u = w THEN held[w] \cup {Facilitator} ELSE held[u]
    BY <1>6, <2>1 DEF Give, Placement, TypeOK
  <2>5. \A u \in Users : held'[u] \cap Levels \subseteq held[u] \cup LevelsOf(u)'
    BY <2>3, <2>4
  <2>6. ~(thread[th].kind = "update" /\ thread[th].stage = "add")
    BY <1>1
  <2> QED BY <1>6, <2>3, <2>5, <2>6, Keeps_Levels
<1>7. CASE Give(req.user, Participant) /\ Only(th) /\ UNCHANGED <<rows, stripped>>
  <2>1. Participant \notin Levels
    BY DEF Levels, Participant, Facilitator, Viewer, NetworkPartner
  <2>2. \A u \in Users : held'[u] \cap Levels \subseteq held[u] \cup LevelsOf(u)'
    BY <1>3, <1>7, <2>1 DEF Give, Placement, TypeOK
  <2> QED BY <1>1, <1>7, <2>2, Keeps_Levels, Same_Levels
<1>8. CASE Only(th) /\ UNCHANGED <<access, history>>
  <2>1. UNCHANGED <<rows, held, stripped>>
    BY <1>8 DEF access, history
  <2> QED BY <1>1, <1>8, <2>1, Keeps_Levels, Same_Levels
<1>9. CASE GrantRole(th)
  BY <1>4, <1>5, <1>6, <1>7, <1>8, <1>9 DEF GrantRole, Proceed
<1>10. CASE Enroll(th)
  BY <1>4, <1>5, <1>7, <1>10 DEF Enroll, Proceed
<1> QED BY <1>9, <1>10

LEMMA Next_Levels ==
    ASSUME Placement, NobodyStripped, [Next]_vars PROVE NobodyStripped'
<1>1. CASE UNCHANGED vars
  BY <1>1, Same_Levels DEF vars, access, history, NobodyStripped
<1>2. ASSUME NEW th \in Threads,
             \/ Authorize(th) \/ NextPermission(th) \/ Notify(th)
             \/ Store(th) \/ Tell(th) \/ FindRequest(th) \/ Resolve(th)
             \/ ValidateInvitation(th) \/ SaveInvitation(th) \/ EnsureAccount(th)
             \/ LookForParticipant(th) \/ SetPermission(th) \/ QueueInvitation(th) \/ Leave(th)
      PROVE  NobodyStripped'
  <2>1. thread[th].stage # "add"
    BY <1>2 DEF At, Authorize, NextPermission, Notify, Store, Tell, FindRequest, Resolve,
       ValidateInvitation, SaveInvitation, EnsureAccount, LookForParticipant, SetPermission,
       QueueInvitation, Leave
  <2>2. UNCHANGED <<rows, held, stripped>>
    BY <1>2 DEF Authorize, NextPermission, Notify, Store, Tell, FindRequest, Resolve,
       ValidateInvitation, SaveInvitation, EnsureAccount, LookForParticipant, SetPermission,
       QueueInvitation, Leave, access, history
  <2>3. \E req : Become(th, req)
    BY <1>2 DEF Authorize, NextPermission, Notify, Store, Tell, FindRequest, Resolve,
       ValidateInvitation, SaveInvitation, EnsureAccount, LookForParticipant, SetPermission,
       QueueInvitation, Leave, Proceed, Answered
  <2>4. Only(th)
    BY <2>3, Become_Only
  <2> QED BY <2>1, <2>2, <2>4, Keeps_Levels, Same_Levels
<1>3. ASSUME NEW th \in Threads, Arrive(th) \/ ThreadStep(th) \/ Break(th)
      PROVE  NobodyStripped'
  BY <1>2, <1>3, Arrive_Levels, Revoke_Levels, AddLevel_Levels, Grant_Levels, Abort_Levels
  DEF ThreadStep, Break
<1> QED BY <1>1, <1>3 DEF Next

\* However many updates of one user overlap, the user is left with a level.
THEOREM NobodyEverStripped == Spec => []NobodyStripped
<1>1. Init => NobodyStripped
  BY DEF Init, NobodyStripped, Levels, Participant, Facilitator, Viewer, NetworkPartner
<1>2. Placement /\ NobodyStripped /\ [Next]_vars => NobodyStripped'
  BY Next_Levels
<1> QED BY <1>1, <1>2, Init_Placement, Next_Placement, PTL DEF Spec

-----------------------------------------------------------------------------
(* Who is told of a level has it, and requests end whole                   *)

Promising == {"grant", "resolve", "notify"}

\* What one thread does takes from no other what it relies on.
Grows ==
    /\ \A u \in Users : held[u] \subseteq held'[u]
    /\ asked' \in Nat /\ asked <= asked'
    /\ \A i \in 1..asked : requests'[i] \in {requests[i], NoRequest}

LEMMA Following_Calm ==
    ASSUME NEW kind, NEW stage, stage \notin {"add", "find", "grant", "resolve"}
    PROVE  Following(kind, stage) \notin Promising
BY DEF Following, AfterUpdate, AfterAnswer, AfterInvite, Promising

LEMMA Head_Tail ==
    ASSUME NEW S, NEW s \in Seq(S), s # <<>>
    PROVE  \A k \in DOMAIN s : s[k] = Head(s) \/ \E m \in DOMAIN Tail(s) : s[k] = Tail(s)[m]
<1> TAKE k \in DOMAIN s
<1>1. CASE k = 1
  BY <1>1
<1>2. CASE k # 1
  <2>1. k \in 2..Len(s)
    BY <1>2
  <2>2. k - 1 \in DOMAIN Tail(s) /\ Tail(s)[k - 1] = s[k]
    BY <2>1
  <2> QED BY <2>2
<1> QED BY <1>1, <1>2

LEMMA Other_Whole ==
    ASSUME Sound, Grows, NEW t \in Threads, thread'[t] = thread[t]
    PROVE  Granting(thread[t])' /\ Telling(thread[t])'
<1>1. PICK r : r = thread[t]
  OBVIOUS
<1>2. thread'[t] = r /\ Granting(r) /\ Telling(r)
  BY <1>1 DEF Sound, Whole
<1>3. asked \in Nat
  BY DEF Sound, Placement, TypeOK
<1>4. r.stage \in Promising => r.user \in Users
  <2>1. r.stage \in Promising => r \in Serving /\ Placed(r)
    BY <1>1, Serving_At DEF Sound, Promising
  <2> QED BY <2>1 DEF Placed, Promising
<1>5. Granting(r)'
  <2> SUFFICES ASSUME r.kind = "accept", r.stage \in {"grant", "resolve"}
               PROVE  /\ r.request \in 1..asked'
                      /\ r.level \in held'[r.user] \cup ListedRoles(r)
                      /\ requests'[r.request] # NoRequest =>
                            /\ requests'[r.request].user = r.user
                            /\ ListedRoles(requests'[r.request]) \subseteq held'[r.user] \cup ListedRoles(r)
                      /\ r.stage = "resolve" => r.roles = <<>>
    BY DEF Granting, ListedRoles
  <2>1. held[r.user] \subseteq held'[r.user]
    BY <1>4 DEF Grows, Promising
  <2>2. /\ r.request \in 1..asked
        /\ r.level \in held[r.user] \cup ListedRoles(r)
        /\ requests[r.request] # NoRequest =>
              /\ requests[r.request].user = r.user
              /\ ListedRoles(requests[r.request]) \subseteq held[r.user] \cup ListedRoles(r)
        /\ r.stage = "resolve" => r.roles = <<>>
    BY <1>2 DEF Granting
  <2>3. requests'[r.request] # NoRequest => requests'[r.request] = requests[r.request]
                                            /\ requests[r.request] # NoRequest
    BY <2>2 DEF Grows
  <2>4. r.request \in 1..asked'
    BY <1>3, <2>2 DEF Grows
  <2> QED BY <2>1, <2>2, <2>3, <2>4
<1>6. Telling(r)'
  BY <1>2, <1>4 DEF Telling, Grows, Promising
<1> QED BY <1>2, <1>5, <1>6 DEF Granting, Telling, ListedRoles

LEMMA Step_Whole ==
    ASSUME Sound, Grows, NEW th \in Threads, Only(th),
           \/ thread'[th].stage \notin Promising
           \/ Granting(thread[th])' /\ Telling(thread[th])'
    PROVE  Whole'
<1>1. Granting(thread[th])' /\ Telling(thread[th])'
  BY DEF Granting, Telling, Promising
<1>2. ASSUME NEW t \in Threads, t # th PROVE Granting(thread[t])' /\ Telling(thread[t])'
  BY <1>2, Other_Whole DEF Only
<1> QED BY <1>1, <1>2 DEF Whole

LEMMA Give_Grows ==
    ASSUME Placement, NEW u \in Users, NEW role, Give(u, role), UNCHANGED <<requests, asked>>
    PROVE  Grows /\ role \in held'[u]
BY DEF Give, Grows, Placement, TypeOK

LEMMA Same_Grows ==
    ASSUME Placement, UNCHANGED <<held, requests, asked>> PROVE Grows
BY DEF Grows, Placement, TypeOK

\* A step that does not write to the tables of requests: Fresh stays.
LEMMA Same_Fresh ==
    ASSUME Fresh, UNCHANGED <<requests, asked>> PROVE Fresh'
BY DEF Fresh

\* Steps that neither give nor promise anything.
LEMMA Calm_Sound ==
    ASSUME Sound, NEW th \in Threads,
           \/ Arrive(th) \/ Authorize(th) \/ NextPermission(th) \/ Revoke(th) \/ Notify(th)
           \/ Tell(th) \/ ValidateInvitation(th) \/ SaveInvitation(th) \/ EnsureAccount(th)
           \/ LookForParticipant(th) \/ SetPermission(th) \/ QueueInvitation(th) \/ Leave(th)
           \/ Break(th) \/ Abort(th)
    PROVE  (Fresh /\ Whole)'
<1> DEFINE req == thread[th]
<1>1. UNCHANGED <<held, requests, asked>>
  BY DEF Arrive, ServeUpdate, ServeToken, ServeRequest, ServeAnswer, ServeParticipant,
     ServeInvite, Serve, Authorize, NextPermission, Revoke, Notify, Tell, ValidateInvitation,
     SaveInvitation, EnsureAccount, LookForParticipant, SetPermission, QueueInvitation, Leave,
     Break, Abort, access, history
<1>2. Grows /\ Fresh'
  BY <1>1, Same_Grows, Same_Fresh DEF Sound
<1>3. CASE Arrive(th)
  <2>1. PICK new : Serve(th, new) /\ new.stage \in {"authorize", "store"}
    <3>1. \A kind, by, u : Arriving(kind, by, u).stage \in {"authorize", "store"}
      BY DEF Arriving
    <3>2. \A kind, by, u, x :
             /\ [Arriving(kind, by, u) EXCEPT !.list = x].stage = Arriving(kind, by, u).stage
             /\ [Arriving(kind, by, u) EXCEPT !.level = x].stage = Arriving(kind, by, u).stage
             /\ [Arriving(kind, by, u) EXCEPT !.roles = x].stage = Arriving(kind, by, u).stage
      BY DEF Arriving
    <3> DEFINE Starts == \E new : Serve(th, new) /\ new.stage \in {"authorize", "store"}
    <3>3. ASSUME NEW by, NEW list, ServeUpdate(th, by, list) PROVE Starts
      <4> DEFINE new == [Arriving("update", by, NoOne) EXCEPT !.list = list]
      <4>1. Serve(th, new)
        BY <3>3 DEF ServeUpdate
      <4>2. new.stage \in {"authorize", "store"}
        BY <3>1, <3>2
      <4> HIDE DEF new
      <4> QED BY <4>1, <4>2
    <3>4. ASSUME NEW by, NEW i, ServeToken(th, by, i) PROVE Starts
      BY <3>1, <3>4 DEF ServeToken
    <3>5. ASSUME NEW u, NEW roles, ServeRequest(th, u, roles) PROVE Starts
      <4> DEFINE new == [Arriving("request", u, u) EXCEPT !.roles = roles]
      <4>1. Serve(th, new)
        BY <3>5 DEF ServeRequest
      <4>2. new.stage \in {"authorize", "store"}
        BY <3>1, <3>2
      <4> HIDE DEF new
      <4> QED BY <4>1, <4>2
    <3>6. ASSUME NEW by, NEW u, NEW kind, ServeAnswer(th, kind, by, u) \/ ServeParticipant(th, kind, by, u)
          PROVE  Starts
      BY <3>1, <3>6 DEF ServeAnswer, ServeParticipant
    <3>7. ASSUME NEW by, NEW u, NEW level, ServeInvite(th, by, u, level) PROVE Starts
      <4> DEFINE new == [Arriving("invite", by, u) EXCEPT !.level = level]
      <4>1. Serve(th, new)
        BY <3>7 DEF ServeInvite
      <4>2. new.stage \in {"authorize", "store"}
        BY <3>1, <3>2
      <4> HIDE DEF new
      <4> QED BY <4>1, <4>2
    <3> QED BY <1>3, <3>3, <3>4, <3>5, <3>6, <3>7 DEF Arrive
  <2>2. Only(th) /\ thread'[th] = new
    BY <2>1, Serve_Only DEF Sound
  <2> QED BY <1>2, <2>1, <2>2, Step_Whole DEF Promising
<1>4. CASE Abort(th) \/ Break(th) \/ Answered(th)
  <2>1. Become(th, Idle)
    BY <1>4 DEF Break, Abort, Answered
  <2>2. Only(th) /\ thread'[th] = Idle
    BY <2>1, Become_Only DEF Idle, Sound
  <2> QED BY <1>2, <2>2, Step_Whole DEF Promising, Idle
<1>5. CASE Proceed(th) /\ req.stage \notin {"idle", "add", "find", "grant", "resolve"}
  <2>1. Only(th) /\ thread'[th].stage = Following(req.kind, req.stage)
    BY <1>5, Proceed_Only DEF Sound
  <2> QED BY <1>2, <1>5, <2>1, Following_Calm, Step_Whole
<1>6. ASSUME NEW new, Become(th, new), new.stage \notin Promising PROVE Whole'
  <2>1. Only(th) /\ thread'[th].stage \notin Promising
    BY <1>6, Become_Only DEF Sound, Idle, Promising
  <2> QED BY <1>2, <2>1, Step_Whole
<1>7. CASE NextPermission(th)
  <2>1. req \in Serving /\ Onward(req).stage \notin Promising /\ req.stage \notin Promising
        /\ Onward(req) \in Moving
    <3>1. req.stage = "next"
      BY <1>7 DEF NextPermission, At
    <3>2. req \in Serving
      BY <3>1, Serving_At DEF Sound
    <3>3. Onward(req).stage = Following(req.kind, "next") /\ Onward(req) \in Moving
      BY <3>1, <3>2, Onward_Moving DEF Onward, Serving, Sound
    <3> QED BY <3>1, <3>2, <3>3, Following_Calm DEF Promising
  <2>2. \A x : [req EXCEPT !.list = x].stage = req.stage
    BY <2>1 DEF Serving
  <2>3. \A x, u, l, r : [Onward(req) EXCEPT !.list = x, !.user = u, !.level = l, !.read = r].stage
                           = Onward(req).stage
    BY <2>1 DEF Moving
  <2>4. Answered(th) \/ \E new : Become(th, new) /\ new.stage \notin Promising
    <3>1. CASE req.list = <<>>
      BY <1>7, <3>1 DEF NextPermission
    <3>2. CASE req.list # <<>>
      <4> DEFINE u     == Head(req.list).user
                 level == IF u \in NetworkPartners THEN Facilitator ELSE Head(req.list).level
                 skip  == [req EXCEPT !.list = Tail(@)]
                 new   == [Onward(req) EXCEPT !.list = Tail(@), !.user = u, !.level = level,
                                              !.read = LevelOf(u)]
      <4>1. Become(th, IF u \in {req.by, Owner} \/ LevelOf(u) = level THEN skip ELSE new)
        BY <1>7, <3>2 DEF NextPermission
      <4>2. skip.stage \notin Promising /\ new.stage \notin Promising
        BY <2>1, <2>2, <2>3
      <4> QED BY <4>1, <4>2
    <3> QED BY <3>1, <3>2
  <2> QED BY <1>2, <1>4, <1>6, <2>4
<1>8. CASE LookForParticipant(th)
  <2>1. req.stage = "look" /\ req \in Serving
    BY <1>8, Serving_At DEF LookForParticipant, At, Sound
  <2>2. [req EXCEPT !.stage = "enroll"].stage = "enroll"
    BY <2>1 DEF Serving
  <2> QED BY <1>2, <1>5, <1>6, <1>8, <2>1, <2>2 DEF LookForParticipant, Promising
<1>9. CASE SetPermission(th)
  <2>1. req.stage = "permission" /\ req \in Serving
    BY <1>9, Serving_At DEF SetPermission, At, Sound
  <2>2. \A l, s : [req EXCEPT !.level = l, !.stage = s].stage = s
    BY <2>1 DEF Serving
  <2>3. Following(req.kind, req.stage) \notin Promising
    BY <2>1, Following_Calm
  <2>4. PICK l, s : Become(th, [req EXCEPT !.level = l, !.stage = s]) /\ s \in {"queue", Following(req.kind, req.stage)}
    BY <1>9 DEF SetPermission
  <2> QED BY <1>2, <1>6, <2>2, <2>3, <2>4 DEF Promising
<1>10. CASE \/ Authorize(th) \/ Revoke(th) \/ Notify(th) \/ Tell(th) \/ ValidateInvitation(th)
            \/ SaveInvitation(th) \/ EnsureAccount(th) \/ QueueInvitation(th) \/ Leave(th)
  <2>1. Proceed(th) \/ Answered(th)
    BY <1>10 DEF Authorize, Revoke, Notify, Tell, ValidateInvitation, SaveInvitation,
       EnsureAccount, QueueInvitation, Leave
  <2>2. req.stage \notin {"idle", "add", "find", "grant", "resolve"}
    BY <1>10 DEF At, Authorize, Revoke, Notify, Tell, ValidateInvitation, SaveInvitation,
       EnsureAccount, QueueInvitation, Leave
  <2> QED BY <1>2, <1>4, <1>5, <2>1, <2>2
<1> QED BY <1>2, <1>3, <1>4, <1>7, <1>8, <1>9, <1>10

LEMMA Store_Sound ==
    ASSUME Sound, NEW th \in Threads, Store(th) PROVE (Fresh /\ Whole)'
<1>1. /\ asked' = asked + 1 /\ asked \in Nat /\ UNCHANGED held
      /\ \A i \in RequestIds : i # asked' => requests'[i] = requests[i]
  BY DEF Store, Sound, Placement, TypeOK, history
<1>2. asked \in 0..MaxServed /\ MaxServed \in Nat
  BY ConstantsOK DEF ConstantsOK, Sound, Placement, TypeOK
<1>3. Grows
  <2>1. \A i \in 1..asked : i \in RequestIds /\ i # asked'
    BY <1>1, <1>2 DEF RequestIds
  <2> QED BY <1>1, <2>1 DEF Grows
<1>4. Fresh'
  <2>1. \A i \in RequestIds : i > asked + 1 => i # asked' /\ i > asked
    BY <1>1 DEF RequestIds
  <2> QED BY <1>1, <2>1 DEF Fresh, Sound
<1>5. Only(th) /\ thread'[th].stage \notin Promising
  <2>1. thread[th].stage = "store" /\ Proceed(th)
    BY DEF Store, At
  <2> QED BY <2>1, Proceed_Only, Following_Calm DEF Sound
<1> QED BY <1>3, <1>4, <1>5, Step_Whole

LEMMA Enroll_Sound ==
    ASSUME Sound, NEW th \in Threads, Enroll(th) PROVE (Fresh /\ Whole)'
<1> DEFINE req == thread[th]
<1>1. req.stage \in {"enroll", "join"}
  BY DEF Enroll, At
<1>2. req.user \in Users
  BY <1>1, Serving_At DEF Placed, Sound
<1>3. CASE Abort(th)
  BY <1>3, Calm_Sound
<1>4. CASE Proceed(th) /\ Give(req.user, Participant) /\ UNCHANGED <<requests, asked>>
  <2>1. Grows /\ Fresh'
    BY <1>2, <1>4, Give_Grows, Same_Fresh DEF Sound
  <2>2. Only(th) /\ thread'[th].stage \notin Promising
    BY <1>1, <1>4, Proceed_Only, Following_Calm DEF Sound
  <2> QED BY <2>1, <2>2, Step_Whole
<1> QED BY <1>3, <1>4 DEF Enroll

\* The mail about a level follows the row of that level.
LEMMA AddLevel_Sound ==
    ASSUME Sound, NEW th \in Threads, AddLevel(th) PROVE (Fresh /\ Whole)'
<1> DEFINE req == thread[th]
<1>1. req.stage = "add"
  BY DEF AddLevel, At
<1>2. req \in Serving /\ Placed(req)
  BY <1>1, Serving_At DEF Sound
<1>3. req.user \in Users /\ req.kind \in {"update", "invite"}
  BY <1>1, <1>2 DEF Placed, StagesOf, Serving, Kinds
<1>4. Fresh' /\ UNCHANGED <<requests, asked>>
  BY Same_Fresh DEF AddLevel, Sound
<1>5. CASE Give(req.user, req.level) /\ Proceed(th)
  <2>1. Grows /\ req.level \in held'[req.user]
    BY <1>3, <1>4, <1>5, Give_Grows DEF Sound
  <2>2. /\ Only(th) /\ thread'[th].stage = "notify"
        /\ thread'[th].level = req.level /\ thread'[th].user = req.user
    <3>1. Following(req.kind, req.stage) = "notify"
      BY <1>1, <1>3 DEF Following, AfterUpdate, AfterInvite
    <3> QED BY <1>1, <1>5, <3>1, Proceed_Only DEF Sound, Idle
  <2>3. Granting(thread[th])' /\ Telling(thread[th])'
    BY <2>1, <2>2 DEF Granting, Telling
  <2> QED BY <1>4, <2>1, <2>2, <2>3, Step_Whole
<1>6. CASE /\ Become(th, [req EXCEPT !.stage = Following(req.kind, "notify")])
           /\ UNCHANGED held
  <2>1. Grows
    BY <1>4, <1>6, Same_Grows DEF Sound
  <2>2. Following(req.kind, "notify") \notin Promising
    BY Following_Calm
  <2> DEFINE new == [req EXCEPT !.stage = Following(req.kind, "notify")]
  <2>3. Become(th, new) /\ new.stage = Following(req.kind, "notify")
    BY <1>2, <1>6 DEF Serving
  <2> HIDE DEF new
  <2>4. Only(th) /\ thread'[th].stage \notin Promising
    BY <2>2, <2>3, Become_Only DEF Sound, Idle, Promising
  <2> QED BY <1>4, <2>1, <2>4, Step_Whole
<1> QED BY <1>5, <1>6 DEF AddLevel

LEMMA FindRequest_Sound ==
    ASSUME Sound, NEW th \in Threads, FindRequest(th) PROVE (Fresh /\ Whole)'
<1> DEFINE req == thread[th]
<1>1. req.stage = "find"
  BY DEF FindRequest, At
<1>2. req \in Serving /\ Placed(req)
  BY <1>1, Serving_At DEF Sound
<1>3. req.user \in Users /\ req.kind \in {"accept", "deny"}
  BY <1>1, <1>2 DEF Placed, StagesOf, Serving, Kinds
<1>4. UNCHANGED <<held, requests, asked>>
  BY DEF FindRequest, access, history
<1>5. Grows /\ Fresh'
  BY <1>4, Same_Grows, Same_Fresh DEF Sound
<1>6. CASE Answered(th)
  <2>1. Only(th) /\ thread'[th] = Idle
    BY <1>1, <1>6, Proceed_Only DEF Sound
  <2> QED BY <1>5, <2>1, Step_Whole DEF Promising, Idle
<1>7. ASSUME NEW i \in RequestsOf(req.user),
             Become(th, [Onward(req) EXCEPT !.request = i, !.level = Head(requests[i].roles),
                                            !.roles = requests[i].roles])
      PROVE  Whole'
  <2> DEFINE new == [Onward(req) EXCEPT !.request = i, !.level = Head(requests[i].roles),
                                        !.roles = requests[i].roles]
  <2>1. /\ Onward(req) \in Moving /\ Onward(req).kind = req.kind
        /\ Onward(req).user = req.user /\ Onward(req).stage = Following(req.kind, "find")
    BY <1>1, <1>2, Onward_Moving DEF Onward, Serving, Sound
  <2>2. /\ new.kind = req.kind /\ new.user = req.user /\ new.stage = Following(req.kind, "find")
        /\ new.request = i /\ new.roles = requests[i].roles /\ new.level = Head(requests[i].roles)
    BY <2>1 DEF Moving
  <2>3. Become(th, new)
    BY <1>7
  <2> HIDE DEF new
  <2>4. Following(req.kind, "find") = IF req.kind = "accept" THEN "grant" ELSE "resolve"
    <3>1. CASE req.kind = "accept"
      BY <3>1 DEF Following, AfterAnswer
    <3>2. CASE req.kind = "deny"
      BY <3>2 DEF Following, AfterAnswer
    <3> QED BY <1>3, <3>1, <3>2
  <2>5. Only(th) /\ thread'[th] = new
    BY <2>2, <2>3, <2>4, Become_Only DEF Sound
  <2>6. i \in RequestIds /\ requests[i] # NoRequest /\ requests[i].user = req.user
    BY <1>3, ConstantsOK DEF ConstantsOK, RequestsOf, NoRequest
  <2>7. i \in 1..asked
    BY <2>6, ConstantsOK DEF ConstantsOK, Sound, Fresh, Placement, TypeOK, RequestIds
  <2>8. Head(requests[i].roles) \in ListedRoles(new)
    <3>1. requests[i] \in Request
      BY <2>6 DEF Sound, Placement, TypeOK
    <3>2. requests[i].roles \in Seq(Roles) /\ requests[i].roles # <<>>
      BY <3>1, ConstantsOK DEF ConstantsOK, Request, Roles
    <3>3. 1 \in DOMAIN requests[i].roles /\ Head(requests[i].roles) = requests[i].roles[1]
      BY <3>2
    <3> QED BY <2>2, <3>3 DEF ListedRoles
  <2>9. ListedRoles(requests[i]) = ListedRoles(new)
    BY <2>2 DEF ListedRoles
  <2>10. Granting(thread[th])' /\ Telling(thread[th])'
    BY <1>4, <2>2, <2>4, <2>5, <2>6, <2>7, <2>8, <2>9 DEF Granting, Telling, ListedRoles
  <2> QED BY <1>5, <2>5, <2>10, Step_Whole
<1> QED BY <1>5, <1>6, <1>7 DEF FindRequest

LEMMA GrantRole_Sound ==
    ASSUME Sound, NEW th \in Threads, GrantRole(th) PROVE (Fresh /\ Whole)'
<1> DEFINE req == thread[th]
           rest == [req EXCEPT !.roles = Tail(@)]
<1>1. req.stage = "grant"
  BY DEF GrantRole, At
<1>2. req \in Serving /\ Placed(req) /\ Granting(req)
  BY <1>1, Serving_At DEF Sound, Whole
<1>3. req.user \in Users /\ req.kind = "accept" /\ req.roles \in Seq(Roles)
  BY <1>1, <1>2 DEF Placed, StagesOf, Serving, Kinds, Roles
<1>4. /\ req.request \in 1..asked
      /\ req.level \in held[req.user] \cup ListedRoles(req)
      /\ requests[req.request] # NoRequest =>
            /\ requests[req.request].user = req.user
            /\ ListedRoles(requests[req.request]) \subseteq held[req.user] \cup ListedRoles(req)
  BY <1>1, <1>2, <1>3 DEF Granting
<1>5. CASE Abort(th)
  BY <1>5, Calm_Sound
<1>6. CASE req.roles = <<>> /\ Proceed(th) /\ UNCHANGED <<access, history>>
  <2>1. UNCHANGED <<held, requests, asked>>
    BY <1>6 DEF access, history
  <2>2. Grows /\ Fresh'
    BY <2>1, Same_Grows, Same_Fresh DEF Sound
  <2>3. Following(req.kind, req.stage) = "resolve"
    BY <1>1, <1>3 DEF Following, AfterAnswer
  <2>4. /\ Only(th) /\ thread'[th].stage = "resolve" /\ thread'[th].kind = req.kind
        /\ thread'[th].user = req.user /\ thread'[th].level = req.level
        /\ thread'[th].roles = req.roles /\ thread'[th].request = req.request
    BY <1>1, <1>6, <2>3, Proceed_Only DEF Sound, Idle
  <2>5. Granting(thread[th])' /\ Telling(thread[th])'
    BY <1>4, <1>6, <2>1, <2>4 DEF Granting, Telling, ListedRoles
  <2> QED BY <2>2, <2>4, <2>5, Step_Whole
<1>7. CASE /\ req.roles # <<>> /\ Give(req.user, Head(req.roles)) /\ Become(th, rest)
           /\ UNCHANGED <<requests, asked>>
  <2>1. Grows /\ Fresh' /\ Head(req.roles) \in held'[req.user]
    BY <1>3, <1>7, Give_Grows, Same_Fresh DEF Sound
  <2>2. /\ rest.stage = "grant" /\ rest.kind = req.kind /\ rest.user = req.user
        /\ rest.level = req.level /\ rest.roles = Tail(req.roles) /\ rest.request = req.request
    BY <1>1, <1>2 DEF Serving
  <2>3. Become(th, rest)
    BY <1>7
  <2> HIDE DEF rest
  <2>4. Only(th) /\ thread'[th] = rest
    BY <2>2, <2>3, Become_Only DEF Sound
  <2>5. held[req.user] \cup ListedRoles(req) \subseteq held'[req.user] \cup ListedRoles(rest)
    <3>1. \A k \in DOMAIN req.roles :
             req.roles[k] = Head(req.roles) \/ \E m \in DOMAIN rest.roles : req.roles[k] = rest.roles[m]
      BY <1>3, <1>7, <2>2, Head_Tail
    <3>2. ListedRoles(req) \subseteq {Head(req.roles)} \cup ListedRoles(rest)
      BY <3>1 DEF ListedRoles
    <3> QED BY <1>3, <2>1, <3>2 DEF Grows
  <2>6. Granting(thread[th])' /\ Telling(thread[th])'
    <3>1. /\ rest.request \in 1..asked'
          /\ rest.level \in held'[rest.user] \cup ListedRoles(rest)
          /\ requests'[rest.request] # NoRequest =>
                /\ requests'[rest.request].user = rest.user
                /\ ListedRoles(requests'[rest.request]) \subseteq held'[rest.user] \cup ListedRoles(rest)
      BY <1>4, <1>7, <2>2, <2>5
    <3> QED BY <2>2, <2>4, <3>1 DEF Granting, Telling, ListedRoles
  <2> QED BY <2>1, <2>4, <2>6, Step_Whole
<1> QED BY <1>5, <1>6, <1>7 DEF GrantRole

LEMMA Resolve_Sound ==
    ASSUME Sound, NEW th \in Threads, Resolve(th) PROVE (Fresh /\ Whole)'
<1> DEFINE req == thread[th]
<1>1. req.stage = "resolve" /\ Proceed(th)
  BY DEF Resolve, At
<1>2. req \in Serving /\ Placed(req) /\ Granting(req)
  BY <1>1, Serving_At DEF Sound, Whole
<1>3. /\ UNCHANGED <<held, asked>>
      /\ \A i \in RequestIds : requests'[i] \in {requests[i], NoRequest}
  BY DEF Resolve, history, Sound, Placement, TypeOK
<1>4. Grows
  BY <1>3, ConstantsOK DEF ConstantsOK, Grows, Sound, Placement, TypeOK, RequestIds
<1>5. Fresh'
  BY <1>3 DEF Fresh, Sound
<1>6. req.kind \in {"accept", "deny"}
  BY <1>1, <1>2 DEF Placed, StagesOf, Serving, Kinds
<1>7. /\ Only(th) /\ thread'[th].stage = Following(req.kind, req.stage)
      /\ \/ thread'[th] = Idle
         \/ thread'[th].user = req.user /\ thread'[th].level = req.level
  BY <1>1, Proceed_Only DEF Sound
<1>8. CASE req.kind = "accept"
  <2>1. req.level \in held[req.user]
    BY <1>1, <1>2, <1>8 DEF Granting, ListedRoles
  <2>2. thread'[th].stage = "notify"
    BY <1>1, <1>7, <1>8 DEF Following, AfterAnswer
  <2>3. Granting(thread[th])' /\ Telling(thread[th])'
    BY <1>3, <1>7, <2>1, <2>2 DEF Granting, Telling, Idle
  <2> QED BY <1>4, <1>5, <1>7, <2>3, Step_Whole
<1>9. CASE req.kind = "deny"
  <2>1. Following(req.kind, req.stage) = "idle"
    BY <1>1, <1>9 DEF Following, AfterAnswer
  <2> QED BY <1>4, <1>5, <1>7, <2>1, Step_Whole DEF Promising
<1> QED BY <1>6, <1>8, <1>9

LEMMA Init_Sound == Init => Sound
<1> SUFFICES ASSUME Init PROVE Fresh /\ Whole
  BY Init_Placement DEF Sound
<1>1. Fresh
  BY DEF Init, Fresh
<1>2. Whole
  BY DEF Init, Whole, Granting, Telling, Idle
<1> QED BY <1>1, <1>2

LEMMA Next_Sound ==
    ASSUME Sound, [Next]_vars PROVE Sound'
<1>1. Placement'
  BY Next_Placement DEF Sound
<1>2. CASE UNCHANGED vars
  BY <1>1, <1>2 DEF vars, access, history, Sound, Fresh, Whole, Granting, Telling
<1>3. ASSUME NEW th \in Threads, Arrive(th) \/ ThreadStep(th) \/ Break(th)
      PROVE  (Fresh /\ Whole)'
  BY <1>3, Calm_Sound, Store_Sound, Enroll_Sound, AddLevel_Sound, FindRequest_Sound,
     GrantRole_Sound, Resolve_Sound DEF ThreadStep
<1> QED BY <1>1, <1>2, <1>3 DEF Next, Sound

\* Only the mail step queues that somebody was given a level.
LEMMA Next_Told ==
    ASSUME Sound, OnlyHoldersAreTold, [Next]_vars PROVE OnlyHoldersAreTold'
<1>1. \A u \in Users : held[u] \subseteq held'[u]
  <2>1. CASE UNCHANGED vars
    BY <2>1 DEF vars, history
  <2>2. ASSUME NEW th \in Threads, Arrive(th) \/ ThreadStep(th) \/ Break(th)
        PROVE  UNCHANGED held \/ \E u, role : Give(u, role)
    BY <2>2 DEF ThreadStep, Arrive, ServeUpdate, ServeToken, ServeRequest, ServeAnswer,
       ServeParticipant, ServeInvite, Serve, Authorize, NextPermission, Revoke, AddLevel, Notify,
       Store, Tell, FindRequest, GrantRole, Resolve, ValidateInvitation, SaveInvitation,
       EnsureAccount, LookForParticipant, Enroll, SetPermission, QueueInvitation, Leave, Break,
       Abort, access, history
  <2>3. ASSUME NEW u, NEW role, Give(u, role) PROVE \A v \in Users : held[v] \subseteq held'[v]
    BY <2>3 DEF Give, Sound, Placement, TypeOK
  <2> QED BY <2>1, <2>2, <2>3 DEF Next
<1>2. \A j \in queued : j.user \in Users
  BY DEF Sound, Placement, TypeOK, Job
<1>3. \A j \in queued : j.kind = "granted" => j.role \in held'[j.user]
  BY <1>1, <1>2 DEF OnlyHoldersAreTold
<1>4. CASE UNCHANGED queued
  BY <1>3, <1>4 DEF OnlyHoldersAreTold
<1>5. ASSUME NEW th \in Threads, Notify(th) PROVE OnlyHoldersAreTold'
  <2>1. thread[th].stage = "notify"
    BY <1>5 DEF Notify, At
  <2>2. thread[th].user \in Users
    BY <2>1, Serving_At DEF Placed, Sound
  <2>3. thread[th].level \in held'[thread[th].user]
    BY <1>1, <2>1, <2>2 DEF Sound, Whole, Telling
  <2>4. queued' \subseteq queued \cup {Granted(thread[th].user, thread[th].level)}
    BY <1>5 DEF Notify
  <2> QED BY <1>3, <2>3, <2>4 DEF OnlyHoldersAreTold, Granted
<1>6. ASSUME NEW th \in Threads, Tell(th) \/ QueueInvitation(th) PROVE OnlyHoldersAreTold'
  <2>1. \A j \in queued' : j \in queued \/ j.kind # "granted"
    BY <1>6 DEF Tell, QueueInvitation
  <2> QED BY <1>3, <2>1 DEF OnlyHoldersAreTold
<1>7. ASSUME NEW th \in Threads, Arrive(th) \/ ThreadStep(th) \/ Break(th)
      PROVE  UNCHANGED queued \/ Notify(th) \/ Tell(th) \/ QueueInvitation(th)
  BY <1>7 DEF ThreadStep, Arrive, ServeUpdate, ServeToken, ServeRequest, ServeAnswer,
     ServeParticipant, ServeInvite, Serve, Authorize, NextPermission, Revoke, AddLevel,
     Store, FindRequest, GrantRole, Resolve, ValidateInvitation, SaveInvitation,
     EnsureAccount, LookForParticipant, Enroll, SetPermission, Leave, Break, Abort, access
<1> QED BY <1>4, <1>5, <1>6, <1>7 DEF Next, vars, access

\* A mail about a level is only queued for who was given that level.
THEOREM OnlyHoldersAlwaysTold == Spec => []OnlyHoldersAreTold
<1>1. Init => OnlyHoldersAreTold
  BY DEF Init, OnlyHoldersAreTold
<1> QED BY <1>1, Init_Sound, Next_Sound, Next_Told, PTL DEF Spec

LEMMA Next_Ends ==
    ASSUME Sound, [Next]_vars, NEW i \in RequestIds, requests[i] # NoRequest,
           requests'[i] = NoRequest
    PROVE  \/ \E th \in Threads : /\ thread[th].kind = "deny" /\ thread[th].stage = "resolve"
                                  /\ thread[th].request = i
           \/ ListedRoles(requests[i]) \subseteq held[requests[i].user]
<1>1. PICK th \in Threads : Store(th) \/ Resolve(th)
  <2>1. ASSUME NEW th \in Threads, Arrive(th) \/ ThreadStep(th) \/ Break(th),
               ~Store(th), ~Resolve(th)
        PROVE  UNCHANGED requests
    BY <2>1 DEF ThreadStep, Arrive, ServeUpdate, ServeToken, ServeRequest, ServeAnswer,
       ServeParticipant, ServeInvite, Serve, Authorize, NextPermission, Revoke, AddLevel, Notify,
       Tell, FindRequest, GrantRole, ValidateInvitation, SaveInvitation, EnsureAccount,
       LookForParticipant, Enroll, SetPermission, QueueInvitation, Leave, Break, Abort, access
  <2> QED BY <2>1 DEF Next, vars, access
<1>2. CASE Store(th)
  <2>1. /\ asked \in Nat /\ asked' = asked + 1
        /\ i # asked' => requests'[i] = requests[i]
    BY <1>2 DEF Store, Sound, Placement, TypeOK
  <2>2. i # asked'
    BY <2>1 DEF Sound, Fresh
  <2> QED BY <2>1, <2>2
<1>3. CASE Resolve(th)
  <2> DEFINE req == thread[th]
  <2>1. req.stage = "resolve" /\ req.request = i
    BY <1>3 DEF Resolve, At, Sound, Placement, TypeOK
  <2>2. req \in Serving /\ Placed(req) /\ Granting(req)
    BY <2>1, Serving_At DEF Sound, Whole
  <2>3. req.kind \in {"accept", "deny"}
    BY <2>1, <2>2 DEF Placed, StagesOf, Serving, Kinds
  <2>4. CASE req.kind = "accept"
    <3>1. /\ requests[i].user = req.user /\ req.roles = <<>>
          /\ ListedRoles(requests[i]) \subseteq held[req.user] \cup ListedRoles(req)
      BY <2>1, <2>2, <2>4 DEF Granting
    <3>2. ListedRoles(req) = {}
      BY <3>1 DEF ListedRoles
    <3> QED BY <3>1, <3>2
  <2> QED BY <2>1, <2>3, <2>4
<1> QED BY <1>1, <1>2, <1>3

\* A request for access ends with all it asked for, or with a denial, however
\* many requests are granted and denied at once and wherever they break.
THEOREM RequestsAlwaysEndWhole == Spec => RequestsEndWhole
<1>1. Sound /\ [Next]_vars =>
        [\A i \in RequestIds :
           requests[i] # NoRequest /\ requests'[i] = NoRequest =>
             \/ \E th \in Threads : /\ thread[th].kind = "deny" /\ thread[th].stage = "resolve"
                                    /\ thread[th].request = i
             \/ ListedRoles(requests[i]) \subseteq held[requests[i].user]]_vars
  BY Next_Ends
<1> QED BY <1>1, Init_Sound, Next_Sound, PTL DEF Spec, RequestsEndWhole
=============================================================================
