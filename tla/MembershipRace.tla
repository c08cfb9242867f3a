--------------------------- MODULE MembershipRace ---------------------------
(***************************************************************************)
(* The handlers of ToolMembersController, and #update of the inventory, as *)
(* the database sees them: every SELECT and every commit is a step, and    *)
(* the threads of the Puma workers interleave them.  The rows of           *)
(* tool_members have ids of their own, because nothing in the database     *)
(* keeps a user from having two: the unique index idx_tool_members_unique  *)
(* includes the column role, which is NULL in every row.                   *)
(*                                                                         *)
(* As long as no two requests have overlapped, the handlers implement the  *)
(* atomic actions of ToolMembership; RowsBounded says what overlapping     *)
(* handlers leave.                                                         *)
(***************************************************************************)
EXTENDS Naturals, FiniteSets

CONSTANTS
    Users,
    Inventory,
    Threads,     \* config/puma.rb: threads of all workers
    MaxRows,     \* bound: rows ever inserted
    Posted,      \* sets of legal roles that requests carry
    RoleLists,   \* of ToolMembership: an array for every such set
    NoOne

Facilitator == "facilitator"
Participant == "participant"
RoleSets    == (SUBSET {Facilitator, Participant}) \ {{}}
RowIds      == 1..MaxRows

ASSUME ConstantsOK ==
    /\ MaxRows \in Nat
    /\ Posted \subseteq RoleSets
    /\ NoOne \notin Users
    /\ IsFiniteSet(Threads) /\ Threads # {}

VARIABLES
    owner,     \* owner_id of the inventory, NoOne before it is created
    expired,   \* its deadline is in the past
    rows,      \* id -> row of tool_members
    inserted,  \* rows inserted so far: the next id is inserted + 1
    thread,    \* thread -> the request it serves
    reply,     \* what the last request that was answered with success did
    overlapped \* history: two requests were under way at the same time

vars == <<owner, expired, rows, inserted, thread, reply, overlapped>>

Row   == [user: Users, roles: RoleSets]
NoRow == [user |-> NoOne, roles |-> {}]

Stages == {"authorize", "validate", "write", "callback", "revalidate", "restore", "delete"}

\* row: the id the request found or wrote, 0 for none; previous: the roles that
\* row had when it was loaded.
Serving == [stage: Stages, kind: {"create", "destroy", "update"}, by: Users,
            user: Users \cup {NoOne}, roles: Posted \cup {{}}, extend: BOOLEAN,
            row: {0} \cup RowIds, previous: RoleSets \cup {{}}]
Idle    == [stage |-> "idle"]

RowsOf(u)        == {i \in RowIds : rows[i].user = u}
HasRole(u, role) == \E i \in RowsOf(u) : role \in rows[i].roles
CanInsert        == inserted < MaxRows

TypeOK ==
    /\ owner \in Users \cup {NoOne}
    /\ expired \in BOOLEAN
    /\ rows \in [RowIds -> Row \cup {NoRow}]
    /\ inserted \in 0..MaxRows
    /\ \A i \in RowIds : i > inserted => rows[i] = NoRow
    /\ thread \in [Threads -> Serving \cup {Idle}]
    /\ overlapped \in BOOLEAN

Init ==
    /\ owner = NoOne
    /\ expired = FALSE
    /\ rows = [i \in RowIds |-> NoRow]
    /\ inserted = 0
    /\ thread = [th \in Threads |-> Idle]
    /\ reply = [by |-> NoOne, status |-> "ok", jobs |-> {}, saved |-> {}]
    /\ overlapped = FALSE

-----------------------------------------------------------------------------
Respond(u, jobs, saved) ==
    reply' = [by |-> u, status |-> "ok", jobs |-> jobs, saved |-> saved]

Insert(u, rs) ==
    /\ CanInsert
    /\ inserted' = inserted + 1
    /\ rows' = [rows EXCEPT ![inserted + 1] = [user |-> u, roles |-> rs]]

Goto(th, stage) == thread' = [thread EXCEPT ![th].stage = stage]
Abandon(th)     == /\ thread' = [thread EXCEPT ![th] = Idle]
                   /\ UNCHANGED <<owner, expired, rows, inserted, reply>>

\* Nobody else can work on the inventory before it is committed.
CreateInventory(u) ==
    /\ owner = NoOne
    /\ owner' = u
    /\ Insert(u, {Facilitator})
    /\ Respond(u, {}, {Inventory})
    /\ UNCHANGED <<expired, thread, overlapped>>

\* Bound: the deadline does not pass between the validation of the inventory
\* and the commit of the same save.
PassDeadline ==
    /\ owner # NoOne /\ ~expired
    /\ \A th \in Threads : thread[th].stage \notin {"revalidate", "restore"}
    /\ expired' = TRUE
    /\ Respond(NoOne, {}, {})
    /\ UNCHANGED <<owner, rows, inserted, thread, overlapped>>

-----------------------------------------------------------------------------
(* A request arrives; #create and #destroy load the row they work on.      *)

Serve(th, kind, u, v, rs, extend, i) ==
    /\ owner # NoOne
    /\ thread[th] = Idle
    /\ thread' = [thread EXCEPT ![th] =
          [stage |-> "authorize", kind |-> kind, by |-> u, user |-> v, roles |-> rs,
           extend |-> extend, row |-> i, previous |-> IF i = 0 THEN {} ELSE rows[i].roles]]
    /\ overlapped' = (overlapped \/ \E t \in Threads : thread[t] # Idle)
    /\ UNCHANGED <<owner, expired, rows, inserted, reply>>

\* find_or_create_by takes any row of the user; without one its create fails,
\* for want of roles, and the record stays new.
ServeCreate(th, u, v, rs) ==
    \/ RowsOf(v) = {} /\ Serve(th, "create", u, v, rs, FALSE, 0)
    \/ \E i \in RowsOf(v) : Serve(th, "create", u, v, rs, FALSE, i)

ServeDestroy(th, u, i) ==
    /\ rows[i] # NoRow
    /\ Serve(th, "destroy", u, rows[i].user, {}, FALSE, i)

ServeUpdate(th, u, extend) == Serve(th, "update", u, NoOne, {}, extend, 0)

-----------------------------------------------------------------------------
(* The steps of a handler                                                  *)

At(th, stage) == thread[th] # Idle /\ thread[th].stage = stage

\* Variant: a facilitator may remove the own row.
RefusedOwner(req) ==
    /\ req.kind = "destroy"
    /\ Facilitator \in req.previous
    /\ req.user = owner

\* The two errors of #destroy, from the row as it was loaded.
Refused(req) ==
    /\ req.kind = "destroy"
    /\ Facilitator \in req.previous
    /\ req.user \in {owner, req.by}

FirstStage == [create |-> "validate", destroy |-> "delete", update |-> "callback"]

\* authorize_action_for
Authorize(th) ==
    /\ At(th, "authorize")
    /\ IF HasRole(thread[th].by, Facilitator) /\ ~Refused(thread[th])
       THEN /\ Goto(th, FirstStage[thread[th].kind])
            /\ UNCHANGED <<owner, expired, rows, inserted, reply>>
       ELSE Abandon(th)

\* Variant: validates_uniqueness_of is gone.
UniquenessUnchecked(u, i) == TRUE

\* validates_uniqueness_of :user_id looks for another row of the user than i.
Unique(u, i) == RowsOf(u) \subseteq {i}

Validate(th) ==
    /\ At(th, "validate")
    /\ IF thread[th].roles # {} /\ Unique(thread[th].user, thread[th].row)
       THEN /\ Goto(th, "write")
            /\ UNCHANGED <<owner, expired, rows, inserted, reply>>
       ELSE Abandon(th)

\* The commit of the save: an INSERT, or an UPDATE of a row that may be gone
\* by now, which Rails does not notice.
Write(th) ==
    /\ At(th, "write")
    /\ LET req == thread[th]
       IN  IF req.row = 0
           THEN /\ Insert(req.user, req.roles)
                /\ thread' = [thread EXCEPT ![th].stage = "callback", ![th].row = inserted + 1]
           ELSE /\ rows' = IF rows[req.row] = NoRow THEN rows
                           ELSE [rows EXCEPT ![req.row].roles = req.roles]
                /\ inserted' = inserted
                /\ Goto(th, "callback")
    /\ UNCHANGED <<owner, expired, reply>>

Granted(u) == [kind |-> "access_granted", tool |-> Inventory, user |-> u]

\* The answer to a request that got as far as the save of the inventory.
Answer(th, saved) ==
    LET req == thread[th]
    IN  /\ Respond(req.by, IF req.roles \subseteq req.previous THEN {} ELSE {Granted(req.user)}, saved)
        /\ expired' = IF req.extend /\ saved # {} THEN FALSE ELSE expired
        /\ thread' = [thread EXCEPT ![th] = Idle]

Saves(req) == ~expired \/ req.extend

\* tool.save: its validation, and the SELECT of add_owner_as_tool_facilitator.
Callback(th) ==
    /\ At(th, "callback") /\ Saves(thread[th])
    /\ IF HasRole(owner, Facilitator)
       THEN Answer(th, {Inventory}) /\ UNCHANGED <<owner, rows, inserted>>
       ELSE Goto(th, "revalidate") /\ UNCHANGED <<owner, expired, rows, inserted, reply>>

\* #create ignores what tool.save answers, #update does not.
SaveRefused(th) ==
    /\ At(th, "callback") /\ ~Saves(thread[th])
    /\ IF thread[th].kind = "create"
       THEN Answer(th, {}) /\ UNCHANGED <<owner, rows, inserted>>
       ELSE Abandon(th)

Revalidate(th) ==
    /\ At(th, "revalidate")
    /\ IF Unique(owner, 0)
       THEN Goto(th, "restore") /\ UNCHANGED <<owner, expired, rows, inserted, reply>>
       ELSE Answer(th, {Inventory}) /\ UNCHANGED <<owner, rows, inserted>>

Restore(th) ==
    /\ At(th, "restore")
    /\ Insert(owner, {Facilitator})
    /\ Answer(th, {Inventory})
    /\ UNCHANGED owner

\* A row that is gone already is deleted once more, without an error.
Delete(th) ==
    /\ At(th, "delete")
    /\ rows' = [rows EXCEPT ![thread[th].row] = NoRow]
    /\ Answer(th, {})
    /\ UNCHANGED <<owner, inserted>>

-----------------------------------------------------------------------------
Arrive(th) ==
    \E u \in Users :
        \/ \E v \in Users, rs \in Posted \cup {{}} : ServeCreate(th, u, v, rs)
        \/ \E i \in RowIds : ServeDestroy(th, u, i)
        \/ \E extend \in BOOLEAN : ServeUpdate(th, u, extend)

Step(th) ==
    /\ \/ Authorize(th) \/ Validate(th) \/ Write(th)
       \/ Callback(th) \/ SaveRefused(th) \/ Revalidate(th) \/ Restore(th)
       \/ Delete(th)
    /\ UNCHANGED overlapped

Next ==
    \/ PassDeadline
    \/ \E u \in Users : CreateInventory(u)
    \/ \E th \in Threads : Arrive(th) \/ Step(th)

Spec == Init /\ [][Next]_vars

-----------------------------------------------------------------------------
(* Without overlap: ToolMembership, each request at its last commit.     *)

\* The table before a request that has written its row and not answered yet.
Settled ==
    LET writing == {th \in Threads : thread[th].stage \in {"callback", "revalidate", "restore"}
                                     /\ thread[th].row # 0}
        undone(req) == IF req.previous = {} THEN NoRow
                       ELSE [user |-> req.user, roles |-> req.previous]
    IN  IF writing = {} THEN rows
        ELSE LET req == thread[CHOOSE th \in writing : TRUE]
             IN  [rows EXCEPT ![req.row] = undone(req)]

RolesIn(table) ==
    [u \in Users |-> UNION {table[i].roles : i \in {j \in RowIds : table[j].user = u}}]

Atomic == INSTANCE ToolMembership WITH
    NetworkPartners <- {}, Analyses <- {}, Invitable <- {}, RequestIds <- {},
    owner       <- [t \in {Inventory} |-> owner],
    roles       <- [t \in {Inventory} |-> RolesIn(Settled)],
    requests    <- [i \in {} |-> NoOne],
    invitations <- {},
    candidate   <- [u \in Users |-> [tool |-> NoOne]]

\* Whatever legal roles a request carries, a client can post them as an array.
ASSUME EverySetPosted ==
    \A rs \in Posted : \E list \in RoleLists :
        Atomic!RolesValid(list, FALSE) /\ Atomic!Range(list) = rs

\* As long as no two requests have been under way at the same time, every step
\* is the atomic action of a handler or changes nothing that ToolMembership
\* sees: the SELECTs and commits of find_or_create_by, save and the callbacks
\* add up.  (After an overlap they need not: a user may have two rows.)
ImplementsAtomic ==
    /\ Atomic!Init
    /\ [][~overlapped' => [Atomic!Next]_(Atomic!vars)]_vars

-----------------------------------------------------------------------------
(* What overlapping handlers leave                                         *)

\* However the requests overlap, a user has at most as many rows as there are
\* threads: two threads may both validate a user before either inserts the row,
\* but once a row is committed, no validation lets another one through.
RowsBounded == \A u \in Users : Cardinality(RowsOf(u)) <= Cardinality(Threads)
=============================================================================
