------------------------ MODULE MembershipRaceProofs ------------------------
(***************************************************************************)
(* Proofs about MembershipRace: type correctness, how many rows a user can *)
(* get from handlers that overlap in any way, for any number of users,     *)
(* threads and rows, and that as long as no two handlers have overlapped   *)
(* they implement the atomic actions of ToolMembership.                    *)
(***************************************************************************)
EXTENDS MembershipRace, FiniteSetTheorems, TLAPS

\* What a request is, by the stage it has reached.
Sound(req) ==
    /\ req.kind = "create" => req.user \in Users
    /\ req.kind = "destroy" => req.row \in RowIds
    /\ req.stage \in {"validate", "write"} => req.kind = "create"
    /\ req.stage = "delete" => req.kind = "destroy"
    /\ req.stage = "write" => req.roles # {}

\* There are rows and requests only once the inventory exists.
Sane ==
    /\ \A th \in Threads : thread[th] # Idle => owner # NoOne /\ Sound(thread[th])
    /\ owner = NoOne => \A i \in RowIds : rows[i] = NoRow

TypeInv == TypeOK /\ Sane

\* The threads that have validated a row of the user and not inserted it yet.
Inserting(u) ==
    {th \in Threads :
       /\ thread[th] # Idle
       /\ \/ thread[th].stage = "write" /\ thread[th].row = 0 /\ thread[th].user = u
          \/ thread[th].stage = "restore" /\ owner = u}

RowsAndInserts ==
    \A u \in Users : Cardinality(RowsOf(u)) + Cardinality(Inserting(u)) <= Cardinality(Threads)

---------------------------------------------------------------------------
(* Type correctness                                                        *)

LEMMA IdleIsNotServed == ASSUME NEW req \in Serving PROVE req # Idle
BY DEF Serving, Idle, Stages

LEMMA InitTypeInv == Init => TypeInv
<1> SUFFICES ASSUME Init PROVE TypeInv
  OBVIOUS
<1>1. \A th \in Threads : thread[th] = Idle
  BY DEF Init
<1>2. thread \in [Threads -> Serving \cup {Idle}]
  BY DEF Init
<1>3. /\ owner = NoOne /\ expired = FALSE /\ inserted = 0
      /\ rows = [i \in RowIds |-> NoRow]
  BY DEF Init
<1>4. expired \in BOOLEAN
  BY <1>3
<1>5. inserted \in 0..MaxRows
  BY <1>3, ConstantsOK DEF ConstantsOK
<1>6. rows \in [RowIds -> Row \cup {NoRow}] /\ \A i \in RowIds : rows[i] = NoRow
  BY <1>3
<1>7. TypeOK
  BY <1>2, <1>3, <1>4, <1>5, <1>6 DEF TypeOK, Init
<1> QED BY <1>1, <1>6, <1>7 DEF TypeInv, Sane

LEMMA InsertType ==
    ASSUME TypeOK, NEW u \in Users, NEW rs \in RoleSets, Insert(u, rs)
    PROVE  /\ rows' \in [RowIds -> Row \cup {NoRow}]
           /\ inserted' \in 0..MaxRows
           /\ \A i \in RowIds : i > inserted' => rows'[i] = NoRow
           /\ inserted + 1 \in RowIds
BY ConstantsOK DEF ConstantsOK, TypeOK, Insert, CanInsert, RowIds, Row

LEMMA AnswerType ==
    ASSUME TypeInv, NEW th \in Threads, NEW saved, Answer(th, saved)
    PROVE  /\ thread' = [thread EXCEPT ![th] = Idle]
           /\ expired' \in BOOLEAN
           /\ thread' \in [Threads -> Serving \cup {Idle}]
BY DEF TypeInv, TypeOK, Answer

LEMMA NextTypeInv == TypeInv /\ [Next]_vars => TypeInv'
<1> SUFFICES ASSUME TypeInv, [Next]_vars PROVE TypeInv'
  OBVIOUS
<1> USE DEF TypeInv
<1>1. ASSUME PassDeadline PROVE TypeInv'
  BY <1>1 DEF PassDeadline, TypeOK, Sane, Sound, RowsOf
<1>2. ASSUME NEW u \in Users, CreateInventory(u) PROVE TypeInv'
  <2>1. {Facilitator} \in RoleSets
    BY DEF RoleSets
  <2>2. TypeOK'
    BY <1>2, <2>1, InsertType DEF CreateInventory, TypeOK
  <2>3. owner' # NoOne /\ \A th \in Threads : thread'[th] = Idle
    BY <1>2, ConstantsOK DEF ConstantsOK, CreateInventory, Sane, TypeOK
  <2> QED BY <2>2, <2>3 DEF Sane
<1>3. ASSUME NEW th \in Threads, Arrive(th) PROVE TypeInv'
  <2>1. PICK kind \in {"create", "destroy", "update"}, u \in Users, v \in Users \cup {NoOne},
             rs \in Posted \cup {{}}, extend \in BOOLEAN, i \in {0} \cup RowIds :
            /\ Serve(th, kind, u, v, rs, extend, i)
            /\ kind = "create" => v \in Users
            /\ kind = "destroy" => i \in RowIds
    <3>1. CASE \E u \in Users, v \in Users, rs \in Posted \cup {{}} : ServeCreate(th, u, v, rs)
      BY <3>1 DEF ServeCreate, RowsOf
    <3>2. CASE \E u \in Users, i \in RowIds : ServeDestroy(th, u, i)
      BY <3>2 DEF ServeDestroy, TypeOK, Row
    <3>3. CASE \E u \in Users, extend \in BOOLEAN : ServeUpdate(th, u, extend)
      BY <3>3 DEF ServeUpdate
    <3> QED BY <1>3, <3>1, <3>2, <3>3 DEF Arrive
  <2> DEFINE req == [stage |-> "authorize", kind |-> kind, by |-> u, user |-> v, roles |-> rs,
                     extend |-> extend, row |-> i,
                     previous |-> IF i = 0 THEN {} ELSE rows[i].roles]
  <2>2. (IF i = 0 THEN {} ELSE rows[i].roles) \in RoleSets \cup {{}}
    BY DEF TypeOK, Row, NoRow
  <2>3. req \in Serving
    BY <2>1, <2>2 DEF Serving, Stages
  <2>4. /\ thread' = [thread EXCEPT ![th] = req] /\ owner # NoOne
        /\ UNCHANGED <<owner, expired, rows, inserted>> /\ overlapped' \in BOOLEAN
    BY <2>1 DEF Serve, TypeOK
  <2>5. Sound(req)
    BY <2>1, <2>4 DEF Sound
  <2>6. TypeOK'
    BY <2>3, <2>4 DEF TypeOK
  <2>7. Sane'
    BY <2>4, <2>5 DEF Sane, TypeOK, Sound
  <2> QED BY <2>6, <2>7
<1>4. ASSUME NEW th \in Threads, Step(th) PROVE TypeInv'
  <2>o. overlapped' \in BOOLEAN
    BY <1>4 DEF Step, TypeOK
  <2>0. /\ thread[th] \in Serving /\ Sound(thread[th]) /\ owner # NoOne
        /\ thread[th].row \in {0} \cup RowIds
    BY <1>4 DEF Step, At, Authorize, Validate, Write, Callback, SaveRefused, Revalidate, Restore,
                Delete, TypeOK, Sane, Serving
  <2>a. ASSUME NEW stage \in Stages, Goto(th, stage), UNCHANGED <<owner, expired, rows, inserted>>,
               stage \in {"validate", "write"} => thread[th].kind = "create",
               stage = "delete" => thread[th].kind = "destroy",
               stage = "write" => thread[th].roles # {}
        PROVE  TypeInv'
    <3>1. [thread[th] EXCEPT !.stage = stage] \in Serving
      BY <2>0 DEF Serving
    <3>2. thread' = [thread EXCEPT ![th] = [thread[th] EXCEPT !.stage = stage]]
      BY <2>a DEF Goto
    <3>3. Sound([thread[th] EXCEPT !.stage = stage])
      BY <2>0, <2>a DEF Sound, Serving
    <3>4. TypeOK'
      BY <2>o, <2>a, <3>1, <3>2 DEF TypeOK
    <3>5. /\ thread'[th] = [thread[th] EXCEPT !.stage = stage]
          /\ \A t \in Threads : t # th => thread'[t] = thread[t]
      BY <3>2 DEF TypeOK
    <3>6. Sane'
      BY <2>0, <2>a, <3>3, <3>5 DEF Sane
    <3> QED BY <3>4, <3>6
  <2>b. ASSUME Abandon(th) PROVE TypeInv'
    BY <2>o, <2>b DEF Abandon, TypeOK, Sane, Sound
  <2>c. ASSUME NEW saved, Answer(th, saved), UNCHANGED owner,
               rows' \in [RowIds -> Row \cup {NoRow}], inserted' \in 0..MaxRows,
               \A i \in RowIds : i > inserted' => rows'[i] = NoRow
        PROVE  TypeInv'
    <3>1. TypeOK'
      BY <2>o, <2>c, AnswerType DEF TypeOK
    <3>2. \A t \in Threads : thread'[t] # Idle => thread'[t] = thread[t]
      BY <2>c, AnswerType DEF TypeOK
    <3>3. owner' # NoOne
      BY <2>0, <2>c
    <3> QED BY <2>c, <3>1, <3>2, <3>3 DEF Sane
  <2>d. ASSUME NEW saved, Answer(th, saved), UNCHANGED <<owner, rows, inserted>> PROVE TypeInv'
    BY <2>c, <2>d DEF TypeOK
  <2>1. CASE Authorize(th)
    <3>1. CASE Abandon(th)
      BY <2>b, <3>1
    <3>2. CASE Goto(th, FirstStage[thread[th].kind]) /\ UNCHANGED <<owner, expired, rows, inserted>>
      <4>1. /\ FirstStage[thread[th].kind] \in {"validate", "delete", "callback"}
            /\ FirstStage[thread[th].kind] = "validate" => thread[th].kind = "create"
            /\ FirstStage[thread[th].kind] = "delete" => thread[th].kind = "destroy"
        BY <2>0 DEF FirstStage, Serving
      <4> QED BY <2>a, <3>2, <4>1 DEF Stages
    <3> QED BY <2>1, <3>1, <3>2 DEF Authorize
  <2>2. CASE Validate(th)
    BY <2>0, <2>2, <2>a, <2>b DEF Validate, At, Sound, Stages
  <2>3. CASE Write(th)
    <3> DEFINE req == thread[th]
    <3>0. /\ req.stage = "write" /\ req.user \in Users /\ req.roles \in RoleSets
      BY <2>0, <2>3, ConstantsOK DEF Write, At, Sound, Serving, ConstantsOK
    <3>1. CASE req.row = 0
      <4>1. Insert(req.user, req.roles)
        BY <2>3, <3>1 DEF Write
      <4> DEFINE new == [req EXCEPT !.stage = "callback", !.row = inserted + 1]
      <4>2. thread' = [thread EXCEPT ![th] = new] /\ UNCHANGED <<owner, expired>>
        BY <2>3, <3>1 DEF Write
      <4>3. new \in Serving
        BY <2>0, <3>0, <4>1, InsertType DEF Serving, Stages
      <4>4. Sound(new)
        BY <2>0, <3>0, <4>1, <4>2, InsertType DEF Sound, Serving
      <4>5. TypeOK'
        BY <2>o, <3>0, <4>1, <4>2, <4>3, InsertType DEF TypeOK
      <4>6. owner' # NoOne
        BY <2>0, <4>2
      <4>7. \A t \in Threads : t # th => thread'[t] = thread[t]
        BY <4>2 DEF TypeOK
      <4>8. thread'[th] = new
        BY <4>2 DEF TypeOK
      <4> QED BY <4>2, <4>4, <4>5, <4>6, <4>7, <4>8 DEF Sane
    <3>2. CASE req.row # 0
      <4>1. /\ Goto(th, "callback") /\ UNCHANGED <<owner, expired, inserted>>
            /\ rows' = IF rows[req.row] = NoRow THEN rows
                       ELSE [rows EXCEPT ![req.row].roles = req.roles]
        BY <2>3, <3>2 DEF Write
      <4>2. /\ rows' \in [RowIds -> Row \cup {NoRow}]
            /\ \A i \in RowIds : rows[i] = NoRow => rows'[i] = NoRow
        BY <3>0, <4>1 DEF TypeOK, Row, NoRow
      <4>3. [req EXCEPT !.stage = "callback"] \in Serving
        BY <2>0 DEF Serving, Stages
      <4>4. thread' = [thread EXCEPT ![th] = [req EXCEPT !.stage = "callback"]]
        BY <4>1 DEF Goto
      <4>5. TypeOK'
        BY <2>o, <4>1, <4>2, <4>3, <4>4 DEF TypeOK
      <4>6. Sound([req EXCEPT !.stage = "callback"])
        BY <2>0, <4>1 DEF Sound, Serving
      <4>7. \A t \in Threads : t # th => thread'[t] = thread[t]
        BY <4>4 DEF TypeOK
      <4>8. thread'[th] = [req EXCEPT !.stage = "callback"]
        BY <4>4 DEF TypeOK
      <4> QED BY <2>0, <4>1, <4>2, <4>5, <4>6, <4>7, <4>8 DEF Sane
    <3> QED BY <3>1, <3>2
  <2>4. CASE Callback(th)
    BY <2>4, <2>a, <2>d DEF Callback, Stages
  <2>5. CASE SaveRefused(th)
    BY <2>5, <2>b, <2>d DEF SaveRefused
  <2>6. CASE Revalidate(th)
    BY <2>6, <2>a, <2>d DEF Revalidate, Stages
  <2>7. CASE Restore(th)
    <3>1. owner \in Users /\ {Facilitator} \in RoleSets
      BY <2>0 DEF TypeOK, RoleSets
    <3>2. /\ Insert(owner, {Facilitator}) /\ Answer(th, {Inventory}) /\ UNCHANGED owner
      BY <2>7 DEF Restore
    <3> QED BY <2>c, <3>1, <3>2, InsertType
  <2>8. CASE Delete(th)
    <3>1. /\ Answer(th, {}) /\ UNCHANGED <<owner, inserted>>
          /\ rows' = [rows EXCEPT ![thread[th].row] = NoRow]
      BY <2>8 DEF Delete
    <3> QED BY <2>c, <3>1 DEF TypeOK
  <2> QED BY <1>4, <2>1, <2>2, <2>3, <2>4, <2>5, <2>6, <2>7, <2>8 DEF Step
<1>5. CASE UNCHANGED vars
  BY <1>5 DEF vars, TypeOK, Sane, Sound
<1> QED BY <1>1, <1>2, <1>3, <1>4, <1>5 DEF Next

LEMMA TypeInvariant == Spec => []TypeInv
BY InitTypeInv, NextTypeInv, PTL DEF Spec

\* The rows and the requests of the threads always have their types.
THEOREM TypeCorrect == Spec => []TypeOK
<1>1. TypeInv => TypeOK
  BY DEF TypeInv
<1> QED BY <1>1, TypeInvariant, PTL

---------------------------------------------------------------------------
(* How many rows a user can get                                            *)

\* A step either takes rows and inserts under way to fewer of them, or finds no
\* row, or turns one insert under way into a row.
Shape(R, P, R2, P2) ==
    \/ R2 \subseteq R /\ P2 \subseteq P
    \/ R2 = {}
    \/ P2 = {} /\ \E i : R2 \subseteq {i}
    \/ \E i, th : th \in P /\ P2 \subseteq P \ {th} /\ R2 \subseteq R \cup {i}

LEMMA ShapeKeepsBound ==
    ASSUME NEW R, IsFiniteSet(R), NEW P \in SUBSET Threads,
           NEW R2, NEW P2 \in SUBSET Threads,
           Cardinality(R) + Cardinality(P) <= Cardinality(Threads),
           Shape(R, P, R2, P2)
    PROVE  Cardinality(R2) + Cardinality(P2) <= Cardinality(Threads)
<1>1. /\ IsFiniteSet(Threads) /\ Cardinality(Threads) \in Nat /\ Cardinality(Threads) # 0
      /\ IsFiniteSet(P) /\ Cardinality(P) \in Nat
      /\ IsFiniteSet(P2) /\ Cardinality(P2) \in Nat /\ Cardinality(P2) <= Cardinality(Threads)
      /\ Cardinality(R) \in Nat
  BY ConstantsOK, FS_Subset, FS_CardinalityType, FS_EmptySet DEF ConstantsOK
<1>2. CASE R2 \subseteq R /\ P2 \subseteq P
  <2>1. /\ Cardinality(R2) \in Nat /\ Cardinality(R2) <= Cardinality(R)
        /\ Cardinality(P2) <= Cardinality(P)
    BY <1>1, <1>2, FS_Subset, FS_CardinalityType
  <2> QED BY <1>1, <2>1
<1>3. CASE R2 = {}
  BY <1>1, <1>3, FS_EmptySet
<1>4. CASE P2 = {} /\ \E i : R2 \subseteq {i}
  <2>1. PICK i : R2 \subseteq {i}
    BY <1>4
  <2>2. Cardinality(R2) \in {0, 1}
    <3>1. R2 = {} \/ R2 = {i}
      BY <2>1
    <3> QED BY <3>1, FS_EmptySet, FS_Singleton
  <2>3. Cardinality(P2) = 0
    BY <1>4, FS_EmptySet
  <2> QED BY <1>1, <2>2, <2>3
<1>5. CASE \E i, th : th \in P /\ P2 \subseteq P \ {th} /\ R2 \subseteq R \cup {i}
  <2>1. PICK i, th : th \in P /\ P2 \subseteq P \ {th} /\ R2 \subseteq R \cup {i}
    BY <1>5
  <2>2. IsFiniteSet(P \ {th}) /\ Cardinality(P \ {th}) = Cardinality(P) - 1
    BY <1>1, <2>1, FS_RemoveElement
  <2>3. Cardinality(P2) <= Cardinality(P) - 1
    BY <2>1, <2>2, FS_Subset
  <2>4. /\ IsFiniteSet(R \cup {i})
        /\ Cardinality(R \cup {i}) \in {Cardinality(R), Cardinality(R) + 1}
    BY FS_AddElement
  <2>5. Cardinality(R2) \in Nat /\ Cardinality(R2) <= Cardinality(R \cup {i})
    BY <2>1, <2>4, FS_Subset, FS_CardinalityType
  <2> QED BY <1>1, <2>3, <2>4, <2>5
<1> QED BY <1>2, <1>3, <1>4, <1>5 DEF Shape

LEMMA NextShape ==
    ASSUME TypeInv, [Next]_vars, NEW u \in Users
    PROVE  Shape(RowsOf(u), Inserting(u), RowsOf(u)', Inserting(u)')
<1> DEFINE R == RowsOf(u)
           P == Inserting(u)
<1> USE DEF Shape
<1>0. u # NoOne
  BY ConstantsOK DEF ConstantsOK
<1>1. CASE PassDeadline
  BY <1>1 DEF PassDeadline, RowsOf, Inserting
<1>2. ASSUME NEW v \in Users, CreateInventory(v)
      PROVE  Shape(R, P, R', P')
  <2>1. /\ \A th \in Threads : thread'[th] = Idle
        /\ \A i \in RowIds : rows[i] = NoRow
    BY <1>2, ConstantsOK DEF ConstantsOK, CreateInventory, TypeInv, TypeOK, Sane
  <2>2. P' = {}
    BY <2>1 DEF Inserting
  <2>3. R' \subseteq {inserted + 1}
    BY <1>0, <1>2, <2>1 DEF CreateInventory, Insert, RowsOf, TypeInv, TypeOK, NoRow
  <2> QED BY <2>2, <2>3
<1>3. ASSUME NEW th \in Threads, Arrive(th)
      PROVE  Shape(R, P, R', P')
  <2>1. /\ UNCHANGED <<owner, rows>>
        /\ \A t \in Threads : t # th => thread'[t] = thread[t]
        /\ thread'[th].stage = "authorize"
    BY <1>3 DEF Arrive, ServeCreate, ServeDestroy, ServeUpdate, Serve, TypeInv, TypeOK
  <2> QED BY <2>1 DEF RowsOf, Inserting
<1>4. ASSUME NEW th \in Threads, Step(th)
      PROVE  Shape(R, P, R', P')
  <2>0. thread[th] \in Serving /\ thread \in [Threads -> Serving \cup {Idle}]
    BY <1>4 DEF Step, At, Authorize, Validate, Write, Callback, SaveRefused, Revalidate, Restore,
                Delete, TypeInv, TypeOK
  <2>a. ASSUME NEW stage \in Stages \ {"write", "restore"}, Goto(th, stage), UNCHANGED <<owner, rows>>
        PROVE  Shape(R, P, R', P')
    <3>1. /\ \A t \in Threads : t # th => thread'[t] = thread[t]
          /\ thread'[th].stage = stage
      BY <2>0, <2>a DEF Goto, Serving
    <3> QED BY <2>a, <3>1 DEF RowsOf, Inserting
  <2>b. ASSUME thread' = [thread EXCEPT ![th] = Idle], owner' = owner
        PROVE  P' \subseteq P \ {th}
    BY <2>0, <2>b DEF Inserting
  <2>c. ASSUME Abandon(th) PROVE Shape(R, P, R', P')
    BY <2>b, <2>c DEF Abandon, RowsOf
  <2>d. ASSUME NEW saved, Answer(th, saved), UNCHANGED <<owner, rows>> PROVE Shape(R, P, R', P')
    BY <2>b, <2>d DEF Answer, RowsOf
  <2>1. CASE Authorize(th)
    <3>1. thread[th].kind \in {"create", "destroy", "update"}
      BY <2>0 DEF Serving
    <3>2. FirstStage[thread[th].kind] \in Stages \ {"write", "restore"}
      BY <3>1 DEF FirstStage, Stages
    <3> QED BY <2>1, <2>a, <2>c, <3>2 DEF Authorize
  <2>2. CASE Validate(th)
    <3>1. CASE Abandon(th)
      BY <2>c, <3>1
    <3>2. CASE /\ Unique(thread[th].user, thread[th].row)
               /\ Goto(th, "write") /\ UNCHANGED <<owner, rows>>
      <4>1. /\ \A t \in Threads : t # th => thread'[t] = thread[t]
            /\ thread'[th] = [thread[th] EXCEPT !.stage = "write"]
        BY <2>0, <3>2 DEF Goto
      <4>2. CASE thread[th].row = 0 /\ thread[th].user = u
        <5>1. R \subseteq {0}
          BY <3>2, <4>2 DEF Unique
        <5>2. R \subseteq RowIds /\ 0 \notin RowIds
          BY DEF RowsOf, RowIds
        <5>3. R = {}
          BY <5>1, <5>2
        <5> QED BY <3>2, <5>3 DEF RowsOf
      <4>3. CASE ~(thread[th].row = 0 /\ thread[th].user = u)
        <5>1. /\ thread'[th].row = thread[th].row /\ thread'[th].user = thread[th].user
              /\ thread'[th].stage = "write"
          BY <2>0, <4>1 DEF Serving
        <5>2. P' \subseteq P
          BY <3>2, <4>1, <4>3, <5>1 DEF Inserting
        <5> QED BY <3>2, <5>2 DEF RowsOf
      <4> QED BY <4>2, <4>3
    <3> QED BY <2>2, <3>1, <3>2 DEF Validate
  <2>3. CASE Write(th)
    <3>0. thread[th] # Idle /\ thread[th].stage = "write" /\ UNCHANGED owner
      BY <2>3 DEF Write, At
    <3>1. CASE thread[th].row = 0
      <4>1. /\ Insert(thread[th].user, thread[th].roles)
            /\ thread' = [thread EXCEPT ![th].stage = "callback", ![th].row = inserted + 1]
        BY <2>3, <3>1 DEF Write
      <4>2. /\ \A t \in Threads : t # th => thread'[t] = thread[t]
            /\ thread'[th].stage = "callback"
        BY <2>0, <4>1 DEF Serving
      <4>3. P' \subseteq P \ {th}
        BY <3>0, <4>2 DEF Inserting
      <4>4. CASE thread[th].user = u
        <5>1. th \in P
          BY <3>0, <3>1, <4>4 DEF Inserting
        <5>2. R' \subseteq R \cup {inserted + 1}
          BY <4>1 DEF Insert, RowsOf, TypeInv, TypeOK
        <5> QED BY <4>3, <5>1, <5>2
      <4>5. CASE thread[th].user # u
        <5>1. inserted + 1 \in RowIds
          BY <4>1, ConstantsOK DEF ConstantsOK, Insert, CanInsert, RowIds, TypeInv, TypeOK
        <5>2. R' \subseteq R
          BY <4>1, <4>5, <5>1 DEF Insert, RowsOf, TypeInv, TypeOK
        <5> QED BY <4>3, <5>2
      <4> QED BY <4>4, <4>5
    <3>2. CASE thread[th].row # 0
      <4>1. /\ Goto(th, "callback")
            /\ rows' = IF rows[thread[th].row] = NoRow THEN rows
                       ELSE [rows EXCEPT ![thread[th].row].roles = thread[th].roles]
        BY <2>3, <3>2 DEF Write
      <4>2. /\ \A t \in Threads : t # th => thread'[t] = thread[t]
            /\ thread'[th].stage = "callback"
        BY <2>0, <4>1 DEF Goto, Serving
      <4>3. P' \subseteq P
        BY <3>0, <4>2 DEF Inserting
      <4>4. \A i \in RowIds : rows'[i].user = rows[i].user
        BY <4>1 DEF TypeInv, TypeOK, Row, NoRow
      <4>5. R' = R
        BY <4>4 DEF RowsOf
      <4> QED BY <4>3, <4>5
    <3> QED BY <3>1, <3>2
  <2>4. CASE Callback(th)
    BY <2>4, <2>a, <2>d DEF Callback, Stages
  <2>5. CASE SaveRefused(th)
    BY <2>5, <2>c, <2>d DEF SaveRefused
  <2>6. CASE Revalidate(th)
    <3>1. CASE Unique(owner, 0) /\ Goto(th, "restore") /\ UNCHANGED <<owner, rows>>
      <4>1. /\ \A t \in Threads : t # th => thread'[t] = thread[t]
            /\ thread'[th].stage = "restore"
        BY <2>0, <3>1 DEF Goto, Serving
      <4>2. CASE owner = u
        <5>1. R \subseteq {0}
          BY <3>1, <4>2 DEF Unique
        <5>2. R \subseteq RowIds /\ 0 \notin RowIds
          BY DEF RowsOf, RowIds
        <5>3. R = {}
          BY <5>1, <5>2
        <5> QED BY <3>1, <5>3 DEF RowsOf
      <4>3. CASE owner # u
        <5>1. P' \subseteq P
          BY <3>1, <4>1, <4>3 DEF Inserting
        <5> QED BY <3>1, <5>1 DEF RowsOf
      <4> QED BY <4>2, <4>3
    <3> QED BY <2>6, <2>d, <3>1 DEF Revalidate
  <2>7. CASE Restore(th)
    <3>1. /\ Insert(owner, {Facilitator}) /\ Answer(th, {Inventory}) /\ UNCHANGED owner
          /\ thread[th] # Idle /\ thread[th].stage = "restore"
      BY <2>7 DEF Restore, At
    <3>2. P' \subseteq P \ {th}
      BY <2>b, <3>1 DEF Answer
    <3>3. CASE owner = u
      <4>1. th \in P
        BY <3>1, <3>3 DEF Inserting
      <4>2. R' \subseteq R \cup {inserted + 1}
        BY <3>1 DEF Insert, RowsOf, TypeInv, TypeOK
      <4> QED BY <3>2, <4>1, <4>2
    <3>4. CASE owner # u
      <4>1. inserted + 1 \in RowIds
        BY <3>1, ConstantsOK DEF ConstantsOK, Insert, CanInsert, RowIds, TypeInv, TypeOK
      <4>2. R' \subseteq R
        BY <3>1, <3>4, <4>1 DEF Insert, RowsOf, TypeInv, TypeOK
      <4> QED BY <3>2, <4>2
    <3> QED BY <3>3, <3>4
  <2>8. CASE Delete(th)
    <3>1. /\ Answer(th, {}) /\ UNCHANGED owner
          /\ rows' = [rows EXCEPT ![thread[th].row] = NoRow]
      BY <2>8 DEF Delete
    <3>2. P' \subseteq P
      BY <2>b, <3>1 DEF Answer
    <3>3. R' \subseteq R
      BY <1>0, <3>1 DEF RowsOf, TypeInv, TypeOK, NoRow
    <3> QED BY <3>2, <3>3
  <2> QED BY <1>4, <2>1, <2>2, <2>3, <2>4, <2>5, <2>6, <2>7, <2>8 DEF Step
<1>5. CASE UNCHANGED vars
  BY <1>5 DEF vars, RowsOf, Inserting
<1> QED BY <1>1, <1>2, <1>3, <1>4, <1>5 DEF Next

LEMMA RowsFinite == ASSUME NEW u PROVE IsFiniteSet(RowsOf(u))
<1>1. IsFiniteSet(1..MaxRows)
  BY ConstantsOK, FS_Interval DEF ConstantsOK
<1> QED BY <1>1, FS_Subset DEF RowsOf, RowIds

LEMMA InitRowsAndInserts == Init => RowsAndInserts
<1> SUFFICES ASSUME Init, NEW u \in Users
             PROVE  Cardinality(RowsOf(u)) + Cardinality(Inserting(u)) <= Cardinality(Threads)
  BY DEF RowsAndInserts
<1>1. RowsOf(u) = {} /\ Inserting(u) = {}
  BY ConstantsOK DEF ConstantsOK, Init, RowsOf, Inserting, NoRow
<1>2. Cardinality(Threads) \in Nat
  BY ConstantsOK, FS_CardinalityType DEF ConstantsOK
<1> QED BY <1>1, <1>2, FS_EmptySet

LEMMA NextRowsAndInserts == TypeInv /\ RowsAndInserts /\ [Next]_vars => RowsAndInserts'
<1> SUFFICES ASSUME TypeInv, RowsAndInserts, [Next]_vars, NEW u \in Users
             PROVE  Cardinality(RowsOf(u)') + Cardinality(Inserting(u)') <= Cardinality(Threads)
  BY DEF RowsAndInserts
<1>1. Cardinality(RowsOf(u)) + Cardinality(Inserting(u)) <= Cardinality(Threads)
  BY DEF RowsAndInserts
<1>2. /\ Inserting(u) \in SUBSET Threads /\ Inserting(u)' \in SUBSET Threads
  BY DEF Inserting
<1> QED BY <1>1, <1>2, NextShape, RowsFinite, ShapeKeepsBound

\* However the requests of any number of threads overlap, a user never has more
\* rows than there are threads.
THEOREM RowsStayBounded == Spec => []RowsBounded
<1>1. RowsAndInserts => RowsBounded
  <2> SUFFICES ASSUME RowsAndInserts, NEW u \in Users
               PROVE  Cardinality(RowsOf(u)) <= Cardinality(Threads)
    BY DEF RowsBounded
  <2>1. IsFiniteSet(Inserting(u))
    BY ConstantsOK, FS_Subset DEF ConstantsOK, Inserting
  <2>2. /\ Cardinality(RowsOf(u)) \in Nat /\ Cardinality(Inserting(u)) \in Nat
        /\ Cardinality(Threads) \in Nat
    BY <2>1, RowsFinite, ConstantsOK, FS_CardinalityType DEF ConstantsOK
  <2> QED BY <2>2 DEF RowsAndInserts
<1> QED BY <1>1, InitRowsAndInserts, NextRowsAndInserts, TypeInvariant, PTL DEF Spec
---------------------------------------------------------------------------
(* Without overlap the handlers implement ToolMembership.                  *)
(*                                                                         *)
(* Nothing changes the table between the steps of the only request: what   *)
(* it has loaded is what the table holds, until its own write.             *)

\* Nobody but th serves a request.
Only(th) == \A t \in Threads \ {th} : thread[t] = Idle

OneAtATime == ~overlapped => \E th \in Threads : Only(th)

SingleRows ==
    \A i, j \in RowIds : rows[i] # NoRow /\ rows[i].user = rows[j].user => i = j

\* The row a request has loaded, or found missing.
Loaded(req) ==
    IF req.row = 0
    THEN req.kind = "create" /\ req.previous = {} /\ RowsOf(req.user) = {}
    ELSE /\ req.row \in RowIds /\ req.user \in Users
         /\ rows[req.row] = [user |-> req.user, roles |-> req.previous]

\* The row a request has written, and on whose behalf.
Written(req) ==
    /\ req.kind \in {"create", "update"}
    /\ req.kind = "update" => HasRole(req.by, Facilitator)
    /\ req.kind = "create" =>
          /\ req.row \in RowIds /\ rows[req.row] = [user |-> req.user, roles |-> req.roles]
          /\ IF req.by = req.user THEN Facilitator \in req.previous
                                  ELSE HasRole(req.by, Facilitator)

Alone(req) ==
    /\ req.kind # "create" => req.roles = {}
    /\ req.kind = "update" => req.row = 0 /\ req.previous = {}
    /\ req.kind # "update" => ~req.extend
    /\ req.stage \in {"authorize", "validate", "write", "delete"} /\ req.kind # "update" => Loaded(req)
    /\ req.stage \in {"validate", "write", "delete"} => HasRole(req.by, Facilitator)
    /\ req.stage = "delete" => ~Refused(req)
    /\ req.stage \in {"callback", "revalidate", "restore"} => Written(req)
    /\ req.stage \in {"revalidate", "restore"} => Saves(req)
    /\ req.stage = "restore" => RowsOf(owner) = {}

Solo == SingleRows /\ \A th \in Threads : thread[th] # Idle => Alone(thread[th])
\* A step inside the request that leaves the table alone.
LEMMA GotoAlone ==
    ASSUME TypeInv, Solo, NEW th \in Threads, thread[th] # Idle,
           NEW stage \in Stages, Goto(th, stage), UNCHANGED <<owner, expired, rows>>,
           stage \in {"validate", "write", "delete"} =>
               /\ thread[th].stage \in {"authorize", "validate", "write", "delete"}
               /\ thread[th].kind # "update" /\ HasRole(thread[th].by, Facilitator),
           stage = "delete" => ~Refused(thread[th]),
           stage # "authorize",
           stage \in {"callback", "revalidate", "restore"} => Written(thread[th]),
           stage \in {"revalidate", "restore"} => Saves(thread[th]),
           stage = "restore" => RowsOf(owner) = {}
    PROVE  Alone(thread[th])' /\ SingleRows'
<1> DEFINE req == thread[th]
<1>1. req \in Serving /\ Alone(req) /\ SingleRows
  BY DEF TypeInv, TypeOK, Solo
<1>2. thread'[th] = [req EXCEPT !.stage = stage]
  BY DEF Goto, TypeInv, TypeOK
<1> HIDE DEF req
<1>3. PICK n : n = thread'[th]
  OBVIOUS
<1>4. /\ n.stage = stage /\ n.kind = req.kind /\ n.by = req.by /\ n.user = req.user
      /\ n.roles = req.roles /\ n.extend = req.extend /\ n.row = req.row
      /\ n.previous = req.previous
  BY <1>1, <1>2, <1>3 DEF Serving
<1>5. /\ \A u : RowsOf(u)' = RowsOf(u)
      /\ \A u, r : HasRole(u, r)' <=> HasRole(u, r)
  BY DEF RowsOf, HasRole
<1>6. SingleRows'
  BY <1>1 DEF SingleRows
<1>7. Alone(n)'
  <2>1. n.stage = "delete" => ~Refused(n)'
    BY <1>4 DEF Refused, req
  <2>2. n.stage \in {"callback", "revalidate", "restore"} => Written(n)'
    BY <1>4, <1>5 DEF Written, req
  <2>3. n.stage \in {"revalidate", "restore"} => Saves(n)'
    BY <1>4 DEF Saves, req
  <2>4. n.stage = "restore" => RowsOf(owner)' = {}
    BY <1>4 DEF RowsOf
  <2>5. n.stage \in {"validate", "write", "delete"} => HasRole(n.by, Facilitator)'
    BY <1>4, <1>5 DEF req
  <2>6. /\ n.kind # "create" => n.roles = {}
        /\ n.kind = "update" => n.row = 0 /\ n.previous = {}
        /\ n.kind # "update" => ~n.extend
    BY <1>1, <1>4 DEF Alone
  <2>7. n.stage \in {"authorize", "validate", "write", "delete"} /\ n.kind # "update" => Loaded(n)'
    <3> SUFFICES ASSUME n.stage \in {"authorize", "validate", "write", "delete"}, n.kind # "update"
                 PROVE  Loaded(n)'
      OBVIOUS
    <3>1. Loaded(req)
      BY <1>1, <1>4 DEF Alone, req
    <3> QED BY <1>4, <1>5, <3>1 DEF Loaded
  <2> QED BY <2>1, <2>2, <2>3, <2>4, <2>5, <2>6, <2>7 DEF Alone
<1> QED BY <1>3, <1>6, <1>7

\* Rows of users that had none keep the table single.
LEMMA InsertSingle ==
    ASSUME TypeInv, SingleRows, NEW u \in Users, NEW rs \in RoleSets, Insert(u, rs), RowsOf(u) = {}
    PROVE  SingleRows'
<1>1. rows' = [rows EXCEPT ![inserted + 1] = [user |-> u, roles |-> rs]] /\ inserted + 1 \in RowIds
  BY InsertType DEF Insert, TypeInv
<1>2. rows \in [RowIds -> Row \cup {NoRow}]
  BY DEF TypeInv, TypeOK
<1>3. \A i \in RowIds : rows[i].user # u
  BY DEF RowsOf
<1> QED BY <1>1, <1>2, <1>3 DEF SingleRows

LEMMA InitSolo == Init => Solo
BY DEF Init, Solo, SingleRows

LEMMA InitOneAtATime == Init => OneAtATime
<1>1. \E th : th \in Threads
  BY ConstantsOK DEF ConstantsOK
<1> QED BY <1>1 DEF Init, OneAtATime, Only

\* The thread th that acts while no requests have overlapped was and is the only
\* one that may be busy.
Acting(th) ==
    /\ Only(th) /\ Only(th)'
    /\ \A t \in Threads : Arrive(t) \/ Step(t) => t = th

LEMMA StepBusy == ASSUME NEW th, Step(th) PROVE thread[th] # Idle
BY DEF Step, At, Authorize, Validate, Write, Callback, SaveRefused, Revalidate, Restore, Delete

LEMMA StepOthers ==
    ASSUME TypeInv, NEW th \in Threads, Step(th)
    PROVE  \A t \in Threads \ {th} : thread'[t] = thread[t]
<1>0. thread \in [Threads -> Serving \cup {Idle}]
  BY DEF TypeInv, TypeOK
<1> QED
  BY <1>0 DEF Step, Authorize, Validate, Write, Callback, SaveRefused, Revalidate, Restore, Delete,
              Goto, Abandon, Answer

LEMMA SomeoneActs ==
    ASSUME TypeInv, OneAtATime, ~overlapped', [Next]_vars
    PROVE  ~overlapped /\ \E th \in Threads : Acting(th)
<1>0. thread \in [Threads -> Serving \cup {Idle}] /\ \A req \in Serving : req # Idle
  BY IdleIsNotServed DEF TypeInv, TypeOK
<1>1. ASSUME NEW th \in Threads, Arrive(th)
      PROVE  ~overlapped /\ \E x \in Threads : Acting(x)
  <2>1. /\ ~overlapped /\ \A t \in Threads : thread[t] = Idle
        /\ \A t \in Threads \ {th} : thread'[t] = thread[t]
        /\ thread'[th] # Idle
    <3>1. PICK kind, u, v, rs, extend, i : Serve(th, kind, u, v, rs, extend, i)
      BY <1>1 DEF Arrive, ServeCreate, ServeDestroy, ServeUpdate
    <3> DEFINE req == [stage |-> "authorize", kind |-> kind, by |-> u, user |-> v, roles |-> rs,
                       extend |-> extend, row |-> i,
                       previous |-> IF i = 0 THEN {} ELSE rows[i].roles]
    <3>2. /\ thread' = [thread EXCEPT ![th] = req]
          /\ overlapped' = (overlapped \/ \E t \in Threads : thread[t] # Idle)
      BY <3>1 DEF Serve
    <3>3. req # Idle
      BY DEF Idle
    <3> HIDE DEF req
    <3> QED BY <1>0, <1>1, <3>2, <3>3
  <2>2. \A t \in Threads : Step(t) => FALSE
    BY <2>1, StepBusy
  <2>3. ASSUME NEW t \in Threads, Arrive(t) PROVE t = th
    <3>1. \A x \in Threads \ {t} : thread'[x] = thread[x]
      BY <1>0, <2>3 DEF Arrive, ServeCreate, ServeDestroy, ServeUpdate, Serve
    <3> QED BY <2>1, <3>1
  <2> QED BY <2>1, <2>2, <2>3 DEF Acting, Only
<1>2. ASSUME NEW th \in Threads, Step(th)
      PROVE  ~overlapped /\ \E x \in Threads : Acting(x)
  <2>1. ~overlapped /\ thread[th] # Idle /\ \A t \in Threads \ {th} : thread'[t] = thread[t]
    BY <1>2, StepBusy, StepOthers DEF Step
  <2>2. Only(th)
    BY <2>1 DEF OneAtATime, Only
  <2>3. ASSUME NEW t \in Threads, Arrive(t) PROVE FALSE
    BY <2>1, <2>3 DEF Arrive, ServeCreate, ServeDestroy, ServeUpdate, Serve
  <2>4. ASSUME NEW t \in Threads, Step(t) PROVE t = th
    BY <2>2, <2>4, StepBusy DEF Only
  <2> QED BY <2>1, <2>2, <2>3, <2>4 DEF Acting, Only
<1>3. ASSUME thread' = thread, overlapped' = overlapped,
             \A t \in Threads : ~Arrive(t) /\ ~Step(t)
      PROVE  ~overlapped /\ \E x \in Threads : Acting(x)
  BY <1>3 DEF OneAtATime, Acting, Only
<1> QED
  BY <1>1, <1>2, <1>3 DEF Next, PassDeadline, CreateInventory, vars

LEMMA NextSolo ==
    ASSUME NEW th \in Threads, Acting(th), TypeInv, Solo, [Next]_vars
    PROVE  Solo'
<1>0. /\ th \in Threads /\ SingleRows /\ thread \in [Threads -> Serving \cup {Idle}]
      /\ rows \in [RowIds -> Row \cup {NoRow}] /\ NoOne \notin Users
  BY ConstantsOK DEF Solo, TypeInv, TypeOK, ConstantsOK
<1>g. ASSUME SingleRows', thread'[th] = Idle \/ Alone(thread[th])' PROVE Solo'
  BY <1>g DEF Solo, Acting, Only
<1>1. CASE PassDeadline
  <2>1. /\ UNCHANGED <<owner, rows, thread>> /\ thread[th].stage \notin {"revalidate", "restore"}
    BY <1>0, <1>1 DEF PassDeadline
  <2>2. SingleRows'
    BY <1>0, <2>1 DEF SingleRows
  <2>3. thread[th] = Idle \/ Alone(thread[th])
    BY <1>0 DEF Solo
  <2>4. Alone(thread[th]) => Alone(thread[th])'
    BY <2>1 DEF Alone, Loaded, Written, HasRole, RowsOf, Refused
  <2> QED BY <1>g, <2>1, <2>2, <2>3, <2>4
<1>2. ASSUME NEW u \in Users, CreateInventory(u) PROVE Solo'
  <2>1. /\ owner = NoOne /\ Insert(u, {Facilitator}) /\ thread' = thread
        /\ {Facilitator} \in RoleSets
    BY <1>2 DEF CreateInventory, RoleSets
  <2>2. thread'[th] = Idle /\ \A i \in RowIds : rows[i] = NoRow
    BY <1>0, <2>1 DEF TypeInv, Sane
  <2>3. RowsOf(u) = {}
    BY <1>0, <2>2 DEF RowsOf, NoRow
  <2> QED BY <1>0, <1>g, <2>1, <2>2, <2>3, InsertSingle
<1>3. CASE Arrive(th)
  <2>1. /\ UNCHANGED <<owner, expired, rows>> /\ thread' = [thread EXCEPT ![th] = thread'[th]]
    BY <1>0, <1>3 DEF Arrive, ServeCreate, ServeDestroy, ServeUpdate, Serve
  <2>2. SingleRows'
    BY <1>0, <2>1 DEF SingleRows
  <2>3. PICK u \in Users :
           \/ \E v \in Users, rs \in Posted \cup {{}} : ServeCreate(th, u, v, rs)
           \/ \E i \in RowIds : ServeDestroy(th, u, i)
           \/ \E extend \in BOOLEAN : ServeUpdate(th, u, extend)
    BY <1>3 DEF Arrive
  <2>a. ASSUME NEW n, thread'[th] = n, n.stage = "authorize",
               n.kind # "create" => n.roles = {},
               n.kind = "update" => n.row = 0 /\ n.previous = {},
               n.kind # "update" => ~n.extend /\ Loaded(n)
        PROVE  Alone(thread[th])'
    <3>1. Loaded(n) => Loaded(n)'
      BY <2>1 DEF Loaded, RowsOf
    <3>2. Alone(n)'
      BY <2>a, <3>1 DEF Alone
    <3> QED BY <2>a, <3>2
  <2>4. ASSUME NEW v \in Users, NEW rs \in Posted \cup {{}}, ServeCreate(th, u, v, rs)
        PROVE  Alone(thread[th])'
    <3>1. CASE RowsOf(v) = {} /\ Serve(th, "create", u, v, rs, FALSE, 0)
      <4> DEFINE n == [stage |-> "authorize", kind |-> "create", by |-> u, user |-> v, roles |-> rs,
                       extend |-> FALSE, row |-> 0, previous |-> {}]
      <4>1. thread'[th] = n
        BY <1>0, <3>1 DEF Serve
      <4>2. Loaded(n)
        BY <3>1 DEF Loaded
      <4>3. n.stage = "authorize" /\ n.kind = "create" /\ n.extend = FALSE
        OBVIOUS
      <4> HIDE DEF n
      <4> QED BY <2>a, <4>1, <4>2, <4>3
    <3>2. ASSUME NEW i \in RowsOf(v), Serve(th, "create", u, v, rs, FALSE, i)
          PROVE  Alone(thread[th])'
      <4> DEFINE n == [stage |-> "authorize", kind |-> "create", by |-> u, user |-> v, roles |-> rs,
                       extend |-> FALSE, row |-> i, previous |-> rows[i].roles]
      <4>1. i \in RowIds /\ i # 0 /\ rows[i].user = v
        BY DEF RowsOf, RowIds
      <4>2. thread'[th] = n
        BY <1>0, <3>2, <4>1 DEF Serve
      <4>3. rows[i] = [user |-> v, roles |-> rows[i].roles]
        BY <1>0, <4>1 DEF Row, NoRow
      <4>4. Loaded(n)
        BY <4>1, <4>3 DEF Loaded
      <4>5. n.stage = "authorize" /\ n.kind = "create" /\ n.extend = FALSE
        OBVIOUS
      <4> HIDE DEF n
      <4> QED BY <2>a, <4>2, <4>4, <4>5
    <3> QED BY <2>4, <3>1, <3>2 DEF ServeCreate
  <2>5. ASSUME NEW i \in RowIds, ServeDestroy(th, u, i) PROVE Alone(thread[th])'
    <3> DEFINE n == [stage |-> "authorize", kind |-> "destroy", by |-> u, user |-> rows[i].user,
                     roles |-> {}, extend |-> FALSE, row |-> i, previous |-> rows[i].roles]
    <3>1. rows[i] = [user |-> rows[i].user, roles |-> rows[i].roles] /\ rows[i].user \in Users /\ i # 0
      BY <1>0, <2>5 DEF ServeDestroy, Row, RowIds
    <3>2. thread'[th] = n
      BY <1>0, <2>5, <3>1 DEF ServeDestroy, Serve
    <3>3. Loaded(n)
      BY <3>1 DEF Loaded
    <3>4. n.stage = "authorize" /\ n.kind = "destroy" /\ n.roles = {} /\ n.extend = FALSE
      OBVIOUS
    <3> HIDE DEF n
    <3> QED BY <2>a, <3>2, <3>3, <3>4
  <2>6. ASSUME NEW extend \in BOOLEAN, ServeUpdate(th, u, extend) PROVE Alone(thread[th])'
    <3> DEFINE n == [stage |-> "authorize", kind |-> "update", by |-> u, user |-> NoOne,
                     roles |-> {}, extend |-> extend, row |-> 0, previous |-> {}]
    <3>1. thread'[th] = n
      BY <1>0, <2>6 DEF ServeUpdate, Serve
    <3> QED BY <2>a, <3>1
  <2> QED BY <1>g, <2>2, <2>3, <2>4, <2>5, <2>6
<1>4. CASE Step(th)
  <2> DEFINE req == thread[th]
  <2>0. req # Idle /\ req \in Serving /\ Alone(req) /\ Sound(req) /\ owner # NoOne
    BY <1>0, <1>4 DEF Step, At, Authorize, Validate, Write, Callback, SaveRefused, Revalidate, Restore,
                Delete, Solo, TypeInv, Sane
  <2>k. req.kind \in {"create", "destroy", "update"} /\ req.by \in Users /\ req.stage \in Stages
        /\ owner \in Users
    BY <2>0 DEF Serving, TypeInv, TypeOK
  <2>a. ASSUME Abandon(th) PROVE Solo'
    <3>1. thread'[th] = Idle /\ rows' = rows
      BY <1>0, <2>a DEF Abandon
    <3> QED BY <1>0, <1>g, <3>1 DEF SingleRows
  <2>b. ASSUME NEW saved, Answer(th, saved) PROVE thread'[th] = Idle
    BY <1>0, <2>b DEF Answer
  <2>c. ASSUME NEW saved, Answer(th, saved), rows' = rows PROVE Solo'
    BY <1>0, <1>g, <2>b, <2>c DEF SingleRows
  <2> HIDE DEF req
  <2>1. CASE Authorize(th)
    <3>1. CASE HasRole(req.by, Facilitator) /\ ~Refused(req)
      <4>1. /\ Goto(th, FirstStage[req.kind]) /\ UNCHANGED <<owner, expired, rows>>
            /\ req.stage = "authorize"
        BY <2>1, <3>1 DEF Authorize, At, req
      <4>2. CASE req.kind = "create"
        BY <1>0, <1>g, <2>0, <3>1, <4>1, <4>2, GotoAlone DEF FirstStage, Stages, req
      <4>3. CASE req.kind = "destroy"
        BY <1>0, <1>g, <2>0, <3>1, <4>1, <4>3, GotoAlone DEF FirstStage, Stages, req
      <4>4. CASE req.kind = "update"
        <5>1. Written(req)
          BY <3>1, <4>4 DEF Written
        <5> QED BY <1>0, <1>g, <2>0, <4>1, <4>4, <5>1, GotoAlone DEF FirstStage, Stages, req
      <4> QED BY <2>k, <4>2, <4>3, <4>4
    <3>2. CASE ~(HasRole(req.by, Facilitator) /\ ~Refused(req))
      BY <2>1, <2>a, <3>2 DEF Authorize, req
    <3> QED BY <3>1, <3>2
  <2>2. CASE Validate(th)
    <3>1. CASE Goto(th, "write") /\ UNCHANGED <<owner, expired, rows>>
      <4>1. req.stage = "validate" /\ req.kind # "update" /\ HasRole(req.by, Facilitator)
        BY <2>0, <2>2 DEF Validate, At, Sound, Alone, req
      <4> QED BY <1>0, <1>g, <2>0, <3>1, <4>1, GotoAlone DEF Stages, req
    <3>2. CASE Abandon(th)
      BY <2>a, <3>2
    <3> QED BY <2>2, <3>1, <3>2 DEF Validate
  <2>3. CASE Write(th)
    <3>0. /\ req.stage = "write" /\ req.kind = "create" /\ req.user \in Users /\ req.roles \in RoleSets
          /\ HasRole(req.by, Facilitator) /\ Loaded(req) /\ UNCHANGED <<owner, expired>> /\ ~req.extend
      BY <2>0, <2>3, ConstantsOK DEF Write, At, Sound, Alone, Serving, ConstantsOK, req
    <3>b. PICK by : by = req.by
      OBVIOUS
    <3>1. CASE req.row = 0
      <4>1. /\ Insert(req.user, req.roles) /\ RowsOf(req.user) = {} /\ req.previous = {}
            /\ thread'[th] = [req EXCEPT !.stage = "callback", !.row = inserted + 1]
        BY <1>0, <2>3, <3>0, <3>1 DEF Write, Loaded, req
      <4>2. SingleRows'
        BY <1>0, <3>0, <4>1, InsertSingle
      <4>3. /\ inserted + 1 \in RowIds /\ rows[inserted + 1] = NoRow
            /\ rows' = [rows EXCEPT ![inserted + 1] = [user |-> req.user, roles |-> req.roles]]
        <5>1. inserted + 1 \in RowIds
          BY <3>0, <4>1, InsertType DEF TypeInv
        <5> QED BY <4>1, <5>1 DEF Insert, TypeInv, TypeOK, RowIds
      <4>4. PICK n : n = thread'[th]
        OBVIOUS
      <4>5. /\ n.stage = "callback" /\ n.kind = req.kind /\ n.by = req.by /\ n.user = req.user
            /\ n.roles = req.roles /\ n.extend = req.extend /\ n.row = inserted + 1
            /\ n.previous = req.previous
        BY <2>0, <4>1, <4>4 DEF Serving
      <4>6. n.by # n.user /\ HasRole(n.by, Facilitator)'
        <5>1. PICK i \in RowsOf(req.by) : Facilitator \in rows[i].roles
          BY <3>0 DEF HasRole
        <5>2. i \in RowIds /\ rows[i].user = req.by /\ i # inserted + 1
          BY <2>k, <1>0, <4>3, <5>1 DEF RowsOf, NoRow
        <5>3. rows'[i] = rows[i]
          BY <1>0, <4>3, <5>2
        <5>4. i \in RowsOf(by)' /\ Facilitator \in rows'[i].roles
          BY <3>b, <5>1, <5>2, <5>3 DEF RowsOf
        <5>5. req.by # req.user
          BY <4>1, <5>1
        <5> QED BY <3>b, <4>5, <5>4, <5>5 DEF HasRole
      <4>7. Written(n)'
        BY <1>0, <3>0, <4>3, <4>5, <4>6 DEF Written
      <4>8. Alone(n)'
        BY <3>0, <4>5, <4>7 DEF Alone
      <4> QED BY <1>g, <4>2, <4>4, <4>8
    <3>2. CASE req.row # 0
      <4>1. /\ Goto(th, "callback")
            /\ rows' = IF rows[req.row] = NoRow THEN rows
                       ELSE [rows EXCEPT ![req.row].roles = req.roles]
        BY <2>3, <3>2 DEF Write, req
      <4>2. req.row \in RowIds /\ rows[req.row] = [user |-> req.user, roles |-> req.previous]
        BY <3>0, <3>2 DEF Loaded
      <4>3. rows[req.row] # NoRow
        BY <1>0, <3>0, <4>2 DEF NoRow
      <4>4. /\ rows'[req.row] = [user |-> req.user, roles |-> req.roles]
            /\ \A i \in RowIds : i # req.row => rows'[i] = rows[i]
        BY <1>0, <4>1, <4>2, <4>3
      <4>5. SingleRows'
        BY <1>0, <4>2, <4>3, <4>4 DEF SingleRows
      <4>6. PICK n : n = thread'[th]
        OBVIOUS
      <4>7. /\ n.stage = "callback" /\ n.kind = req.kind /\ n.by = req.by /\ n.user = req.user
            /\ n.roles = req.roles /\ n.extend = req.extend /\ n.row = req.row
            /\ n.previous = req.previous
        BY <1>0, <2>0, <4>1, <4>6 DEF Serving, Goto, req
      <4>8. IF n.by = n.user THEN Facilitator \in n.previous ELSE HasRole(n.by, Facilitator)'
        <5>1. PICK i \in RowsOf(req.by) : Facilitator \in rows[i].roles
          BY <3>0 DEF HasRole
        <5>2. i \in RowIds /\ rows[i].user = req.by
          BY <5>1 DEF RowsOf
        <5>3. CASE req.by = req.user
          <6>1. i = req.row
            BY <1>0, <4>2, <4>3, <5>2, <5>3 DEF SingleRows
          <6> QED BY <4>2, <4>7, <5>1, <5>3, <6>1
        <5>4. CASE req.by # req.user
          <6>1. i # req.row
            BY <4>2, <5>2, <5>4
          <6>2. rows'[i] = rows[i]
            BY <4>4, <5>2, <6>1
          <6>3. i \in RowsOf(by)' /\ Facilitator \in rows'[i].roles
            BY <3>b, <5>1, <5>2, <6>2 DEF RowsOf
          <6> QED BY <3>b, <4>7, <5>4, <6>3 DEF HasRole
        <5> QED BY <5>3, <5>4
      <4>9. Written(n)'
        BY <3>0, <4>2, <4>4, <4>7, <4>8 DEF Written
      <4>10. Alone(n)'
        BY <3>0, <4>7, <4>9 DEF Alone
      <4> QED BY <1>g, <4>5, <4>6, <4>10
    <3> QED BY <3>1, <3>2
  <2>4. CASE Callback(th)
    <3>1. /\ req.stage = "callback" /\ Saves(req) /\ Written(req)
      BY <2>0, <2>4 DEF Callback, At, Alone, req
    <3>2. CASE Goto(th, "revalidate") /\ UNCHANGED <<owner, expired, rows>>
      BY <1>0, <1>g, <2>0, <3>1, <3>2, GotoAlone DEF Stages, req
    <3> QED BY <2>4, <2>c, <3>2 DEF Callback
  <2>5. CASE SaveRefused(th)
    BY <2>5, <2>a, <2>c DEF SaveRefused
  <2>6. CASE Revalidate(th)
    <3>1. /\ req.stage = "revalidate" /\ Saves(req) /\ Written(req)
      BY <2>0, <2>6 DEF Revalidate, At, Alone, req
    <3>2. CASE Unique(owner, 0) /\ Goto(th, "restore") /\ UNCHANGED <<owner, expired, rows>>
      <4>1. RowsOf(owner) \subseteq {0} /\ RowsOf(owner) \subseteq RowIds /\ 0 \notin RowIds
        BY <3>2 DEF Unique, RowsOf, RowIds
      <4>2. RowsOf(owner) = {}
        BY <4>1
      <4> QED BY <1>0, <1>g, <2>0, <3>1, <3>2, <4>2, GotoAlone DEF Stages, req
    <3> QED BY <2>6, <2>c, <3>2 DEF Revalidate
  <2>7. CASE Restore(th)
    <3>1. /\ Insert(owner, {Facilitator}) /\ Answer(th, {Inventory}) /\ RowsOf(owner) = {}
          /\ {Facilitator} \in RoleSets
      BY <2>0, <2>7 DEF Restore, At, Alone, RoleSets, req
    <3>2. SingleRows'
      BY <1>0, <2>k, <3>1, InsertSingle
    <3> QED BY <1>g, <2>b, <3>1, <3>2
  <2>8. CASE Delete(th)
    <3>1. /\ Answer(th, {}) /\ rows' = [rows EXCEPT ![req.row] = NoRow]
      BY <2>8 DEF Delete, req
    <3>2. SingleRows'
      BY <1>0, <3>1 DEF SingleRows, Row, NoRow
    <3> QED BY <1>g, <2>b, <3>1, <3>2
  <2> QED BY <1>4, <2>1, <2>2, <2>3, <2>4, <2>5, <2>6, <2>7, <2>8 DEF Step
<1>5. CASE UNCHANGED vars
  <2>1. Solo'
    BY <1>5 DEF vars, Solo, SingleRows, Alone, Loaded, Written, HasRole, RowsOf, Refused, Saves
  <2> QED BY <2>1
<1> QED BY <1>1, <1>2, <1>3, <1>4, <1>5 DEF Next, Acting
---------------------------------------------------------------------------
(* The actions of ToolMembership, as the mapping shows them                *)

\* The members of the inventory, and a table of it alone.
Held   == RolesIn(Settled)
Of(f)  == [t \in {Inventory} |-> f]
Rights == [Users -> SUBSET {Facilitator, Participant}]

\* What the save of the inventory makes of its members.
Ensured(f, o) == IF f[o] = {} THEN [f EXCEPT ![o] = {Facilitator}] ELSE f

LEMMA AtomicTools == Atomic!Tools = {Inventory} /\ Atomic!Facilitator = Facilitator
BY DEF Atomic!Tools, Atomic!Facilitator, Facilitator

LEMMA AtomicSetRow ==
    ASSUME NEW f \in Rights, NEW v \in Users, NEW rs
    PROVE  Atomic!SetRow(Of(f), Inventory, v, rs) = Of([f EXCEPT ![v] = rs])
BY DEF Atomic!SetRow, Of

LEMMA AtomicAfterSave ==
    ASSUME NEW f \in Rights, NEW o \in Users
    PROVE  Atomic!AfterSave(Of(f), Inventory, o) = Of(Ensured(f, o))
<1>1. Of(f)[Inventory] = f
  BY DEF Of
<1>2. CASE f[o] = {}
  BY <1>1, <1>2, AtomicTools
     DEF Atomic!AfterSave, Atomic!AddOwnerAsFacilitator, Atomic!AddRow, Of, Ensured
<1>3. CASE f[o] # {}
  BY <1>1, <1>3 DEF Atomic!AfterSave, Atomic!AddOwnerAsFacilitator, Atomic!AddRow, Ensured
<1> QED BY <1>2, <1>3

LEMMA AtomicStutter ==
    ASSUME UNCHANGED <<owner, expired, reply>>, Held' = Held
    PROVE  UNCHANGED Atomic!vars
BY DEF Atomic!vars, Held

LEMMA AtomicPassDeadline ==
    ASSUME owner # NoOne, ~expired, expired' = TRUE, owner' = owner, Held' = Held,
           Respond(NoOne, {}, {})
    PROVE  Atomic!Next
<1>1. Atomic!PassDeadline
  BY DEF Atomic!PassDeadline, Atomic!Exists, Atomic!Respond, Respond, Held
<1> QED BY <1>1 DEF Atomic!Next

LEMMA AtomicCreateInventory ==
    ASSUME NEW u \in Users, owner = NoOne, owner' = u, Held \in Rights, Held' = Ensured(Held, u),
           expired' = expired, Respond(u, {}, {Inventory})
    PROVE  Atomic!Next
<1>1. Atomic!AfterSave(Of(Held), Inventory, u) = Of(Held')
  BY AtomicAfterSave
<1>2. Atomic!CreateInventory(u)
  BY <1>1 DEF Atomic!CreateInventory, Atomic!Exists, Atomic!Respond, Respond, Held, Of
<1> QED BY <1>2 DEF Atomic!Next, Atomic!ToolStep

LEMMA AtomicUpdateTool ==
    ASSUME NEW u \in Users, NEW extend \in BOOLEAN, owner \in Users, Held \in Rights,
           Facilitator \in Held[u], ~expired \/ extend,
           owner' = owner, expired' = IF extend THEN FALSE ELSE expired,
           Held' = Ensured(Held, owner), Respond(u, {}, {Inventory})
    PROVE  Atomic!Next
<1>1. Atomic!AfterSave(Of(Held), Inventory, owner) = Of(Held')
  BY AtomicAfterSave
<1>2. owner # NoOne
  BY ConstantsOK DEF ConstantsOK
<1>3. Atomic!UpdateTool(u, Inventory, extend)
  BY <1>1, <1>2, AtomicTools
     DEF Atomic!UpdateTool, Atomic!IsFacilitator, Atomic!Exists, Atomic!Saves, Atomic!Respond,
         Respond, Held, Of
<1> QED BY <1>3, AtomicTools DEF Atomic!Next, Atomic!ToolStep

LEMMA AtomicDestroyMember ==
    ASSUME NEW u \in Users, NEW v \in Users, owner \in Users, Held \in Rights,
           Facilitator \in Held[u], Held[v] # {},
           ~(Facilitator \in Held[v] /\ v \in {owner, u}),
           UNCHANGED <<owner, expired>>, Held' = [Held EXCEPT ![v] = {}], Respond(u, {}, {})
    PROVE  Atomic!Next
<1>1. Atomic!SetRow(Of(Held), Inventory, v, {}) = Of(Held')
  BY AtomicSetRow
<1>2. owner # NoOne
  BY ConstantsOK DEF ConstantsOK
<1>3. Atomic!DestroyMember(u, Inventory, v)
  BY <1>1, <1>2, AtomicTools
     DEF Atomic!DestroyMember, Atomic!IsFacilitator, Atomic!Exists, Atomic!Respond, Respond, Held, Of
<1> QED BY <1>3, AtomicTools DEF Atomic!Next, Atomic!MemberStep

LEMMA AtomicCreateMember ==
    ASSUME NEW u \in Users, NEW v \in Users, NEW rs \in Posted, owner \in Users,
           Held \in Rights, Facilitator \in Held[u], UNCHANGED <<owner, expired>>,
           NEW saved, saved = IF expired THEN {} ELSE {Inventory},
           Held' = IF expired THEN [Held EXCEPT ![v] = rs]
                   ELSE Ensured([Held EXCEPT ![v] = rs], owner),
           Respond(u, IF rs \subseteq Held[v] THEN {} ELSE {Granted(v)}, saved)
    PROVE  Atomic!Next
<1>1. PICK list \in RoleLists : Atomic!RolesValid(list, FALSE) /\ Atomic!Range(list) = rs
  BY EverySetPosted DEF EverySetPosted
<1>2. \A isNew \in BOOLEAN : Atomic!RolesValid(list, isNew)
  BY <1>1 DEF Atomic!RolesValid
<1>3. owner # NoOne
  BY ConstantsOK DEF ConstantsOK
<1>4. Atomic!SetRow(Of(Held), Inventory, v, rs) = Of([Held EXCEPT ![v] = rs])
  BY AtomicSetRow
<1>5. [Held EXCEPT ![v] = rs] \in Rights
  BY ConstantsOK DEF ConstantsOK, Rights, RoleSets
<1>6. Atomic!SaveTool(Atomic!SetRow(Of(Held), Inventory, v, rs), Inventory) = Of(Held')
  <2>1. CASE expired
    BY <1>4, <2>1 DEF Atomic!SaveTool, Atomic!Saves
  <2>2. CASE ~expired
    <3>1. Of(Held') = Atomic!AfterSave(Of([Held EXCEPT ![v] = rs]), Inventory, owner)
      BY <1>5, <2>2, AtomicAfterSave
    <3> QED BY <1>4, <2>2, <3>1 DEF Atomic!SaveTool, Atomic!Saves
  <2> QED BY <2>1, <2>2
<1>7. saved = Atomic!SavedTools(Inventory)
  BY DEF Atomic!SavedTools, Atomic!Saves
<1>8. Atomic!PutMember(u, Inventory, v, rs)
  BY <1>6, <1>7 DEF Atomic!PutMember, Atomic!Respond, Atomic!Granted, Respond, Granted, Held, Of
<1>9. Atomic!IsFacilitator(Inventory, u)
  BY <1>3, AtomicTools DEF Atomic!IsFacilitator, Atomic!Exists, Held
<1>10. Atomic!CreateMember(u, Inventory, v, list)
  BY <1>1, <1>2, <1>8, <1>9 DEF Atomic!CreateMember
<1> QED BY <1>10, AtomicTools DEF Atomic!Next, Atomic!MemberStep
---------------------------------------------------------------------------
(* The members that a table of rows holds                                  *)

\* The table before a request wrote its row.
Before(table, req) ==
    IF req.stage \in {"callback", "revalidate", "restore"} /\ req.row # 0
    THEN [table EXCEPT ![req.row] = IF req.previous = {} THEN NoRow
                                    ELSE [user |-> req.user, roles |-> req.previous]]
    ELSE table

LEMMA SettledBefore ==
    ASSUME NEW th \in Threads, Only(th)
    PROVE  Settled = Before(rows, thread[th])
<1> DEFINE W == {x \in Threads : thread[x].stage \in {"callback", "revalidate", "restore"}
                                 /\ thread[x].row # 0}
<1>1. ASSUME NEW x \in W PROVE x = th
  BY DEF Only, Idle
<1>2. W # {} <=> thread[th].stage \in {"callback", "revalidate", "restore"} /\ thread[th].row # 0
  BY <1>1
<1>3. CASE W = {}
  BY <1>2, <1>3 DEF Settled, Before
<1>4. CASE W # {}
  <2>1. W = {th}
    BY <1>1, <1>4
  <2>2. (CHOOSE x \in W : TRUE) = th
    BY <2>1
  <2> QED BY <1>2, <1>4, <2>2 DEF Settled, Before
<1> QED BY <1>3, <1>4

LEMMA SettledAfter ==
    ASSUME NEW th \in Threads, Only(th)'
    PROVE  Settled' = Before(rows', thread'[th])
<1> DEFINE W == {x \in Threads : thread'[x].stage \in {"callback", "revalidate", "restore"}
                                 /\ thread'[x].row # 0}
<1>1. ASSUME NEW x \in W PROVE x = th
  BY DEF Only, Idle
<1>2. W # {} <=> thread'[th].stage \in {"callback", "revalidate", "restore"} /\ thread'[th].row # 0
  BY <1>1
<1>3. CASE W = {}
  BY <1>2, <1>3 DEF Settled, Before
<1>4. CASE W # {}
  <2>1. W = {th}
    BY <1>1, <1>4
  <2>2. (CHOOSE x \in W : TRUE) = th
    BY <2>1
  <2> QED BY <1>2, <1>4, <2>2 DEF Settled, Before
<1> QED BY <1>3, <1>4

Tables == [RowIds -> Row \cup {NoRow}]
OneRowEach(table) ==
    \A i, j \in RowIds : table[i] # NoRow /\ table[i].user = table[j].user => i = j

LEMMA RolesInRights == ASSUME NEW table \in Tables PROVE RolesIn(table) \in Rights
BY DEF RolesIn, Rights, Tables, Row, NoRow, RoleSets

LEMMA RolesInNone ==
    ASSUME NEW table, NEW u \in Users, \A j \in RowIds : table[j].user # u
    PROVE  RolesIn(table)[u] = {}
BY DEF RolesIn

LEMMA RolesInRow ==
    ASSUME NEW table \in Tables, OneRowEach(table), NEW i \in RowIds, table[i].user \in Users
    PROVE  RolesIn(table)[table[i].user] = table[i].roles
<1> DEFINE u == table[i].user
<1>1. table[i] # NoRow
  BY ConstantsOK DEF ConstantsOK, NoRow
<1>2. {j \in RowIds : table[j].user = u} = {i}
  BY <1>1 DEF OneRowEach
<1>3. RolesIn(table)[u] = UNION {table[j].roles : j \in {j \in RowIds : table[j].user = u}}
  BY DEF RolesIn
<1>4. {table[j].roles : j \in {j \in RowIds : table[j].user = u}} = {table[i].roles}
  BY <1>2
<1> QED BY <1>3, <1>4

\* Changing the row of one user changes the roles of that user alone.
LEMMA RolesInOthers ==
    ASSUME NEW s, NEW t, NEW i \in RowIds, \A j \in RowIds : j # i => t[j] = s[j],
           NEW u \in Users, s[i].user # u, t[i].user # u
    PROVE  RolesIn(t)[u] = RolesIn(s)[u]
<1>1. \A j \in RowIds : t[j].user = u <=> s[j].user = u
  OBVIOUS
<1>2. {j \in RowIds : t[j].user = u} = {j \in RowIds : s[j].user = u}
  BY <1>1
<1>3. \A j \in {j \in RowIds : s[j].user = u} : t[j].roles = s[j].roles
  OBVIOUS
<1>4. {t[j].roles : j \in {j \in RowIds : t[j].user = u}} = {s[j].roles : j \in {j \in RowIds : s[j].user = u}}
  BY <1>2, <1>3
<1> QED BY <1>4 DEF RolesIn

\* A row of v is put in the place of another row of v, or of none.
LEMMA RolesInPut ==
    ASSUME NEW s \in Tables, NEW t \in Tables, OneRowEach(s), OneRowEach(t),
           NEW i \in RowIds, \A j \in RowIds : j # i => t[j] = s[j],
           NEW v \in Users, NEW rs, t[i] = [user |-> v, roles |-> rs],
           s[i] = NoRow \/ s[i].user = v
    PROVE  RolesIn(t) = [RolesIn(s) EXCEPT ![v] = rs]
<1>1. t[i].user = v /\ t[i].roles = rs
  OBVIOUS
<1>2. RolesIn(t)[v] = rs
  BY <1>1, RolesInRow
<1>3. \A u \in Users \ {v} : s[i].user # u /\ t[i].user # u
  BY <1>1, ConstantsOK DEF ConstantsOK, NoRow
<1>4. \A u \in Users \ {v} : RolesIn(t)[u] = RolesIn(s)[u]
  BY <1>3, RolesInOthers
<1> QED BY <1>2, <1>4 DEF RolesIn

\* The row of v is taken away.
LEMMA RolesInDrop ==
    ASSUME NEW s \in Tables, NEW t \in Tables, OneRowEach(s),
           NEW i \in RowIds, \A j \in RowIds : j # i => t[j] = s[j],
           NEW v \in Users, s[i].user = v, t[i] = NoRow
    PROVE  RolesIn(t) = [RolesIn(s) EXCEPT ![v] = {}]
<1>0. NoRow.user = NoOne /\ s[i] # NoRow
  BY ConstantsOK DEF ConstantsOK, NoRow
<1>1. \A j \in RowIds : t[j].user # v
  BY <1>0, ConstantsOK DEF ConstantsOK, OneRowEach
<1>2. RolesIn(t)[v] = {}
  BY <1>1, RolesInNone
<1>3. \A u \in Users \ {v} : s[i].user # u /\ t[i].user # u
  BY <1>0, ConstantsOK DEF ConstantsOK
<1>4. ASSUME NEW u \in Users \ {v} PROVE RolesIn(t)[u] = RolesIn(s)[u]
  <2>1. s[i].user # u /\ t[i].user # u
    BY <1>3
  <2> QED BY <2>1, RolesInOthers, Zenon
<1> QED BY <1>2, <1>4 DEF RolesIn

\* A user has a role in the table when one of the rows has it.
LEMMA HasRoleHeld ==
    ASSUME NEW u \in Users, NEW r
    PROVE  HasRole(u, r) <=> r \in RolesIn(rows)[u]
BY DEF HasRole, RowsOf, RolesIn

LEMMA HoldsNothing ==
    ASSUME TypeInv, NEW u \in Users
    PROVE  RolesIn(rows)[u] = {} <=> RowsOf(u) = {}
<1>1. RowsOf(u) = {} => RolesIn(rows)[u] = {}
  BY RolesInNone DEF RowsOf
<1>2. ASSUME RowsOf(u) # {} PROVE RolesIn(rows)[u] # {}
  <2>1. PICK i \in RowIds : rows[i].user = u
    BY <1>2 DEF RowsOf
  <2>2. rows[i] \in Row
    BY <2>1, ConstantsOK DEF ConstantsOK, NoRow, TypeInv, TypeOK
  <2>3. rows[i].roles # {} /\ rows[i].roles \subseteq RolesIn(rows)[u]
    BY <2>1, <2>2 DEF Row, RoleSets, RolesIn
  <2> QED BY <2>3
<1> QED BY <1>1, <1>2
---------------------------------------------------------------------------
(* Every step is a step of ToolMembership, or none                         *)

Late == {"callback", "revalidate", "restore"}

\* A created or changed row is what separates the table from the members held.
LEMMA WrittenHeld ==
    ASSUME NEW th \in Threads, Only(th), TypeInv, Solo, thread[th] # Idle,
           thread[th].stage \in Late, thread[th].kind = "create"
    PROVE  /\ Held \in Rights /\ thread[th].user \in Users /\ thread[th].roles \in Posted
           /\ RolesIn(rows) = [Held EXCEPT ![thread[th].user] = thread[th].roles]
           /\ Held[thread[th].user] = thread[th].previous
           /\ Facilitator \in Held[thread[th].by]
<1> DEFINE req == thread[th]
           i   == req.row
           s   == Before(rows, req)
<1>1. /\ req \in Serving /\ Written(req) /\ rows \in Tables /\ OneRowEach(rows)
      /\ NoOne \notin Users /\ req.user \in Users
  BY ConstantsOK DEF TypeInv, TypeOK, Solo, SingleRows, OneRowEach, Tables, ConstantsOK, Alone, Late,
                     Sane, Sound
<1>2. /\ i \in RowIds /\ i # 0 /\ rows[i] = [user |-> req.user, roles |-> req.roles]
      /\ IF req.by = req.user THEN Facilitator \in req.previous ELSE HasRole(req.by, Facilitator)
      /\ req.by \in Users /\ req.previous \in RoleSets \cup {{}}
  BY <1>1 DEF Written, RowIds, Serving
<1>3. s = [rows EXCEPT ![i] = IF req.previous = {} THEN NoRow
                              ELSE [user |-> req.user, roles |-> req.previous]]
  BY <1>2 DEF Before, Late
<1>4. Held = RolesIn(s)
  BY SettledBefore DEF Held
<1> HIDE DEF req, i, s
<1>5. /\ s \in Tables /\ \A j \in RowIds : j # i => rows[j] = s[j]
      /\ s[i] = IF req.previous = {} THEN NoRow ELSE [user |-> req.user, roles |-> req.previous]
  BY <1>1, <1>2, <1>3 DEF Tables, Row
<1>6. rows[i].user = req.user /\ rows[i] # NoRow /\ NoRow.user = NoOne
  BY <1>1, <1>2 DEF NoRow
<1>7. OneRowEach(s)
  <2> SUFFICES ASSUME NEW j \in RowIds, NEW k \in RowIds, s[j] # NoRow, s[j].user = s[k].user
               PROVE  j = k
    BY DEF OneRowEach
  <2>1. CASE req.previous = {}
    <3>1. s[i] = NoRow /\ j # i
      BY <1>5, <2>1
    <3>2. s[j] = rows[j] /\ rows[j] \in Row
      BY <1>1, <1>5, <3>1 DEF Tables
    <3>3. k # i
      BY <1>1, <1>6, <3>1, <3>2 DEF Row
    <3>4. s[k] = rows[k]
      BY <1>5, <3>3
    <3> QED BY <1>1, <3>2, <3>4 DEF OneRowEach
  <2>2. CASE req.previous # {}
    <3>1. s[i].user = req.user /\ \A n \in RowIds : s[n].user = rows[n].user
      BY <1>5, <1>6, <2>2
    <3>2. rows[j] # NoRow
      BY <1>5, <1>6, <3>1
    <3> QED BY <1>1, <3>1, <3>2 DEF OneRowEach
  <2> QED BY <2>1, <2>2
<1>8. rows[i] \in Row
  BY <1>1, <1>2, <1>6 DEF Tables
<1>9. req.roles \in Posted
  <2>1. req.roles \in Posted \cup {{}} /\ req.roles \in RoleSets
    BY <1>1, <1>2, <1>8 DEF Row, Serving
  <2> QED BY <2>1 DEF RoleSets
<1>10. RolesIn(rows) = [RolesIn(s) EXCEPT ![req.user] = req.roles]
  <2>1. s[i] = NoRow \/ s[i].user = req.user
    BY <1>5
  <2> QED BY <1>1, <1>2, <1>5, <1>7, <2>1, RolesInPut
<1>11. RolesIn(s)[req.user] = req.previous
  <2>1. CASE req.previous = {}
    <3>1. \A j \in RowIds : s[j].user # req.user
      BY <1>1, <1>2, <1>5, <1>6, <2>1 DEF OneRowEach
    <3> QED BY <1>1, <2>1, <3>1, RolesInNone
  <2>2. CASE req.previous # {}
    <3>1. s[i].user = req.user /\ s[i].roles = req.previous
      BY <1>5, <2>2
    <3> QED BY <1>1, <1>2, <1>5, <1>7, <3>1, RolesInRow
  <2> QED BY <2>1, <2>2
<1>12. Facilitator \in RolesIn(s)[req.by]
  <2>1. CASE req.by = req.user
    BY <1>2, <1>11, <2>1
  <2>2. CASE req.by # req.user
    <3>1. Facilitator \in RolesIn(rows)[req.by]
      BY <1>2, <2>2, HasRoleHeld
    <3> QED BY <1>2, <1>10, <2>2, <3>1 DEF RolesIn
  <2> QED BY <2>1, <2>2
<1>13. RolesIn(s) \in Rights
  BY <1>5, RolesInRights
<1> QED BY <1>1, <1>4, <1>9, <1>10, <1>11, <1>12, <1>13 DEF req

\* Other requests have changed nothing.
LEMMA UnwrittenHeld ==
    ASSUME NEW th \in Threads, Only(th), TypeInv, Solo,
           thread[th] = Idle \/ thread[th].stage \notin Late \/ thread[th].kind = "update"
    PROVE  Held = RolesIn(rows) /\ Held \in Rights
<1>1. rows \in Tables
  BY DEF TypeInv, TypeOK, Tables
<1>2. CASE thread[th] = Idle \/ thread[th].stage \notin Late
  <2>1. Before(rows, thread[th]) = rows
    <3>1. CASE thread[th] = Idle
      BY <3>1 DEF Before, Idle
    <3>2. CASE thread[th].stage \notin Late
      BY <3>2 DEF Before, Late
    <3> QED BY <1>2, <3>1, <3>2
  <2> QED BY <1>1, <2>1, SettledBefore, RolesInRights DEF Held
<1>3. CASE thread[th] # Idle /\ thread[th].kind = "update"
  <2>1. thread[th].row = 0
    BY <1>3 DEF Solo, Alone
  <2> QED BY <1>1, <2>1, SettledBefore, RolesInRights DEF Held, Before
<1> QED BY <1>2, <1>3

\* The request that saves the inventory is answered.
LEMMA SavedImplements ==
    ASSUME NEW th \in Threads, Acting(th), TypeInv, Solo, thread[th] # Idle,
           thread[th].stage \in Late, Saves(thread[th]), owner \in Users, owner' = owner,
           Answer(th, {Inventory}), RolesIn(rows') = Ensured(RolesIn(rows), owner)
    PROVE  Atomic!Next
<1> DEFINE req == thread[th]
<1>1. /\ req \in Serving /\ Alone(req) /\ Written(req) /\ thread \in [Threads -> Serving \cup {Idle}]
  BY DEF TypeInv, TypeOK, Solo, Alone, Late
<1>2. /\ thread'[th] = Idle /\ expired' = IF req.extend THEN FALSE ELSE expired
      /\ Respond(req.by, IF req.roles \subseteq req.previous THEN {} ELSE {Granted(req.user)}, {Inventory})
  BY <1>1 DEF Answer
<1>3. Held' = RolesIn(rows')
  <2>1. Before(rows', thread'[th]) = rows'
    BY <1>2 DEF Before, Idle
  <2> QED BY <2>1, SettledAfter DEF Held, Acting
<1>4. req.by \in Users /\ req.extend \in BOOLEAN /\ expired \in BOOLEAN /\ (~expired \/ req.extend)
  BY <1>1 DEF Serving, TypeInv, TypeOK, Saves
<1>5. CASE req.kind = "create"
  <2>1. /\ Held \in Rights /\ req.user \in Users /\ req.roles \in Posted
        /\ RolesIn(rows) = [Held EXCEPT ![req.user] = req.roles]
        /\ Held[req.user] = req.previous /\ Facilitator \in Held[req.by]
    BY <1>5, WrittenHeld DEF Acting
  <2>2. ~expired /\ expired' = expired
    BY <1>1, <1>2, <1>4, <1>5 DEF Alone
  <2> HIDE DEF req
  <2>3. Held' = Ensured([Held EXCEPT ![req.user] = req.roles], owner)
    BY <1>3, <2>1
  <2>4. Respond(req.by, IF req.roles \subseteq Held[req.user] THEN {} ELSE {Granted(req.user)}, {Inventory})
    BY <1>2, <2>1
  <2> QED BY <1>4, <2>1, <2>2, <2>3, <2>4, AtomicCreateMember
<1>6. CASE req.kind = "update"
  <2>1. Held = RolesIn(rows) /\ Held \in Rights
    BY <1>6, UnwrittenHeld DEF Acting
  <2>2. Facilitator \in Held[req.by] /\ req.roles = {}
    BY <1>1, <1>4, <1>6, <2>1, HasRoleHeld DEF Written, Alone
  <2> HIDE DEF req
  <2>3. Respond(req.by, {}, {Inventory})
    BY <1>2, <2>2
  <2> QED BY <1>2, <1>3, <1>4, <2>1, <2>2, <2>3, AtomicUpdateTool
<1> QED BY <1>1, <1>5, <1>6 DEF Written

LEMMA StepImplements ==
    ASSUME NEW th \in Threads, Acting(th), TypeInv, Solo, TypeInv', Solo', Step(th)
    PROVE  [Atomic!Next]_(Atomic!vars)
<1> DEFINE req == thread[th]
<1>0. /\ req # Idle /\ req \in Serving /\ Alone(req) /\ Sound(req) /\ owner # NoOne
      /\ thread \in [Threads -> Serving \cup {Idle}]
      /\ rows \in Tables /\ OneRowEach(rows) /\ rows' \in Tables /\ OneRowEach(rows')
  BY DEF Step, At, Authorize, Validate, Write, Callback, SaveRefused, Revalidate, Restore, Delete,
         Solo, SingleRows, OneRowEach, TypeInv, TypeOK, Sane, Tables
<1>k. /\ req.kind \in {"create", "destroy", "update"} /\ req.by \in Users /\ req.stage \in Stages
      /\ owner \in Users
  BY <1>0 DEF Serving, TypeInv, TypeOK
<1>h. Held = RolesIn(Before(rows, req)) /\ Held' = RolesIn(Before(rows', thread'[th]))
  BY SettledBefore, SettledAfter DEF Held, Acting
<1>i. thread'[th] = Idle => Held' = RolesIn(rows')
  BY <1>h DEF Before, Idle
<1> HIDE DEF req
<1>s. ASSUME UNCHANGED <<owner, expired, reply>>, Before(rows', thread'[th]) = Before(rows, req)
      PROVE  [Atomic!Next]_(Atomic!vars)
  BY <1>h, <1>s, AtomicStutter
<1>a. ASSUME Abandon(th), req.stage \notin Late \/ req.kind = "update" PROVE [Atomic!Next]_(Atomic!vars)
  <2>1. thread'[th] = Idle /\ UNCHANGED <<owner, expired, rows, reply>>
    BY <1>0, <1>a DEF Abandon
  <2>2. Before(rows', thread'[th]) = rows
    BY <2>1 DEF Before, Idle
  <2>3. Before(rows, req) = rows
    BY <1>0, <1>a DEF Before, Late, Alone
  <2> QED BY <1>s, <2>1, <2>2, <2>3
<1>g. ASSUME NEW stage \in Stages, Goto(th, stage), UNCHANGED <<owner, expired, rows, reply>>,
             stage \in Late <=> req.stage \in Late \/ (stage = "callback" /\ req.kind = "update")
      PROVE  [Atomic!Next]_(Atomic!vars)
  <2>1. /\ thread'[th].stage = stage /\ thread'[th].row = req.row /\ thread'[th].user = req.user
        /\ thread'[th].previous = req.previous
    BY <1>0, <1>g DEF Goto, req, Serving
  <2>2. req.kind = "update" => req.row = 0
    BY <1>0 DEF Alone
  <2>3. Before(rows', thread'[th]) = Before(rows, req)
    BY <1>g, <2>1, <2>2 DEF Before, Late
  <2> QED BY <1>g, <1>s, <2>3
<1>1. CASE Authorize(th)
  <2>1. req.stage = "authorize"
    BY <1>1 DEF Authorize, At, req
  <2>2. CASE Abandon(th)
    BY <1>a, <2>1, <2>2 DEF Late
  <2>3. CASE Goto(th, FirstStage[req.kind]) /\ UNCHANGED <<owner, expired, rows, inserted, reply>>
    <3>1. /\ FirstStage[req.kind] \in Stages
          /\ FirstStage[req.kind] \in Late <=> req.kind = "update"
          /\ req.kind = "update" => FirstStage[req.kind] = "callback"
      BY <1>k DEF FirstStage, Stages, Late
    <3> QED BY <1>g, <2>1, <2>3, <3>1 DEF Late
  <2> QED BY <1>1, <2>2, <2>3 DEF Authorize, req
<1>2. CASE Validate(th)
  <2>1. req.stage = "validate"
    BY <1>2 DEF Validate, At, req
  <2>2. CASE Abandon(th)
    BY <1>a, <2>1, <2>2 DEF Late
  <2>3. CASE Goto(th, "write") /\ UNCHANGED <<owner, expired, rows, inserted, reply>>
    BY <1>g, <2>1, <2>3 DEF Late, Stages
  <2> QED BY <1>2, <2>2, <2>3 DEF Validate
<1>3. CASE Write(th)
  <2>1. /\ req.stage = "write" /\ req.kind = "create" /\ Loaded(req) /\ UNCHANGED <<owner, expired, reply>>
        /\ req.user \in Users
    BY <1>0, <1>3 DEF Write, At, Alone, Sound, req
  <2>2. Before(rows, req) = rows
    BY <2>1 DEF Before
  <2>3. CASE req.row = 0
    <3>0. Insert(req.user, req.roles) /\ req.previous = {}
      BY <1>3, <2>1, <2>3 DEF Write, Loaded, req
    <3>1. /\ Insert(req.user, req.roles) /\ req.previous = {} /\ inserted + 1 \in RowIds
          /\ thread'[th] = [req EXCEPT !.stage = "callback", !.row = inserted + 1]
      <4>1. inserted + 1 \in RowIds
        BY <3>0, ConstantsOK DEF Insert, CanInsert, RowIds, TypeInv, TypeOK, ConstantsOK
      <4>2. thread'[th] = [req EXCEPT !.stage = "callback", !.row = inserted + 1]
        BY <1>0, <1>3, <2>3 DEF Write, req
      <4> QED BY <3>0, <4>1, <4>2
    <3>2. /\ thread'[th].stage = "callback" /\ thread'[th].row = inserted + 1
          /\ thread'[th].previous = {}
      BY <1>0, <3>1 DEF Serving
    <3>3. inserted + 1 # 0 /\ rows[inserted + 1] = NoRow
      BY <3>1 DEF RowIds, TypeInv, TypeOK
    <3>4. Before(rows', thread'[th]) = [rows' EXCEPT ![inserted + 1] = NoRow]
      BY <3>2, <3>3 DEF Before
    <3>5. [rows' EXCEPT ![inserted + 1] = NoRow] = rows
      BY <1>0, <3>1, <3>3 DEF Insert, Tables
    <3> QED BY <1>s, <2>1, <2>2, <3>4, <3>5
  <2>4. CASE req.row # 0
    <3>1. /\ Goto(th, "callback")
          /\ rows' = IF rows[req.row] = NoRow THEN rows
                     ELSE [rows EXCEPT ![req.row].roles = req.roles]
      BY <1>3, <2>4 DEF Write, req
    <3>2. req.row \in RowIds /\ rows[req.row] = [user |-> req.user, roles |-> req.previous]
      BY <2>1, <2>4 DEF Loaded
    <3>3. rows[req.row] # NoRow /\ req.previous # {}
      <4>1. rows[req.row].user \in Users
        BY <2>1, <3>2
      <4>2. rows[req.row] \in Row
        BY <1>0, <3>2, <4>1, ConstantsOK DEF Tables, ConstantsOK, NoRow
      <4>3. rows[req.row].roles # {}
        BY <4>2 DEF Row, RoleSets
      <4> QED BY <3>2, <4>1, <4>3, ConstantsOK DEF ConstantsOK, NoRow
    <3>4. /\ thread'[th].stage = "callback" /\ thread'[th].row = req.row
          /\ thread'[th].user = req.user /\ thread'[th].previous = req.previous
      BY <1>0, <3>1 DEF Goto, req, Serving
    <3>5. Before(rows', thread'[th]) = [rows' EXCEPT ![req.row] = rows[req.row]]
      BY <2>4, <3>2, <3>3, <3>4 DEF Before
    <3>6. [rows' EXCEPT ![req.row] = rows[req.row]] = rows
      <4>1. \A j \in RowIds : j # req.row => rows'[j] = rows[j]
        BY <1>0, <3>1, <3>2, <3>3 DEF Tables
      <4> QED BY <1>0, <3>2, <4>1 DEF Tables
    <3> QED BY <1>s, <2>1, <2>2, <3>5, <3>6
  <2> QED BY <2>3, <2>4
<1>4. CASE Callback(th)
  <2>1. req.stage = "callback" /\ Saves(req)
    BY <1>4 DEF Callback, At, req
  <2>2. CASE HasRole(owner, Facilitator)
    <3>1. Answer(th, {Inventory}) /\ UNCHANGED <<owner, rows>>
      BY <1>4, <2>2 DEF Callback
    <3>2. RolesIn(rows') = Ensured(RolesIn(rows), owner)
      BY <1>k, <2>2, <3>1, HasRoleHeld DEF Ensured
    <3> QED BY <1>0, <1>k, <2>1, <3>1, <3>2, SavedImplements DEF Late, req
  <2>3. CASE ~HasRole(owner, Facilitator)
    BY <1>4, <1>g, <2>1, <2>3 DEF Callback, Late, Stages
  <2> QED BY <2>2, <2>3
<1>5. CASE SaveRefused(th)
  <2>1. req.stage = "callback" /\ ~Saves(req) /\ req.kind \in {"create", "update"}
    BY <1>0, <1>5 DEF SaveRefused, At, Alone, Written, req
  <2>2. CASE req.kind = "create"
    <3>1. Answer(th, {}) /\ UNCHANGED <<owner, rows>>
      BY <1>5, <2>2 DEF SaveRefused, req
    <3>2. /\ thread'[th] = Idle /\ expired' = expired
          /\ Respond(req.by, IF req.roles \subseteq req.previous THEN {} ELSE {Granted(req.user)}, {})
      BY <1>0, <3>1 DEF Answer, req
    <3>3. /\ Held \in Rights /\ req.user \in Users /\ req.roles \in Posted
          /\ RolesIn(rows) = [Held EXCEPT ![req.user] = req.roles]
          /\ Held[req.user] = req.previous /\ Facilitator \in Held[req.by]
      BY <1>0, <2>1, <2>2, WrittenHeld DEF Late, Acting, req
    <3>4. expired /\ Held' = [Held EXCEPT ![req.user] = req.roles]
      BY <1>i, <2>1, <3>1, <3>2, <3>3 DEF Saves
    <3>5. Respond(req.by, IF req.roles \subseteq Held[req.user] THEN {} ELSE {Granted(req.user)}, {})
      BY <3>2, <3>3
    <3>6. /\ {} = IF expired THEN {} ELSE {Inventory}
          /\ Held' = IF expired THEN [Held EXCEPT ![req.user] = req.roles]
                     ELSE Ensured([Held EXCEPT ![req.user] = req.roles], owner)
      BY <3>4
    <3> QED BY <1>k, <3>1, <3>2, <3>3, <3>5, <3>6, AtomicCreateMember
  <2>3. CASE req.kind = "update"
    BY <1>5, <1>a, <2>3 DEF SaveRefused, req
  <2> QED BY <2>1, <2>2, <2>3
<1>6. CASE Revalidate(th)
  <2>1. req.stage = "revalidate" /\ Saves(req)
    BY <1>0, <1>6 DEF Revalidate, At, Alone, req
  <2>2. CASE Unique(owner, 0)
    BY <1>6, <1>g, <2>1, <2>2 DEF Revalidate, Late, Stages
  <2>3. CASE ~Unique(owner, 0)
    <3>1. Answer(th, {Inventory}) /\ UNCHANGED <<owner, rows>>
      BY <1>6, <2>3 DEF Revalidate
    <3>2. RolesIn(rows)[owner] # {}
      BY <1>k, <2>3, HoldsNothing DEF Unique
    <3>3. RolesIn(rows') = Ensured(RolesIn(rows), owner)
      BY <3>1, <3>2 DEF Ensured
    <3> QED BY <1>0, <1>k, <2>1, <3>1, <3>3, SavedImplements DEF Late, req
  <2> QED BY <2>2, <2>3
<1>7. CASE Restore(th)
  <2>1. /\ req.stage = "restore" /\ Saves(req) /\ RowsOf(owner) = {}
        /\ Insert(owner, {Facilitator}) /\ Answer(th, {Inventory}) /\ owner' = owner
    BY <1>0, <1>7 DEF Restore, At, Alone, req
  <2>2. inserted + 1 \in RowIds /\ rows[inserted + 1] = NoRow
    BY <2>1, ConstantsOK DEF Insert, CanInsert, RowIds, TypeInv, TypeOK, ConstantsOK
  <2>3. /\ rows'[inserted + 1] = [user |-> owner, roles |-> {Facilitator}]
        /\ \A j \in RowIds : j # inserted + 1 => rows'[j] = rows[j]
    BY <1>0, <2>1, <2>2 DEF Insert, Tables
  <2>4. RolesIn(rows') = [RolesIn(rows) EXCEPT ![owner] = {Facilitator}]
    <3>1. PICK t : t = rows'
      OBVIOUS
    <3>2. OneRowEach(t)
      BY <1>0, <3>1 DEF OneRowEach
    <3> QED BY <1>0, <1>k, <2>2, <2>3, <3>1, <3>2, RolesInPut
  <2>5. RolesIn(rows)[owner] = {}
    BY <1>k, <2>1, HoldsNothing
  <2>6. RolesIn(rows') = Ensured(RolesIn(rows), owner)
    BY <2>4, <2>5 DEF Ensured
  <2> QED BY <1>0, <1>k, <2>1, <2>6, SavedImplements DEF Late, req
<1>8. CASE Delete(th)
  <2>1. /\ req.stage = "delete" /\ req.kind = "destroy" /\ Loaded(req) /\ HasRole(req.by, Facilitator)
        /\ ~Refused(req) /\ req.roles = {} /\ ~req.extend
        /\ Answer(th, {}) /\ owner' = owner /\ rows' = [rows EXCEPT ![req.row] = NoRow]
    BY <1>0, <1>8 DEF Delete, At, Alone, Sound, req
  <2>2. /\ req.row \in RowIds /\ rows[req.row] = [user |-> req.user, roles |-> req.previous]
        /\ req.user \in Users
    <3>1. req.row # 0
      BY <2>1 DEF Loaded
    <3> QED BY <2>1, <3>1 DEF Loaded
  <2>3. /\ thread'[th] = Idle /\ expired' = expired /\ Respond(req.by, {}, {})
    BY <1>0, <2>1 DEF Answer, req
  <2>4. Held = RolesIn(rows) /\ Held \in Rights
    BY <2>1, UnwrittenHeld DEF Late, Acting, req
  <2>5. Facilitator \in Held[req.by]
    BY <1>k, <2>1, <2>4, HasRoleHeld
  <2>6. Held[req.user] = req.previous
    BY <1>0, <2>2, <2>4, RolesInRow
  <2>7. rows[req.row] \in Row
    BY <1>0, <2>2, ConstantsOK DEF Tables, ConstantsOK, NoRow
  <2>8. req.previous # {}
    BY <2>2, <2>7 DEF Row, RoleSets
  <2>9. RolesIn(rows') = [RolesIn(rows) EXCEPT ![req.user] = {}]
    <3>1. PICK t : t = rows'
      OBVIOUS
    <3>2. t[req.row] = NoRow /\ \A j \in RowIds : j # req.row => t[j] = rows[j]
      BY <1>0, <2>1, <2>2, <3>1 DEF Tables
    <3>3. t \in Tables /\ rows \in Tables /\ OneRowEach(rows) /\ rows[req.row].user = req.user
      BY <1>0, <2>2, <3>1
    <3>4. RolesIn(t) = [RolesIn(rows) EXCEPT ![req.user] = {}]
      BY <2>2, <3>2, <3>3, RolesInDrop
    <3> QED BY <3>1, <3>4
  <2>10. ~(Facilitator \in Held[req.user] /\ req.user \in {owner, req.by})
    BY <2>1, <2>6 DEF Refused
  <2>11. Held' = [Held EXCEPT ![req.user] = {}]
    BY <1>i, <2>3, <2>4, <2>9
  <2> QED BY <1>k, <2>1, <2>2, <2>3, <2>4, <2>5, <2>6, <2>8, <2>10, <2>11, AtomicDestroyMember
<1> QED BY <1>1, <1>2, <1>3, <1>4, <1>5, <1>6, <1>7, <1>8 DEF Step

\* So is everything that is no step of a request.
LEMMA NextImplements ==
    ASSUME NEW th \in Threads, Acting(th), TypeInv, Solo, TypeInv', Solo', [Next]_vars
    PROVE  [Atomic!Next]_(Atomic!vars)
<1>0. /\ rows \in Tables /\ OneRowEach(rows) /\ rows' \in Tables /\ OneRowEach(rows')
  BY DEF Solo, SingleRows, OneRowEach, TypeInv, TypeOK, Tables
<1>h. Held = RolesIn(Before(rows, thread[th])) /\ Held' = RolesIn(Before(rows', thread'[th]))
  BY SettledBefore, SettledAfter DEF Held, Acting
<1>s. ASSUME rows' = rows, thread' = thread PROVE Held' = Held
  BY <1>h, <1>s
<1>1. CASE PassDeadline
  <2>1. Held' = Held
    BY <1>1, <1>s DEF PassDeadline
  <2> QED BY <1>1, <2>1, AtomicPassDeadline DEF PassDeadline
<1>2. ASSUME NEW u \in Users, CreateInventory(u) PROVE [Atomic!Next]_(Atomic!vars)
  <2>1. /\ owner = NoOne /\ owner' = u /\ Insert(u, {Facilitator}) /\ Respond(u, {}, {Inventory})
        /\ expired' = expired /\ thread' = thread /\ {Facilitator} \in RoleSets
    BY <1>2 DEF CreateInventory, RoleSets
  <2>2. thread[th] = Idle /\ \A i \in RowIds : rows[i] = NoRow
    BY <2>1 DEF TypeInv, Sane
  <2>3. Before(rows, thread[th]) = rows /\ Before(rows', thread'[th]) = rows'
    BY <2>1, <2>2 DEF Before, Idle
  <2>4. inserted + 1 \in RowIds
    BY <2>1, InsertType DEF TypeInv
  <2>5. PICK t : t = rows'
    OBVIOUS
  <2>6. /\ t[inserted + 1] = [user |-> u, roles |-> {Facilitator}]
        /\ \A j \in RowIds : j # inserted + 1 => t[j] = rows[j]
    BY <1>0, <2>1, <2>4, <2>5 DEF Insert, Tables
  <2>7. RolesIn(t) = [RolesIn(rows) EXCEPT ![u] = {Facilitator}]
    BY <1>0, <2>2, <2>4, <2>5, <2>6, RolesInPut
  <2>8. RolesIn(rows)[u] = {}
    BY <2>2, RolesInNone, ConstantsOK DEF NoRow, ConstantsOK
  <2>9. Held' = Ensured(Held, u) /\ Held \in Rights
    BY <1>0, <1>h, <2>3, <2>5, <2>7, <2>8, RolesInRights DEF Ensured
  <2> QED BY <2>1, <2>9, AtomicCreateInventory
<1>3. CASE Arrive(th)
  <2>1. /\ UNCHANGED <<owner, expired, rows, reply>> /\ thread[th] = Idle
        /\ thread'[th].stage = "authorize"
    BY <1>3 DEF Arrive, ServeCreate, ServeDestroy, ServeUpdate, Serve, TypeInv, TypeOK
  <2>2. Before(rows, thread[th]) = rows /\ Before(rows', thread'[th]) = rows
    BY <2>1 DEF Before, Idle
  <2> QED BY <1>h, <2>1, <2>2, AtomicStutter
<1>4. CASE Step(th)
  BY <1>4, StepImplements
<1>5. CASE UNCHANGED vars
  BY <1>5, <1>s, AtomicStutter DEF vars
<1> QED BY <1>1, <1>2, <1>3, <1>4, <1>5 DEF Next, Acting

LEMMA InitImplements ==
    ASSUME NEW th \in Threads, Init
    PROVE  Atomic!Init
<1>1. thread[th] = Idle /\ rows = [i \in RowIds |-> NoRow]
  BY DEF Init
<1>2. Settled = rows
  <2>1. Before(rows, thread[th]) = rows
    BY <1>1 DEF Before, Idle
  <2>2. Only(th)
    BY DEF Init, Only
  <2> QED BY <2>1, <2>2, SettledBefore
<1>3. \A u \in Users : RolesIn(rows)[u] = {}
  BY <1>1, RolesInNone, ConstantsOK DEF ConstantsOK, NoRow
<1>4. RolesIn(Settled) = [u \in Users |-> {}]
  BY <1>2, <1>3 DEF RolesIn
<1> QED BY <1>4 DEF Init, Atomic!Init, Atomic!Tools, Atomic!NoRequest, Atomic!NoCandidate

\* As long as no two requests have been under way at the same time, the SELECTs
\* and commits of find_or_create_by, validation, save and the callbacks add up to
\* the actions of ToolMembership, for any number of threads, users and rows.
THEOREM HandlersImplementAtomic == Spec => ImplementsAtomic
<1> DEFINE I == TypeInv /\ OneAtATime /\ (~overlapped => Solo)
<1>1. Init => I /\ Atomic!Init
  <2>1. \E th : th \in Threads
    BY ConstantsOK DEF ConstantsOK
  <2> QED BY <2>1, InitTypeInv, InitOneAtATime, InitSolo, InitImplements
<1>2. ASSUME I, [Next]_vars
      PROVE  I' /\ (~overlapped' => [Atomic!Next]_(Atomic!vars))
  <2>1. TypeInv'
    BY <1>2, NextTypeInv
  <2>2. CASE overlapped'
    BY <2>1, <2>2 DEF OneAtATime
  <2>3. CASE ~overlapped'
    <3>1. ~overlapped
      BY <1>2, <2>3, SomeoneActs
    <3>2. PICK th \in Threads : Acting(th)
      BY <1>2, <2>3, SomeoneActs
    <3>3. OneAtATime'
      BY <3>2 DEF Acting, OneAtATime
    <3>4. Solo'
      BY <1>2, <3>1, <3>2, NextSolo
    <3>5. [Atomic!Next]_(Atomic!vars)
      BY <1>2, <2>1, <3>1, <3>2, <3>4, NextImplements
    <3> QED BY <2>1, <3>3, <3>4, <3>5
  <2> QED BY <2>2, <2>3
<1> QED BY <1>1, <1>2, PTL DEF Spec, ImplementsAtomic
=============================================================================
