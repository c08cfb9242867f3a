------------------------ MODULE MemberDialogsProofs ------------------------
(***************************************************************************)
(* Proofs about MemberDialogs: type correctness, that the list shows the   *)
(* changes made through it, that a granted request makes its member, that  *)
(* members are those who were chosen, and that saving permissions changes  *)
(* who was ticked, for any tools, users, roles, dialogs and requests under *)
(* way.                                                                    *)
(*                                                                         *)
(* The invariant has a part for each way the shared list and the address   *)
(* of the moment could mislead an answer: TypeInv, Promises, Chosen and    *)
(* Followed.                                                               *)
(***************************************************************************)
EXTENDS MemberDialogs, TLAPS

Kinds == {"list", "dialog", "add", "invite", "remove", "save", "levels", "deny", "grant", "make"}

\* What a request is.
Request(r) ==
    /\ DOMAIN r = {"kind", "tool", "user", "row", "list", "ticked", "live", "status", "n"}
    /\ r.kind \in Kinds /\ r.tool \in Tools /\ r.row \in Row /\ r.list \in List
    /\ r.ticked \subseteq Users /\ r.live \in BOOLEAN /\ r.status \in {"sent", "ok"}
    /\ r.kind \notin {"list", "dialog", "levels"} => r.user \in Users
    /\ r.kind = "save" => r.row = r.list[r.user]

\* Loads, and what a dialog still waits for, are about the page on screen.
Placed(r) ==
    r.kind \in {"list", "dialog"} \/ (r.kind \in DialogKinds /\ r.live) => r.tool = page.tool

Shapes == DOMAIN page = {"tool", "shown"} /\ DOMAIN dialog = {"kind", "list", "ticked"}

Elsewhere == page.tool = None => page.shown = EmptyList /\ dialog = NoDialog

TypeInv == TypeOK /\ Shapes /\ Elsewhere /\ \A r \in net : Request(r) /\ Placed(r)

\* A grant is answered on the page it was given on, and its member made there.
Granting == \A r \in net : r.kind = "grant" => r.tool = page.tool

Keeps(r, p) ==
    /\ <<r.tool, r.user>> = p
    /\ r.kind = "make" \/ (r.kind = "grant" /\ r.status = "ok")

Promises == ~moved => Granting /\ \A p \in promised \ lost : \E r \in net : Keeps(r, p)

\* Whoever a list names was chosen for its tool.
Names(list, u)    == list[u].roles # {} \/ list[u].id # 0
AllChosen(list, t) == \A u \in Users : Names(list, u) => u \in welcome[t]

RequestChosen(r) ==
    /\ AllChosen(r.list, r.tool)
    /\ r.kind \in {"add", "invite", "save", "grant", "make"} => r.user \in welcome[r.tool]

Chosen ==
    ~moved => /\ \A t \in Tools : AllChosen(members[t], t)
              /\ page.tool # None => AllChosen(dialog.list, page.tool)
              /\ \A r \in net : RequestChosen(r)

\* A list shows the participants there are.
Shows(list) == \A u \in Users : list[u].roles = Participants(page.tool)[u].roles

\* The answer of a write that was served has the list loaded again.
Reloads(r) ==
    r.tool = page.tool /\ r.status = "ok" /\ r.kind \in {"add", "invite", "remove", "levels", "deny", "grant"}

Unseen(r) ==
    r.tool = page.tool /\ (r.kind \in {"save", "make"} \/ (r.kind = "remove" /\ ~r.live))

Followed ==
    page.tool # None /\ ~behind =>
        /\ \A r \in net : ~Unseen(r)
        /\ \/ \E r \in net : Reloads(r)
           \/ /\ \A r \in net : r.kind = "list" /\ r.status = "ok" => Shows(r.list)
              /\ Shows(page.shown) \/ \E r \in net : r.kind = "list"

---------------------------------------------------------------------------
(* Requests that are sent, and requests that nobody hears any more.        *)

Loading == {"list", "dialog"}

\* The same request, heard or not.
Like(q, r) ==
    /\ q.kind = r.kind /\ q.tool = r.tool /\ q.user = r.user /\ q.row = r.row
    /\ q.list = r.list /\ q.ticked = r.ticked /\ q.status = r.status

\* N has requests of M only, some of them forgotten.
From(N, M) == \A q \in N : Request(q) /\ \E r \in M : Like(q, r) /\ (q.live => r.live)

\* M's requests are in N, too.
Still(N, M) == \A r \in M : \E q \in N : Request(q) /\ Like(q, r)

Requests(N) == \A r \in N : Request(r)

LEMMA RowTypes ==
    /\ NoRow \in Row /\ EmptyList \in List
    /\ \A u \in Users : EmptyList[u] = NoRow
BY DEF NoRow, EmptyList, Row, List

Fields == {"kind", "tool", "user", "row", "list", "ticked", "live", "status", "n"}

LEMMA NewLoad ==
    ASSUME NEW t \in Tools, NEW kind \in {"list", "dialog", "levels"}
    PROVE  LET r == Req(kind, t)
           IN  /\ Request(r) /\ r.kind = kind /\ r.tool = t
               /\ r.list = EmptyList /\ r.status = "sent" /\ r.live
<1> DEFINE r == Req(kind, t)
<1>1. /\ DOMAIN r = Fields
      /\ r.kind = kind /\ r.tool = t /\ r.user = None /\ r.row = NoRow
      /\ r.list = EmptyList /\ r.ticked = {} /\ r.status = "sent" /\ r.n = 0 /\ r.live = TRUE
  BY DEF Req, Fields
<1> HIDE DEF r
<1>2. r.live /\ r.live \in BOOLEAN
  BY <1>1
<1>3. r.kind \in Kinds /\ r.tool \in Tools /\ r.row \in Row /\ r.list \in List
  BY <1>1, RowTypes DEF Kinds
<1>4. r.ticked \subseteq Users /\ r.status \in {"sent", "ok"} /\ r.live \in BOOLEAN
  BY <1>1
<1>5. /\ r.kind \notin {"list", "dialog", "levels"} => r.user \in Users
      /\ r.kind = "save" => r.row = r.list[r.user]
  BY <1>1
<1>6. Request(r)
  BY <1>1, <1>3, <1>4, <1>5 DEF Request, Fields
<1> QED BY <1>1, <1>2, <1>6 DEF r

LEMMA NewWrite ==
    ASSUME NEW t \in Tools, NEW kind \in Kinds \ {"save"},
           NEW u \in Users, NEW row \in Row
    PROVE  LET r == About(kind, t, u, row)
           IN  /\ Request(r) /\ r.kind = kind /\ r.tool = t /\ r.user = u /\ r.row = row
               /\ r.list = EmptyList /\ r.status = "sent" /\ r.live
<1> DEFINE q == Req(kind, t)
           r == About(kind, t, u, row)
<1>1. /\ DOMAIN q = Fields
      /\ q.kind = kind /\ q.tool = t
      /\ q.list = EmptyList /\ q.ticked = {} /\ q.status = "sent" /\ q.n = 0 /\ q.live = TRUE
  BY DEF Req, Fields
<1>2. r = [[q EXCEPT !.user = u] EXCEPT !.row = row]
  BY DEF About
<1> HIDE DEF q
<1>3. /\ DOMAIN r = Fields
      /\ r.kind = kind /\ r.tool = t /\ r.user = u /\ r.row = row
      /\ r.list = EmptyList /\ r.ticked = {} /\ r.status = "sent" /\ r.n = 0 /\ r.live = TRUE
  BY <1>1, <1>2 DEF Fields
<1> HIDE DEF r
<1>4. r.live /\ r.live \in BOOLEAN
  BY <1>3
<1>5. r.kind \in Kinds /\ r.tool \in Tools /\ r.row \in Row /\ r.list \in List /\ r.user \in Users
  BY <1>3, RowTypes DEF Kinds
<1>6. /\ r.ticked \subseteq Users /\ r.status \in {"sent", "ok"} /\ r.live \in BOOLEAN
      /\ r.kind \notin {"list", "dialog", "levels"} => r.user \in Users
      /\ r.kind = "save" => r.row = r.list[r.user]
  BY <1>3, <1>5
<1>7. Request(r)
  BY <1>3, <1>5, <1>6 DEF Request, Fields
<1> QED BY <1>3, <1>4, <1>7 DEF r

LEMMA Forgotten ==
    ASSUME NEW r, Request(r)
    PROVE  LET q == [r EXCEPT !.live = FALSE]
           IN  Request(q) /\ Like(q, r) /\ ~q.live
<1> DEFINE q == [r EXCEPT !.live = FALSE]
<1>1. /\ DOMAIN q = Fields
      /\ q.kind = r.kind /\ q.tool = r.tool /\ q.user = r.user /\ q.row = r.row
      /\ q.list = r.list /\ q.ticked = r.ticked /\ q.status = r.status /\ q.n = r.n /\ q.live = FALSE
  BY DEF Request, Fields
<1> HIDE DEF q
<1> QED BY <1>1 DEF Request, Like, Fields

LEMMA DeafFrom ==
    ASSUME NEW N, Requests(N), NEW kinds
    PROVE  /\ From(Deaf(N, kinds), N) /\ Requests(Deaf(N, kinds))
           /\ \A q \in Deaf(N, kinds) :
                /\ q.kind \in kinds => ~q.live /\ q.kind \notin Loading
                /\ q.kind \notin kinds => q \in N
           /\ \A r \in N : r.kind \notin kinds => r \in Deaf(N, kinds)
           /\ Still(Deaf(N, kinds), {r \in N : r.kind \notin kinds \cap Loading})
<1>1. \A q \in Deaf(N, kinds) :
         \E r \in N : /\ r.kind \notin kinds \cap Loading
                      /\ q = IF r.kind \in kinds THEN [r EXCEPT !.live = FALSE] ELSE r
  BY DEF Deaf, Loading
<1>2. \A r \in N : r.kind \notin kinds \cap Loading =>
         (IF r.kind \in kinds THEN [r EXCEPT !.live = FALSE] ELSE r) \in Deaf(N, kinds)
  BY DEF Deaf, Loading
<1>3. \A r : Request(r) => Like(r, r)
  BY DEF Like
<1>4. ASSUME NEW q \in Deaf(N, kinds)
      PROVE  /\ Request(q) /\ \E r \in N : Like(q, r) /\ (q.live => r.live)
             /\ q.kind \in kinds => ~q.live /\ q.kind \notin Loading
             /\ q.kind \notin kinds => q \in N
  <2>1. PICK r \in N : /\ r.kind \notin kinds \cap Loading
                       /\ q = IF r.kind \in kinds THEN [r EXCEPT !.live = FALSE] ELSE r
    BY <1>1
  <2>2. CASE r.kind \in kinds
    <3>1. Request(q) /\ Like(q, r) /\ ~q.live
      BY <2>1, <2>2, Forgotten DEF Requests
    <3> QED BY <2>1, <2>2, <3>1 DEF Like
  <2>3. CASE r.kind \notin kinds
    BY <1>3, <2>1, <2>3 DEF Requests
  <2> QED BY <2>2, <2>3
<1>5. ASSUME NEW r \in N, r.kind \notin kinds \cap Loading
      PROVE  \E q \in Deaf(N, kinds) : Request(q) /\ Like(q, r)
  <2>1. CASE r.kind \in kinds
    BY <1>2, <1>5, <2>1, Forgotten DEF Requests
  <2>2. CASE r.kind \notin kinds
    BY <1>2, <1>3, <1>5, <2>2 DEF Requests
  <2> QED BY <2>1, <2>2
<1>6. \A r \in N : r.kind \notin kinds => r \in Deaf(N, kinds)
  BY <1>2
<1> QED BY <1>4, <1>5, <1>6 DEF From, Requests, Still

LEMMA SendingFrom ==
    ASSUME NEW N, NEW S, Requests(N), Requests(S)
    PROVE  /\ From(Sending(N, S), N \cup S) /\ Requests(Sending(N, S)) /\ N \subseteq Sending(N, S)
           /\ \A q \in Sending(N, S) : q \in N \/ \E s \in S : Like(q, s) /\ q.live = s.live
           /\ Still(Sending(N, S), S)
<1>1. Sending(N, S) = N \cup {[r EXCEPT !.n = Fresh(N)] : r \in S}
  BY DEF Sending
<1>2. ASSUME NEW s \in S
      PROVE  LET q == [s EXCEPT !.n = Fresh(N)] IN Request(q) /\ Like(q, s) /\ q.live = s.live
  BY DEF Requests, Request, Like
<1>3. \A r \in N : Request(r) /\ Like(r, r)
  BY DEF Requests, Like
<1> QED BY <1>1, <1>2, <1>3 DEF From, Requests, Still

LEMMA FromFrom ==
    ASSUME NEW N, NEW M, NEW L, From(N, M), From(M, L)
    PROVE  From(N, L)
BY DEF From, Like

\* What a page that loads its list again has then.
LEMMA ReloadFrom ==
    ASSUME NEW N, Requests(N), NEW t \in Tools
    PROVE  LET new(q) == /\ q.kind = "list" /\ q.tool = t /\ q.status = "sent"
                         /\ q.list = EmptyList /\ q.live
           IN  /\ Requests(Reload(N, t))
               /\ \A q \in Reload(N, t) : q \in N \/ new(q)
               /\ \A r \in N : r.kind # "list" => r \in Reload(N, t)
               /\ \E q \in Reload(N, t) : q.kind = "list"
               /\ \A q \in Reload(N, t) :
                    q.kind = "list" => new(q) \/ (t \in Assessments /\ q \in N)
<1> DEFINE new(q) == /\ q.kind = "list" /\ q.tool = t /\ q.status = "sent"
                     /\ q.list = EmptyList /\ q.live
           M == IF t \in Others THEN Deaf(N, {"list"}) ELSE N
           L == {Req("list", t)}
<1>1. Reload(N, t) = Sending(M, L)
  BY DEF Reload
<1>2. Requests(L) /\ \A s \in L : new(s)
  BY NewLoad DEF Requests
<1>3. /\ Requests(M) /\ \A r \in M : r \in N
      /\ \A r \in N : r.kind # "list" => r \in M
      /\ t \in Others => \A r \in M : r.kind # "list"
  <2>1. CASE t \in Others
    <3>1. /\ Requests(M)
          /\ \A q \in M : /\ q.kind \in {"list"} => ~q.live /\ q.kind \notin Loading
                          /\ q.kind \notin {"list"} => q \in N
          /\ \A r \in N : r.kind \notin {"list"} => r \in M
      BY <2>1, DeafFrom
    <3> QED BY <3>1 DEF Loading
  <2>2. CASE t \notin Others
    BY <2>2
  <2> QED BY <2>1, <2>2
<1> HIDE DEF M, L
<1>4. /\ Requests(Sending(M, L)) /\ M \subseteq Sending(M, L)
      /\ \A q \in Sending(M, L) : q \in M \/ \E s \in L : Like(q, s) /\ q.live = s.live
      /\ Still(Sending(M, L), L)
  BY <1>2, <1>3, SendingFrom
<1>5. \A q \in Sending(M, L) : q \in M \/ new(q)
  BY <1>2, <1>4 DEF Like
<1>6. \E q \in Sending(M, L) : q.kind = "list"
  <2>1. Req("list", t) \in L
    BY DEF L
  <2>2. \A s \in L : s.kind = "list" /\ \E q \in Sending(M, L) : Request(q) /\ Like(q, s)
    BY <1>2, <1>4 DEF Still
  <2> QED BY <2>1, <2>2 DEF Like
<1>7. \A q \in Sending(M, L) : q.kind = "list" => new(q) \/ (t \in Assessments /\ q \in N)
  BY <1>3, <1>5 DEF Tools
<1> HIDE DEF new
<1>8. /\ Requests(Reload(N, t))
      /\ \A q \in Reload(N, t) : q \in N \/ new(q)
      /\ \A r \in N : r.kind # "list" => r \in Reload(N, t)
      /\ \E q \in Reload(N, t) : q.kind = "list"
      /\ \A q \in Reload(N, t) : q.kind = "list" => new(q) \/ (t \in Assessments /\ q \in N)
  BY <1>1, <1>3, <1>4, <1>5, <1>6, <1>7
<1> QED BY <1>8 DEF new

LEMMA Refreshed ==
    ASSUME NEW N, Requests(N), Refresh(N), TypeOK, Shapes, Elsewhere
    PROVE  LET new(q) == /\ q.kind = "list" /\ q.tool = page.tool /\ q.status = "sent"
                         /\ q.list = EmptyList /\ q.live
           IN  /\ Requests(net')
               /\ \A q \in net' : q \in N \/ new(q)
               /\ \A r \in N : r.kind # "list" => r \in net'
               /\ page.tool # None =>
                    /\ \E q \in net' : q.kind = "list"
                    /\ \A q \in net' : q.kind = "list" => new(q) \/ (page.tool \in Assessments /\ q \in N)
               /\ page.tool = None => page' = page
               /\ page'.tool = page.tool /\ page'.shown \in List /\ DOMAIN page' = {"tool", "shown"}
<1> DEFINE new(q) == /\ q.kind = "list" /\ q.tool = page.tool /\ q.status = "sent"
                     /\ q.list = EmptyList /\ q.live
<1>1. page' = IF page.tool \in Others THEN [page EXCEPT !.shown = EmptyList] ELSE page
  BY DEF Refresh, Emptied
<1>2. None \notin Others /\ page.tool \in Tools \cup {None}
  BY ConstantsOK DEF ConstantsOK, Tools, TypeOK
<1>3. page'.tool = page.tool /\ page'.shown \in List /\ DOMAIN page' = {"tool", "shown"}
  BY <1>1, RowTypes DEF TypeOK, Shapes
<1>4. page.tool = None => page' = page
  BY <1>1, <1>2
<1>5. /\ Requests(net')
      /\ \A q \in net' : q \in N \/ new(q)
      /\ \A r \in N : r.kind # "list" => r \in net'
      /\ page.tool # None =>
           /\ \E q \in net' : q.kind = "list"
           /\ \A q \in net' : q.kind = "list" => new(q) \/ (page.tool \in Assessments /\ q \in N)
  <2>1. CASE page.tool = None
    <3>1. net' = N
      BY <2>1 DEF Refresh
    <3> QED BY <2>1, <3>1
  <2>2. CASE page.tool # None
    <3>1. net' = Reload(N, page.tool) /\ page.tool \in Tools
      BY <1>2, <2>2 DEF Refresh
    <3> QED BY <2>2, <3>1, ReloadFrom
  <2> QED BY <2>1, <2>2
<1> HIDE DEF new
<1>6. /\ page'.tool = page.tool /\ page'.shown \in List /\ DOMAIN page' = {"tool", "shown"}
      /\ page.tool = None => page' = page
      /\ Requests(net')
      /\ \A q \in net' : q \in N \/ new(q)
      /\ \A r \in N : r.kind # "list" => r \in net'
      /\ page.tool # None =>
           /\ \E q \in net' : q.kind = "list"
           /\ \A q \in net' : q.kind = "list" => new(q) \/ (page.tool \in Assessments /\ q \in N)
  BY <1>3, <1>4, <1>5
<1> QED BY <1>6 DEF new

---------------------------------------------------------------------------
(* What a step keeps.                                                      *)

Sends(S) == Requests(S) /\ (\A s \in S : Placed(s)) /\ From(net', net \cup S)

PageOK == /\ page.tool \in Tools \cup {None} /\ page.shown \in List
          /\ DOMAIN page = {"tool", "shown"}

DialogOK == /\ dialog.list \in List /\ dialog.ticked \subseteq Users
            /\ dialog.kind \in {None, "add", "invite", "manage"}
            /\ DOMAIN dialog = {"kind", "list", "ticked"}

ServerOK == /\ members \in [Tools -> List]
            /\ asked \in [Tools -> [Users -> SUBSET Roles]]
            /\ promised \cup lost \subseteq Others \X Users

LEMMA TypeParts ==
    TypeInv <=> /\ PageOK /\ DialogOK /\ ServerOK /\ welcome \in [Tools -> SUBSET Users]
                /\ Elsewhere /\ \A r \in net : Request(r) /\ Placed(r)
BY DEF TypeInv, TypeOK, Shapes, PageOK, DialogOK, ServerOK, Request, Placed

LEMMA TypesKept ==
    ASSUME TypeInv, NEW S, Sends(S), page'.tool = page.tool, PageOK', DialogOK', ServerOK',
           welcome' \in [Tools -> SUBSET Users], Elsewhere'
    PROVE  TypeInv'
<1>1. ASSUME NEW q \in net'
      PROVE  Request(q) /\ Placed(q)'
  <2>1. PICK r \in net \cup S : Like(q, r) /\ (q.live => r.live)
    BY DEF Sends, From
  <2>2. Placed(r)
    BY DEF Sends, TypeInv
  <2> QED BY <2>1, <2>2 DEF Like, Placed, Sends, From
<1> QED
  BY <1>1 DEF TypeInv, TypeOK, Shapes, PageOK, DialogOK, ServerOK, Request, Placed

LEMMA PromisesKept ==
    ASSUME TypeInv, Promises, NEW S, Sends(S), promised' = promised, lost' = lost, moved => moved',
           ~moved' => page'.tool = page.tool \/ \A r \in net : r.kind # "grant",
           \A s \in S : s.kind = "grant" => s.tool = page.tool /\ page'.tool = page.tool,
           \A r \in net : r.kind \in {"grant", "make"} /\ r.tool \in Others => \E q \in net' : Like(q, r)
    PROVE  Promises'
<1> SUFFICES ASSUME ~moved'
             PROVE  Granting' /\ \A p \in promised \ lost : \E r \in net' : Keeps(r, p)
  BY DEF Promises, Keeps
<1>1. Granting /\ \A p \in promised \ lost : \E r \in net : Keeps(r, p)
  BY DEF Promises
<1>2. ASSUME NEW q \in net', q.kind = "grant"
      PROVE  q.tool = page'.tool
  <2>1. PICK r \in net \cup S : Like(q, r)
    BY DEF Sends, From
  <2>2. CASE r \in S
    BY <1>2, <2>1, <2>2 DEF Like
  <2>3. CASE r \in net
    BY <1>1, <1>2, <2>1, <2>3 DEF Like, Granting
  <2> QED BY <2>2, <2>3
<1>3. ASSUME NEW p \in promised \ lost
      PROVE  \E r \in net' : Keeps(r, p)
  <2>1. PICK r \in net : Keeps(r, p)
    BY <1>1
  <2>2. PICK q \in net' : Like(q, r)
    BY <2>1 DEF Keeps, TypeInv, TypeOK
  <2>3. Keeps(q, p)
    BY <2>1, <2>2 DEF Keeps, Like
  <2> QED BY <2>3
<1> QED BY <1>2, <1>3 DEF Granting

LEMMA ChosenKept ==
    ASSUME Chosen, NEW S, Sends(S), members' = members, moved => moved',
           \A t \in Tools : welcome[t] \subseteq welcome'[t],
           \A r \in net : Request(r),
           ~moved' => \A s \in S : RequestChosen(s)',
           ~moved' /\ page'.tool # None => AllChosen(dialog.list, page.tool)'
    PROVE  Chosen'
<1> SUFFICES ASSUME ~moved'
             PROVE  /\ \A t \in Tools : AllChosen(members[t], t)'
                    /\ \A r \in net' : RequestChosen(r)'
  BY DEF Chosen
<1>1. /\ \A t \in Tools : AllChosen(members[t], t)
      /\ \A r \in net : RequestChosen(r)
  BY DEF Chosen
<1>2. ASSUME NEW t \in Tools
      PROVE  AllChosen(members[t], t)'
  BY <1>1 DEF AllChosen
<1>3. ASSUME NEW q \in net'
      PROVE  RequestChosen(q)'
  <2>1. PICK r \in net \cup S : Like(q, r)
    BY DEF Sends, From
  <2>2. RequestChosen(r)'
    <3>1. CASE r \in S
      BY <3>1
    <3>2. CASE r \in net
      <4>1. r.tool \in Tools /\ RequestChosen(r)
        BY <1>1, <3>2 DEF Request
      <4> QED BY <4>1 DEF RequestChosen, AllChosen
    <3> QED BY <3>1, <3>2
  <2> QED BY <2>1, <2>2 DEF RequestChosen, AllChosen, Like
<1> QED BY <1>2, <1>3

\* Nothing happens to what the page is to show, or to what will bring it.
LEMMA FollowedKept ==
    ASSUME Followed, page'.tool = page.tool, page'.shown = page.shown, behind => behind',
           page.tool # None /\ ~behind' =>
             /\ \A u \in Users : members'[page.tool][u].roles = members[page.tool][u].roles
             /\ \A r \in net : Reloads(r) \/ r.kind = "list" => \E q \in net' : Like(q, r)
             /\ \A q \in net' : q.kind = "list" /\ q.status = "ok" => \E r \in net : Like(q, r)
             /\ \A q \in net' : Unseen(q) => q \in net
    PROVE  Followed'
<1> SUFFICES ASSUME page.tool # None, ~behind'
             PROVE  /\ \A r \in net' : ~Unseen(r)'
                    /\ \/ \E r \in net' : Reloads(r)'
                       \/ /\ \A r \in net' : r.kind = "list" /\ r.status = "ok" => Shows(r.list)'
                          /\ Shows(page.shown)' \/ \E r \in net' : r.kind = "list"
  BY DEF Followed
<1>1. /\ \A r \in net : ~Unseen(r)
      /\ \/ \E r \in net : Reloads(r)
         \/ /\ \A r \in net : r.kind = "list" /\ r.status = "ok" => Shows(r.list)
            /\ Shows(page.shown) \/ \E r \in net : r.kind = "list"
  BY DEF Followed
<1>2. \A list : Shows(list) => Shows(list)'
  BY DEF Shows, Participants, NoRow
<1>3. \A r : (Unseen(r)' => Unseen(r)) /\ (Reloads(r) => Reloads(r)')
  BY DEF Unseen, Reloads
<1>4. \A r \in net' : ~Unseen(r)'
  BY <1>1, <1>3
<1>5. CASE \E r \in net : Reloads(r)
  <2>1. PICK r \in net : Reloads(r)
    BY <1>5
  <2>2. PICK q \in net' : Like(q, r)
    BY <2>1
  <2>3. Reloads(q)'
    BY <2>1, <2>2 DEF Reloads, Like
  <2> QED BY <1>4, <2>3
<1>6. CASE /\ \A r \in net : r.kind = "list" /\ r.status = "ok" => Shows(r.list)
           /\ Shows(page.shown) \/ \E r \in net : r.kind = "list"
  <2>1. ASSUME NEW q \in net', q.kind = "list", q.status = "ok"
        PROVE  Shows(q.list)'
    <3>1. PICK r \in net : Like(q, r)
      BY <2>1
    <3> QED BY <1>2, <1>6, <2>1, <3>1 DEF Like
  <2>2. Shows(page.shown) => Shows(page.shown)'
    BY DEF Shows, Participants, NoRow
  <2>3. (\E r \in net : r.kind = "list") => \E q \in net' : q.kind = "list"
    BY DEF Like
  <2> QED BY <1>4, <1>6, <2>1, <2>2, <2>3
<1> QED BY <1>1, <1>5, <1>6

\* The page loads its list again.
LEMMA FollowedAgain ==
    ASSUME Followed, page'.tool = page.tool, behind' = (behind \/ Crossing), PageOK,
           page.tool # None =>
             /\ \E q \in net' : q.kind = "list"
             /\ \A q \in net' : q.kind = "list" =>
                  \/ q.status = "sent"
                  \/ page.tool \in Assessments /\ \E r \in net : Like(q, r)
             /\ \A q \in net' : Unseen(q) => q \in net
    PROVE  Followed'
<1> SUFFICES ASSUME page.tool # None, ~behind'
             PROVE  /\ \A r \in net' : ~Unseen(r)'
                    /\ \A r \in net' : r.kind = "list" /\ r.status = "ok" => Shows(r.list)'
                    /\ \E r \in net' : r.kind = "list"
  BY DEF Followed
<1>1. ~behind /\ ~Crossing /\ \A r \in net : ~Unseen(r)
  BY DEF Followed
<1>2. \A r \in net' : ~Unseen(r)'
  BY <1>1 DEF Unseen
<1>3. \A r \in net' : r.kind = "list" => r.status = "sent"
  BY <1>1 DEF Crossing, Like
<1> QED BY <1>2, <1>3

---------------------------------------------------------------------------
(* The steps.                                                              *)

Inv == TypeInv /\ Promises /\ Chosen /\ Followed

LEMMA Alike == \A r : Like(r, r)
BY DEF Like

LEMMA SendsNone ==
    ASSUME TypeInv, net' \subseteq net
    PROVE  Sends({})
BY Alike DEF TypeInv, Sends, Requests, From

LEMMA InvInit == Init => Inv
<1> SUFFICES ASSUME Init
             PROVE  Inv
  OBVIOUS
<1>1. /\ members \in [Tools -> List] /\ asked \in [Tools -> [Users -> SUBSET Roles]]
      /\ welcome \in [Tools -> SUBSET Users]
  <2>1. \A u \in Users : (IF u \in Initial THEN [roles |-> {"participant"}, id |-> 1] ELSE NoRow) \in Row
    BY RowTypes DEF Row, Roles
  <2> QED BY <2>1, ConstantsOK DEF Init, List, ConstantsOK
<1>2. /\ DOMAIN page = {"tool", "shown"} /\ page.tool = None /\ page.shown = EmptyList
      /\ DOMAIN dialog = {"kind", "list", "ticked"} /\ dialog.kind = None
      /\ dialog.list = EmptyList /\ dialog.ticked = {} /\ dialog = NoDialog
  BY DEF Init, NoPage, NoDialog
<1>3. net = {} /\ promised = {} /\ lost = {}
  BY DEF Init
<1>4. TypeInv
  BY <1>1, <1>2, <1>3, RowTypes DEF TypeInv, TypeOK, Shapes, Elsewhere
<1>5. Promises
  BY <1>3 DEF Promises, Granting
<1>6. \A t \in Tools : AllChosen(members[t], t)
  BY DEF Init, AllChosen, Names, NoRow
<1>7. Chosen /\ Followed
  BY <1>2, <1>3, <1>6 DEF Chosen, Followed
<1> QED BY <1>4, <1>5, <1>7 DEF Inv

\* A click that sends one request from the page.
LEMMA Writing ==
    ASSUME Inv, NEW s, Request(s), Write({s}), s.tool = page.tool, s.live,
           s.kind \in {"add", "invite", "remove", "levels", "deny", "grant"},
           UNCHANGED <<members, asked, page, dialog, behind, promised, lost, moved>>,
           welcome' \in [Tools -> SUBSET Users],
           \A t \in Tools : welcome[t] \subseteq welcome'[t],
           ~moved => RequestChosen(s)'
    PROVE  Inv'
<1>0. Requests(net) /\ Requests({s}) /\ net' = Sending(net, {s})
  BY DEF Write, Requests, Inv, TypeInv
<1>1. /\ From(net', net \cup {s}) /\ net \subseteq net'
      /\ \A q \in net' : q \in net \/ \E r \in {s} : Like(q, r) /\ q.live = r.live
  BY <1>0, SendingFrom
<1>2. Sends({s})
  BY <1>1 DEF Sends, Requests, Placed
<1>3. PageOK' /\ DialogOK' /\ ServerOK' /\ Elsewhere'
  BY TypeParts DEF Inv, PageOK, DialogOK, ServerOK, Elsewhere
<1>4. TypeInv'
  BY <1>2, <1>3, TypesKept DEF Inv
<1>5. Promises'
  <2>1. \A r \in net : r.kind \in {"grant", "make"} => \E q \in net' : Like(q, r)
    BY <1>1, Alike
  <2> QED BY <1>2, <2>1, PromisesKept DEF Inv
<1>6. Chosen'
  <2>1. page.tool # None => page.tool \in Tools
    BY DEF Inv, TypeInv, TypeOK
  <2>2. ~moved /\ page.tool # None => AllChosen(dialog.list, page.tool)'
    BY <2>1 DEF Inv, Chosen, AllChosen
  <2> QED BY <1>2, <2>2, ChosenKept DEF Inv, TypeInv
<1>7. Followed'
  <2>1. \A r \in net : \E q \in net' : Like(q, r)
    BY <1>1, Alike
  <2>2. \A q \in net' : q.kind = "list" => \E r \in net : Like(q, r)
    BY <1>1, Alike DEF Like
  <2>3. \A q \in net' : Unseen(q) => q \in net
    BY <1>1 DEF Unseen, Like
  <2> QED BY <2>1, <2>2, <2>3, FollowedKept DEF Inv
<1> QED BY <1>4, <1>5, <1>6, <1>7 DEF Inv

\* A dialog is over a page.
LEMMA Over ==
    ASSUME TypeInv, dialog.kind \in {"add", "invite", "manage"} \/ dialog.list # EmptyList
           \/ page.shown # EmptyList
    PROVE  page.tool \in Tools
<1>1. NoDialog.kind = None /\ NoDialog.list = EmptyList
  BY DEF NoDialog
<1> QED BY <1>1, ConstantsOK DEF TypeInv, TypeOK, Elsewhere, ConstantsOK

LEMMA AboutChosen ==
    ASSUME NEW kind, NEW t \in Tools, NEW u \in Users, NEW row \in Row,
           kind \in {"add", "invite", "remove", "deny", "grant"},
           kind \in {"add", "invite", "grant"} => u \in welcome'[t]
    PROVE  RequestChosen(About(kind, t, u, row))'
<1>1. LET r == About(kind, t, u, row)
      IN  /\ r.kind = kind /\ r.tool = t /\ r.user = u /\ r.list = EmptyList
  BY NewWrite DEF Kinds
<1>2. \A v \in Users : ~Names(EmptyList, v)
  BY DEF EmptyList, NoRow, Names
<1> QED BY <1>1, <1>2 DEF RequestChosen, AllChosen

LEMMA Welcomed ==
    ASSUME TypeInv, NEW t \in Tools, NEW u \in Users, welcome' = [welcome EXCEPT ![t] = @ \cup {u}]
    PROVE  /\ welcome' \in [Tools -> SUBSET Users] /\ u \in welcome'[t]
           /\ \A v \in Tools : welcome[v] \subseteq welcome'[v]
BY DEF TypeInv, TypeOK

LEMMA WritingAbout ==
    ASSUME Inv, NEW kind \in {"add", "invite", "remove", "deny", "grant"}, page.tool \in Tools,
           NEW u \in Users, NEW row \in Row, Write({About(kind, page.tool, u, row)}),
           UNCHANGED <<members, asked, page, dialog, behind, promised, lost, moved>>,
           \/ welcome' = [welcome EXCEPT ![page.tool] = @ \cup {u}]
           \/ kind \in {"remove", "deny"} /\ welcome' = welcome
    PROVE  Inv'
<1>1. PICK t \in Tools : t = page.tool
  OBVIOUS
<1>2. PICK s : s = About(kind, t, u, row)
  OBVIOUS
<1>3. Request(s) /\ s.kind = kind /\ s.tool = page.tool /\ s.live
  BY <1>1, <1>2, NewWrite DEF Kinds
<1>4. /\ welcome' \in [Tools -> SUBSET Users]
      /\ kind \in {"add", "invite", "grant"} => u \in welcome'[t]
      /\ \A v \in Tools : welcome[v] \subseteq welcome'[v]
  BY <1>1, Welcomed DEF Inv, TypeInv, TypeOK
<1>5. RequestChosen(About(kind, t, u, row))'
  BY <1>4, AboutChosen
<1>6. RequestChosen(s)'
  BY <1>2, <1>5
<1>7. Write({s})
  BY <1>1, <1>2
<1> QED BY <1>3, <1>4, <1>6, <1>7, Writing

LEMMA InvAddUser ==
    ASSUME Inv, NEW u \in Users, AddUser(u)
    PROVE  Inv'
<1>1. page.tool \in Tools
  BY Over DEF AddUser, Inv
<1>2. PICK row \in Row : row = [roles |-> {"participant"}, id |-> 0]
  BY DEF Row, Roles
<1>3. Write({About("add", page.tool, u, row)})
  BY <1>2 DEF AddUser
<1> QED BY <1>1, <1>3, WritingAbout DEF AddUser

LEMMA InvSendInvitation ==
    ASSUME Inv, NEW u \in Users, NEW role \in Roles, SendInvitation(u, role)
    PROVE  Inv'
<1>1. page.tool \in Tools
  BY Over DEF SendInvitation, Inv
<1>2. PICK row \in Row : row = [roles |-> {role}, id |-> 0]
  BY DEF Row, Roles
<1>3. Write({About("invite", page.tool, u, row)})
  BY <1>2 DEF SendInvitation
<1> QED BY <1>1, <1>3, WritingAbout DEF SendInvitation

LEMMA InvGrantRequest ==
    ASSUME Inv, NEW u \in Users, GrantRequest(u)
    PROVE  Inv'
BY Over, RowTypes, WritingAbout DEF GrantRequest, Inv

LEMMA InvDenyRequest ==
    ASSUME Inv, NEW u \in Users, DenyRequest(u)
    PROVE  Inv'
BY Over, RowTypes, WritingAbout DEF DenyRequest, Inv

LEMMA InvRemoveUser ==
    ASSUME Inv, NEW u \in Users, RemoveUser(u)
    PROVE  Inv'
<1>1. page.tool \in Tools
  <2>1. EmptyList[u].roles = {}
    BY DEF EmptyList, NoRow
  <2> QED BY <2>1, Over DEF RemoveUser, Inv
<1>2. PICK row \in Row : row = page.shown[u]
  BY DEF Inv, TypeInv, TypeOK, List
<1>3. Write({About("remove", page.tool, u, row)})
  BY <1>2 DEF RemoveUser
<1> QED BY <1>1, <1>3, WritingAbout DEF RemoveUser

LEMMA InvSaveLevels ==
    ASSUME Inv, SaveLevels
    PROVE  Inv'
<1>1. PICK t \in Tools : t = page.tool
  BY Over DEF SaveLevels, Inv
<1>2. PICK q : q = Req("levels", t)
  OBVIOUS
<1>3. Request(q) /\ q.kind = "levels" /\ q.tool = page.tool /\ q.live
  BY <1>1, <1>2, NewLoad
<1>4. PICK s : s = [[q EXCEPT !.list = dialog.list] EXCEPT !.ticked = dialog.ticked]
  OBVIOUS
<1>5. /\ Write({s}) /\ UNCHANGED <<members, asked, page, dialog, behind, promised, lost, moved>>
      /\ welcome' = welcome
  BY <1>1, <1>2, <1>4 DEF SaveLevels
<1>6. /\ DOMAIN s = DOMAIN q /\ s.kind = q.kind /\ s.tool = q.tool /\ s.user = q.user /\ s.row = q.row
      /\ s.list = dialog.list /\ s.ticked = dialog.ticked /\ s.live = q.live /\ s.status = q.status
  BY <1>3, <1>4 DEF Request
<1>7. Request(s) /\ s.kind = "levels" /\ s.tool = page.tool /\ s.live
  BY <1>3, <1>6 DEF Request, Inv, TypeInv, TypeOK
<1>8. ~moved => RequestChosen(s)'
  <2>1. ~moved => AllChosen(dialog.list, t)
    BY <1>1, ConstantsOK DEF Inv, Chosen, ConstantsOK
  <2>2. ~moved => AllChosen(s.list, t)'
    BY <1>5, <1>6, <2>1 DEF AllChosen
  <2> QED BY <1>1, <1>7, <2>2 DEF RequestChosen
<1> QED BY <1>5, <1>7, <1>8, Writing DEF Inv, TypeInv, TypeOK

\* The dialog changes, the page and the server do not.
LEMMA Dialogs ==
    ASSUME Inv, NEW S, Sends(S), UNCHANGED <<members, page, behind, promised, lost, welcome, moved>>,
           asked' \in [Tools -> [Users -> SUBSET Roles]], DialogOK',
           page.tool \in Tools \/ dialog' = NoDialog,
           \A s \in S : s.kind = "dialog" /\ s.list = EmptyList,
           \A r \in net : r.kind # "dialog" => \E q \in net' : Like(q, r),
           \A q \in net' : q.kind \in {"save", "make", "remove"} => q \in net,
           ~moved /\ page.tool \in Tools => AllChosen(dialog.list, page.tool)'
    PROVE  Inv'
<1>1. TypeInv'
  <2>1. PageOK' /\ ServerOK' /\ welcome' \in [Tools -> SUBSET Users]
    BY TypeParts DEF Inv, PageOK, ServerOK
  <2>2. Elsewhere'
    BY ConstantsOK DEF Inv, TypeInv, Elsewhere, ConstantsOK
  <2> QED BY <2>1, <2>2, TypesKept DEF Inv
<1>2. Promises'
  BY PromisesKept DEF Inv
<1>3. Chosen'
  <2>1. \A v \in Users : ~Names(EmptyList, v)
    BY DEF EmptyList, NoRow, Names
  <2>2. \A s \in S : RequestChosen(s)'
    BY <2>1 DEF RequestChosen, AllChosen
  <2>3. page.tool # None => page.tool \in Tools
    BY DEF Inv, TypeInv, TypeOK
  <2> QED BY <2>2, <2>3, ChosenKept DEF Inv, TypeInv
<1>4. Followed'
  <2>1. \A q \in net' : q.kind = "list" => \E r \in net : Like(q, r)
    BY DEF Sends, From, Like
  <2>2. \A q \in net' : Unseen(q) => q \in net
    BY DEF Unseen
  <2>3. \A r \in net : Reloads(r) \/ r.kind = "list" => \E q \in net' : Like(q, r)
    BY DEF Reloads
  <2> QED BY <2>1, <2>2, <2>3, FollowedKept DEF Inv
<1> QED BY <1>1, <1>2, <1>3, <1>4 DEF Inv

LEMMA NewDialog ==
    ASSUME NEW kind \in {None, "add", "invite", "manage"}, dialog' = [NoDialog EXCEPT !.kind = kind]
    PROVE  DialogOK' /\ dialog'.list = EmptyList
BY RowTypes DEF DialogOK, NoDialog

LEMMA EmptyChosen == \A t : AllChosen(EmptyList, t)
BY DEF EmptyList, NoRow, Names, AllChosen

LEMMA InvOpenEmpty ==
    ASSUME Inv, OpenAdd \/ OpenInvite
    PROVE  Inv'
<1>1. PICK kind \in {"add", "invite"} : dialog' = [NoDialog EXCEPT !.kind = kind]
  BY DEF OpenAdd, OpenInvite
<1>2. DialogOK' /\ dialog'.list = EmptyList
  BY <1>1, NewDialog
<1>3. /\ UNCHANGED <<members, asked, page, net, behind, promised, lost, welcome, moved>>
      /\ page.tool # None
  BY DEF OpenAdd, OpenInvite
<1>4. Sends({})
  BY <1>3, SendsNone DEF Inv
<1>5. AllChosen(dialog.list, page.tool)'
  BY <1>2 DEF EmptyList, NoRow, Names, AllChosen
<1> QED BY <1>2, <1>3, <1>4, <1>5, Alike, Dialogs DEF Inv, TypeInv, TypeOK

LEMMA InvOpenManage ==
    ASSUME Inv, OpenManage
    PROVE  Inv'
<1>1. PICK t \in Tools : t = page.tool
  BY DEF OpenManage, Inv, TypeInv, TypeOK
<1>2. PICK s : s = Req("dialog", t)
  OBVIOUS
<1>3. Request(s) /\ s.kind = "dialog" /\ s.tool = page.tool /\ s.list = EmptyList
  BY <1>1, <1>2, NewLoad
<1>4. /\ net' = Sending(Deaf(net, {"dialog"}), {s})
      /\ dialog' = [NoDialog EXCEPT !.kind = "manage"]
      /\ UNCHANGED <<members, asked, page, behind, promised, lost, welcome, moved>>
  BY <1>1, <1>2 DEF OpenManage
<1>5. DialogOK' /\ dialog'.list = EmptyList
  BY <1>4, NewDialog
<1>6. Requests(net)
  BY DEF Inv, TypeInv, Requests
<1>7. PICK D : D = Deaf(net, {"dialog"})
  OBVIOUS
<1>8. /\ From(D, net) /\ Requests(D)
      /\ \A q \in D : q.kind \notin {"dialog"} => q \in net
      /\ \A r \in net : r.kind \notin {"dialog"} => r \in D
  BY <1>6, <1>7, DeafFrom
<1>9. PICK S : S = {s}
  OBVIOUS
<1>10. net' = Sending(D, S) /\ Requests(S)
  BY <1>3, <1>4, <1>7, <1>9 DEF Requests
<1>11. /\ From(net', D \cup S) /\ D \subseteq net'
       /\ \A q \in net' : q \in D \/ \E r \in S : Like(q, r) /\ q.live = r.live
  BY <1>8, <1>10, SendingFrom
<1>12. Sends(S)
  <2>1. From(net', net \cup S)
    BY <1>8, <1>11 DEF From, Like
  <2>2. \A r \in S : Placed(r)
    BY <1>3, <1>9 DEF Placed
  <2> QED BY <1>10, <2>1, <2>2 DEF Sends
<1>13. \A r \in net : r.kind # "dialog" => \E q \in net' : Like(q, r)
  BY <1>8, <1>11, Alike
<1>14. \A q \in net' : q.kind \in {"save", "make", "remove"} => q \in net
  BY <1>3, <1>8, <1>9, <1>11 DEF Like
<1>15. AllChosen(dialog.list, page.tool)'
  BY <1>5 DEF EmptyList, NoRow, Names, AllChosen
<1>16. \A r \in S : r.kind = "dialog" /\ r.list = EmptyList
  BY <1>3, <1>9
<1> QED BY <1>1, <1>4, <1>5, <1>12, <1>13, <1>14, <1>15, <1>16, Dialogs DEF Inv, TypeInv, TypeOK

\* The dialog closes.
LEMMA DialogDeaf ==
    ASSUME TypeInv, NEW M, M \subseteq net, NEW D, D = Deaf(M, DialogKinds)
    PROVE  /\ From(D, M) /\ From(D, net) /\ Requests(D)
           /\ \A r \in M : r.kind # "dialog" => \E q \in D : Like(q, r)
           /\ \A q \in D : q.kind \in {"list", "save", "make", "remove"} => q \in M
           /\ \A q \in D : q.kind \in DialogKinds => ~q.live /\ q.kind # "dialog"
           /\ \A r \in M : r.kind \notin DialogKinds => r \in D
<1>1. Requests(M)
  BY DEF TypeInv, Requests
<1>2. /\ From(D, M) /\ Requests(D)
      /\ \A q \in D : /\ q.kind \in DialogKinds => ~q.live /\ q.kind \notin Loading
                      /\ q.kind \notin DialogKinds => q \in M
      /\ \A r \in M : r.kind \notin DialogKinds => r \in D
      /\ Still(D, {r \in M : r.kind \notin DialogKinds \cap Loading})
  BY <1>1, DeafFrom
<1>3. DialogKinds \cap Loading = {"dialog"}
  BY DEF DialogKinds, Loading
<1>4. \A r \in M : r.kind # "dialog" => \E q \in D : Like(q, r)
  BY <1>2, <1>3 DEF Still
<1>5. \A q \in D : q.kind \in {"list", "save", "make", "remove"} => q \in M
  BY <1>2 DEF DialogKinds
<1>6. From(D, net)
  BY <1>2 DEF From
<1> QED BY <1>2, <1>4, <1>5, <1>6 DEF Loading

LEMMA InvCloseDialog ==
    ASSUME Inv, CloseDialog
    PROVE  Inv'
<1>1. /\ net' = Deaf(net, DialogKinds) /\ dialog' = NoDialog
      /\ UNCHANGED <<members, asked, page, behind, promised, lost, welcome, moved>>
  BY DEF CloseDialog
<1>2. /\ From(net', net) /\ Requests(net')
      /\ \A r \in net : r.kind # "dialog" => \E q \in net' : Like(q, r)
      /\ \A q \in net' : q.kind \in {"save", "make", "remove"} => q \in net
  BY <1>1, DialogDeaf DEF Inv
<1>3. Sends({})
  BY <1>2 DEF Sends, From, Requests
<1>4. DialogOK' /\ AllChosen(dialog.list, page.tool)'
  BY <1>1, RowTypes DEF DialogOK, NoDialog, EmptyList, NoRow, Names, AllChosen
<1> QED BY <1>1, <1>2, <1>3, <1>4, Dialogs DEF Inv, TypeInv, TypeOK

LEMMA InvTick ==
    ASSUME Inv, NEW u \in Users, NEW roles \in SUBSET Roles, Tick(u, roles)
    PROVE  Inv'
<1>1. /\ dialog' = [dialog EXCEPT !.list[u].roles = roles, !.ticked = @ \cup {u}]
      /\ UNCHANGED <<members, asked, page, net, behind, promised, lost, welcome, moved>>
      /\ page.tool \in Tools /\ dialog.list[u].roles # {}
  BY Over DEF Tick, Inv
<1>2. PICK list : list = dialog.list
  OBVIOUS
<1>3. list \in List
  BY <1>2 DEF Inv, TypeInv, TypeOK
<1>4. /\ DOMAIN dialog' = {"kind", "list", "ticked"} /\ dialog'.kind = dialog.kind
      /\ dialog'.ticked = dialog.ticked \cup {u}
      /\ dialog'.list = [list EXCEPT ![u] = [list[u] EXCEPT !.roles = roles]]
  BY <1>1, <1>2 DEF Inv, TypeInv, Shapes
<1>5. /\ dialog'.list \in List
      /\ \A v \in Users : Names(dialog'.list, v) => Names(list, v)
  BY <1>1, <1>2, <1>3, <1>4 DEF List, Row, Names
<1>6. DialogOK'
  BY <1>4, <1>5 DEF DialogOK, Inv, TypeInv, TypeOK
<1>7. ~moved => AllChosen(dialog.list, page.tool)'
  <2>1. page.tool # None
    BY <1>1, ConstantsOK DEF ConstantsOK
  <2>2. ~moved => \A v \in Users : Names(list, v) => v \in welcome[page.tool]
    BY <1>2, <2>1 DEF Inv, Chosen, AllChosen
  <2> QED BY <1>1, <1>5, <2>2 DEF AllChosen
<1>8. Sends({})
  BY <1>1, SendsNone DEF Inv
<1> QED BY <1>1, <1>6, <1>7, <1>8, Alike, Dialogs DEF Inv, TypeInv, TypeOK

LEMMA InvAskAccess ==
    ASSUME Inv, NEW t \in Tools, NEW u \in Users, NEW role \in Roles, AskAccess(t, u, role)
    PROVE  Inv'
<1>1. /\ asked' = [asked EXCEPT ![t][u] = {role}]
      /\ UNCHANGED <<members, page, dialog, net, behind, promised, lost, welcome, moved>>
  BY DEF AskAccess
<1>2. asked' \in [Tools -> [Users -> SUBSET Roles]]
  BY <1>1 DEF Inv, TypeInv, TypeOK
<1>3. DialogOK'
  BY <1>1, TypeParts DEF Inv, DialogOK
<1>4. ~moved /\ page.tool \in Tools => AllChosen(dialog.list, page.tool)'
  BY <1>1, ConstantsOK DEF Inv, Chosen, AllChosen, ConstantsOK
<1>5. page.tool \in Tools \/ dialog' = NoDialog
  BY <1>1 DEF Inv, TypeInv, TypeOK, Elsewhere
<1>6. Sends({})
  BY <1>1, SendsNone DEF Inv
<1> QED BY <1>1, <1>2, <1>3, <1>4, <1>5, <1>6, Alike, Dialogs

LEMMA InvDialogLoaded ==
    ASSUME Inv, NEW r \in net, DialogLoaded(r)
    PROVE  Inv'
<1>1. /\ r.kind = "dialog" /\ net' = net \ {r}
      /\ dialog' = [dialog EXCEPT !.list = r.list, !.ticked = {}]
      /\ UNCHANGED <<members, asked, page, behind, promised, lost, welcome, moved>>
  BY DEF DialogLoaded, Take
<1>2. Request(r) /\ r.tool = page.tool
  BY <1>1 DEF Inv, TypeInv, Placed
<1>3. DialogOK' /\ dialog'.list = r.list
  BY <1>1, <1>2 DEF DialogOK, Inv, TypeInv, TypeOK, Shapes, Request
<1>4. ~moved => AllChosen(dialog.list, page.tool)'
  BY <1>1, <1>2, <1>3 DEF Inv, Chosen, RequestChosen, AllChosen
<1>5. Sends({})
  BY <1>1, SendsNone DEF Inv
<1>6. page.tool \in Tools
  BY <1>2 DEF Request
<1> QED BY <1>1, <1>3, <1>4, <1>5, <1>6, Alike, Dialogs DEF Inv, TypeInv, TypeOK

\* What was asked for on a page that is left.
LEMMA Left ==
    ASSUME TypeInv, NEW D, D = Deaf(net, DialogKinds \cup {"list", "remove"})
    PROVE  /\ From(D, net) /\ Requests(D)
           /\ \A q \in D : /\ q.kind \notin Loading
                           /\ q.kind \in DialogKinds => ~q.live
           /\ \A r \in net : r.kind \in {"grant", "make"} => \E q \in D : Like(q, r)
<1>0. PICK kinds : kinds = DialogKinds \cup {"list", "remove"}
  OBVIOUS
<1>1. Requests(net) /\ D = Deaf(net, kinds)
  BY <1>0 DEF TypeInv, Requests
<1>2. Loading \subseteq kinds /\ DialogKinds \subseteq kinds
  BY <1>0 DEF DialogKinds, Loading
<1>3. /\ From(D, net) /\ Requests(D)
      /\ \A q \in D : q.kind \in kinds => ~q.live /\ q.kind \notin Loading
      /\ Still(D, {r \in net : r.kind \notin kinds \cap Loading})
  <2>1. /\ From(Deaf(net, kinds), net) /\ Requests(Deaf(net, kinds))
        /\ \A q \in Deaf(net, kinds) : q.kind \in kinds => ~q.live /\ q.kind \notin Loading
        /\ Still(Deaf(net, kinds), {r \in net : r.kind \notin kinds \cap Loading})
    BY <1>1, DeafFrom
  <2> QED BY <1>1, <2>1
<1>4. \A r \in net : r.kind \in {"grant", "make"} => \E q \in D : Like(q, r)
  BY <1>3 DEF Still, Loading
<1> QED BY <1>2, <1>3, <1>4

LEMMA InvGoIndex ==
    ASSUME Inv, GoIndex
    PROVE  Inv'
<1>1. /\ page' = NoPage /\ net' = Deaf(net, DialogKinds \cup {"list", "remove"})
      /\ moved' = (moved \/ \E r \in net : r.kind = "grant")
      /\ dialog = NoDialog
      /\ UNCHANGED <<members, asked, dialog, behind, promised, lost, welcome>>
  BY DEF GoIndex
<1>2. /\ From(net', net) /\ Requests(net')
      /\ \A q \in net' : q.kind \notin Loading /\ (q.kind \in DialogKinds => ~q.live)
      /\ \A r \in net : r.kind \in {"grant", "make"} => \E q \in net' : Like(q, r)
  BY <1>1, Left DEF Inv
<1>3. page'.tool = None /\ page'.shown = EmptyList /\ DOMAIN page' = {"tool", "shown"}
  BY <1>1 DEF NoPage
<1>4. Sends({})
  BY <1>2 DEF Sends, From, Requests
<1>5. TypeInv'
  <2>1. PageOK' /\ DialogOK' /\ ServerOK' /\ Elsewhere' /\ welcome' \in [Tools -> SUBSET Users]
    BY <1>1, <1>3, RowTypes, TypeParts DEF Inv, PageOK, DialogOK, ServerOK, Elsewhere
  <2>2. \A q \in net' : Request(q) /\ Placed(q)'
    BY <1>2 DEF Requests, Placed, Loading
  <2> QED
    BY <2>1, <2>2 DEF TypeInv, TypeOK, Shapes, PageOK, DialogOK, ServerOK, Request, Placed
<1>6. Promises'
  BY <1>1, <1>2, <1>4, PromisesKept DEF Inv
<1>7. Chosen'
  BY <1>1, <1>3, <1>4, ChosenKept DEF Inv, TypeInv
<1>8. Followed'
  BY <1>3 DEF Followed
<1> QED BY <1>5, <1>6, <1>7, <1>8 DEF Inv

LEMMA InvVisit ==
    ASSUME Inv, NEW t \in Tools, Visit(t)
    PROVE  Inv'
<1>1. PICK D : D = Deaf(net, DialogKinds \cup {"list", "remove"})
  OBVIOUS
<1>2. PICK S : S = {Req("list", t)}
  OBVIOUS
<1>3. /\ page' = [tool |-> t, shown |-> EmptyList] /\ net' = Sending(D, S)
      /\ moved' = (moved \/ \E r \in net : r.kind = "grant")
      /\ behind' = (Writes(t) # {}) /\ dialog = NoDialog
      /\ UNCHANGED <<members, asked, dialog, promised, lost, welcome>>
  BY <1>1, <1>2 DEF Visit
<1>4. /\ From(D, net) /\ Requests(D)
      /\ \A q \in D : q.kind \notin Loading /\ (q.kind \in DialogKinds => ~q.live)
      /\ \A r \in net : r.kind \in {"grant", "make"} => \E q \in D : Like(q, r)
  BY <1>1, Left DEF Inv
<1>5. /\ Requests(S) /\ \E s \in S : TRUE
      /\ \A s \in S : s.kind = "list" /\ s.tool = t /\ s.list = EmptyList /\ s.status = "sent"
  BY <1>2, NewLoad DEF Requests
<1>6. /\ From(net', D \cup S) /\ Requests(net') /\ D \subseteq net'
      /\ \A q \in net' : q \in D \/ \E s \in S : Like(q, s) /\ q.live = s.live
      /\ Still(net', S)
  BY <1>3, <1>4, <1>5, SendingFrom
<1>7. page'.tool = t /\ page'.shown = EmptyList /\ DOMAIN page' = {"tool", "shown"}
  BY <1>3
<1>8. From(net', net \cup S)
  BY <1>4, <1>6 DEF From, Like
<1>9. TypeInv'
  <2>1. PageOK' /\ DialogOK' /\ ServerOK' /\ welcome' \in [Tools -> SUBSET Users]
    BY <1>3, <1>7, RowTypes, TypeParts DEF Inv, PageOK, DialogOK, ServerOK
  <2>2. Elsewhere'
    BY <1>3, <1>7 DEF Elsewhere
  <2>3. \A q \in net' : Request(q) /\ Placed(q)'
    BY <1>4, <1>5, <1>6, <1>7 DEF Requests, Placed, Loading, Like
  <2> QED
    BY <2>1, <2>2, <2>3 DEF TypeInv, TypeOK, Shapes, PageOK, DialogOK, ServerOK, Request, Placed
<1>10. \A r \in net : r.kind \in {"grant", "make"} => \E q \in net' : Like(q, r)
  BY <1>4, <1>6
<1>11. Promises'
  <2> SUFFICES ASSUME ~moved'
               PROVE  Granting' /\ \A p \in promised \ lost : \E r \in net' : Keeps(r, p)
    BY <1>3 DEF Promises, Keeps
  <2>1. ~moved /\ \A r \in net : r.kind # "grant"
    BY <1>3
  <2>2. Granting'
    BY <1>5, <1>8, <2>1 DEF Granting, From, Like
  <2>3. ASSUME NEW p \in promised \ lost
        PROVE  \E r \in net' : Keeps(r, p)
    <3>1. PICK r \in net : Keeps(r, p)
      BY <2>1 DEF Inv, Promises
    <3>2. PICK q \in net' : Like(q, r)
      BY <1>10, <3>1 DEF Keeps
    <3>3. Keeps(q, p)
      BY <3>1, <3>2 DEF Keeps, Like
    <3> QED BY <3>3
  <2> QED BY <2>2, <2>3
<1>12. Chosen'
  <2> SUFFICES ASSUME ~moved'
               PROVE  Chosen'
    BY DEF Chosen
  <2>1. /\ \A v \in Tools : AllChosen(members[v], v)
        /\ \A r \in net : RequestChosen(r)
    BY <1>3 DEF Inv, Chosen
  <2>2. \A v \in Tools : AllChosen(members[v], v)'
    BY <1>3, <2>1 DEF AllChosen
  <2>3. AllChosen(dialog.list, page.tool)'
    BY <1>3 DEF NoDialog, AllChosen, Names, EmptyList, NoRow
  <2>4. ASSUME NEW q \in net'
        PROVE  RequestChosen(q)'
    <3>1. PICK r \in net \cup S : Like(q, r)
      BY <1>8 DEF From
    <3>2. CASE r \in net
      BY <1>3, <2>1, <3>1, <3>2 DEF RequestChosen, AllChosen, Like
    <3>3. CASE r \in S
      <4>1. q.kind = "list" /\ q.list = EmptyList
        BY <1>5, <3>1, <3>3 DEF Like
      <4> QED BY <4>1 DEF RequestChosen, AllChosen, Names, EmptyList, NoRow
    <3> QED BY <3>1, <3>2, <3>3
  <2> QED BY <2>2, <2>3, <2>4 DEF Chosen
<1>13. Followed'
  <2> SUFFICES ASSUME ~behind'
               PROVE  /\ \A r \in net' : ~Unseen(r)'
                      /\ \A r \in net' : r.kind = "list" => r.status = "sent"
                      /\ \E r \in net' : r.kind = "list"
    BY DEF Followed
  <2>1. \A r \in net : r.tool = t => r.kind \in Loading
    BY <1>3 DEF Writes, Loading
  <2>2. \A q \in D : q.tool # t
    BY <1>4, <2>1 DEF From, Like
  <2>3. \A q \in net' : q \in D \/ (q.kind = "list" /\ q.tool = t /\ q.status = "sent")
    BY <1>5, <1>6 DEF Like
  <2>4. \A r \in net' : ~Unseen(r)'
    BY <1>7, <2>2, <2>3 DEF Unseen
  <2>5. \A r \in net' : r.kind = "list" => r.status = "sent"
    BY <1>4, <2>3 DEF Loading
  <2>6. \E r \in net' : r.kind = "list"
    BY <1>5, <1>6 DEF Still, Like
  <2> QED BY <2>4, <2>5, <2>6
<1> QED BY <1>9, <1>11, <1>12, <1>13 DEF Inv

LEMMA InvLoaded ==
    ASSUME Inv, NEW r \in net, Loaded(r)
    PROVE  Inv'
<1>1. /\ r.kind = "list" /\ r.status = "ok" /\ net' = net \ {r}
      /\ page' = [page EXCEPT !.shown = r.list]
      /\ UNCHANGED <<members, asked, dialog, behind, promised, lost, welcome, moved>>
  BY DEF Loaded, Take
<1>2. Request(r) /\ r.tool = page.tool /\ page.tool # None
  BY <1>1, ConstantsOK DEF Inv, TypeInv, Placed, Request, ConstantsOK
<1>3. page'.tool = page.tool /\ page'.shown = r.list /\ DOMAIN page' = {"tool", "shown"}
  BY <1>1 DEF Inv, TypeInv, Shapes
<1>4. Sends({})
  BY <1>1, SendsNone DEF Inv
<1>5. TypeInv'
  <2>1. PageOK' /\ DialogOK' /\ ServerOK' /\ welcome' \in [Tools -> SUBSET Users]
    BY <1>1, <1>2, <1>3, TypeParts DEF Inv, PageOK, DialogOK, ServerOK, Request
  <2>2. Elsewhere'
    BY <1>2, <1>3 DEF Elsewhere
  <2> QED BY <1>3, <1>4, <2>1, <2>2, TypesKept DEF Inv
<1>6. Promises'
  <2>1. \A q \in net : q.kind \in {"grant", "make"} => \E p \in net' : Like(p, q)
    BY <1>1, Alike
  <2> QED BY <1>1, <1>3, <1>4, <2>1, PromisesKept DEF Inv
<1>7. Chosen'
  <2>1. page.tool \in Tools /\ (~moved => AllChosen(dialog.list, page.tool))
    BY <1>2 DEF Inv, Chosen, Request
  <2>2. ~moved => AllChosen(dialog.list, page.tool)'
    BY <1>1, <1>3, <2>1 DEF AllChosen
  <2> QED BY <1>1, <1>4, <2>2, ChosenKept DEF Inv, TypeInv
<1>8. Followed'
  <2> SUFFICES ASSUME ~behind'
               PROVE  /\ \A q \in net' : ~Unseen(q)'
                      /\ \/ \E q \in net' : Reloads(q)'
                         \/ /\ \A q \in net' : q.kind = "list" /\ q.status = "ok" => Shows(q.list)'
                            /\ Shows(page.shown)'
    BY DEF Followed
  <2>1. /\ \A q \in net : ~Unseen(q)
        /\ (\E q \in net : Reloads(q)) \/ \A q \in net : q.kind = "list" /\ q.status = "ok" => Shows(q.list)
    BY <1>1, <1>2 DEF Inv, Followed
  <2>2. \A list : Shows(list) => Shows(list)'
    BY <1>1, <1>3 DEF Shows, Participants
  <2>3. \A q : (Unseen(q)' => Unseen(q)) /\ (Reloads(q) => Reloads(q)')
    BY <1>3 DEF Unseen, Reloads
  <2>4. ~Reloads(r)
    BY <1>1 DEF Reloads
  <2>5. CASE \E q \in net : Reloads(q)
    BY <1>1, <2>1, <2>3, <2>4, <2>5
  <2>6. CASE \A q \in net : q.kind = "list" /\ q.status = "ok" => Shows(q.list)
    <3>1. Shows(r.list) /\ \A q \in net' : q.kind = "list" /\ q.status = "ok" => Shows(q.list)'
      BY <1>1, <2>2, <2>6
    <3>2. Shows(page.shown)'
      BY <1>1, <1>3, <3>1 DEF Shows, Participants
    <3> QED BY <1>1, <2>1, <2>3, <3>1, <3>2
  <2> QED BY <2>1, <2>5, <2>6
<1> QED BY <1>5, <1>6, <1>7, <1>8 DEF Inv

\* The page loads its list again.
LEMMA Refreshing ==
    ASSUME Inv, NEW N, Requests(N), Refresh(N),
           NEW S, Requests(S), \A s \in S : Placed(s) /\ s.kind # "grant" /\ (~moved => RequestChosen(s)),
           From(N, net \cup S),
           UNCHANGED <<members, asked, promised, lost, welcome, moved>>, DialogOK',
           page.tool \in Tools \/ dialog' = NoDialog,
           ~moved /\ page.tool \in Tools => AllChosen(dialog.list, page.tool)',
           \A r \in net : r.kind \in {"grant", "make"} /\ r.tool \in Others => \E q \in N : Like(q, r),
           \/ behind'
           \/ /\ behind' = (behind \/ Crossing)
              /\ \A q \in N : q.kind \in {"list", "save", "make", "remove"} => q \in net
    PROVE  Inv'
<1> DEFINE new(q) == /\ q.kind = "list" /\ q.tool = page.tool /\ q.status = "sent"
                     /\ q.list = EmptyList /\ q.live
<1>1. /\ Requests(net')
      /\ \A q \in net' : q \in N \/ new(q)
      /\ \A r \in N : r.kind # "list" => r \in net'
      /\ page.tool # None =>
           /\ \E q \in net' : q.kind = "list"
           /\ \A q \in net' : q.kind = "list" => new(q) \/ (page.tool \in Assessments /\ q \in N)
      /\ page.tool = None => page' = page
      /\ page'.tool = page.tool /\ page'.shown \in List /\ DOMAIN page' = {"tool", "shown"}
  BY Refreshed DEF Inv, TypeInv
<1>2. PICK L : L = {q \in net' : new(q)}
  OBVIOUS
<1>3. \A s \in L : new(s) /\ Request(s)
  BY <1>1, <1>2 DEF Requests
<1>4. \A q \in net' : q \in N \/ q \in L
  BY <1>1, <1>2
<1>5. \A q \in net' : Request(q)
  BY <1>1 DEF Requests
<1>6. Sends(S \cup L)
  <2>1. Requests(S \cup L)
    BY <1>3 DEF Requests
  <2>2. \A s \in S \cup L : Placed(s)
    BY <1>3 DEF Placed
  <2>3. From(net', net \cup (S \cup L))
    BY <1>4, <1>5, Alike DEF From
  <2> QED BY <2>1, <2>2, <2>3 DEF Sends
<1>7. TypeInv'
  <2>1. PageOK' /\ ServerOK' /\ welcome' \in [Tools -> SUBSET Users]
    BY <1>1, TypeParts DEF Inv, PageOK, ServerOK
  <2>2. Elsewhere'
    BY <1>1, ConstantsOK DEF Inv, TypeInv, Elsewhere, ConstantsOK
  <2> QED BY <1>1, <1>6, <2>1, <2>2, TypesKept DEF Inv
<1>8. Promises'
  <2>1. \A r \in net : r.kind \in {"grant", "make"} /\ r.tool \in Others => \E q \in net' : Like(q, r)
    BY <1>1 DEF Like
  <2>2. \A s \in S \cup L : s.kind # "grant"
    BY <1>3
  <2> QED BY <1>1, <1>6, <2>1, <2>2, PromisesKept DEF Inv
<1>9. Chosen'
  <2>1. ASSUME ~moved', NEW s \in S \cup L
        PROVE  RequestChosen(s)'
    <3>1. CASE s \in S
      BY <2>1, <3>1 DEF RequestChosen, AllChosen
    <3>2. CASE s \in L
      <4>1. s.kind = "list" /\ s.list = EmptyList
        BY <1>3, <3>2
      <4> QED BY <4>1 DEF RequestChosen, AllChosen, Names, EmptyList, NoRow
    <3> QED BY <2>1, <3>1, <3>2
  <2>2. page'.tool # None => page.tool \in Tools
    BY <1>1 DEF Inv, TypeInv, TypeOK
  <2> QED BY <1>6, <2>1, <2>2, ChosenKept DEF Inv, TypeInv
<1>10. Followed'
  <2>1. CASE behind'
    BY <2>1 DEF Followed
  <2>2. CASE /\ behind' = (behind \/ Crossing)
             /\ \A q \in N : q.kind \in {"list", "save", "make", "remove"} => q \in net
    <3>1. PageOK
      BY TypeParts DEF Inv
    <3>2. page.tool # None => \A q \in net' : q.kind = "list" =>
             \/ q.status = "sent"
             \/ page.tool \in Assessments /\ \E r \in net : Like(q, r)
      BY <1>1, <2>2, Alike
    <3>3. \A q \in net' : Unseen(q) => q \in net
      BY <1>1, <2>2 DEF Unseen
    <3> QED BY <1>1, <2>2, <3>1, <3>2, <3>3, FollowedAgain DEF Inv
  <2> QED BY <2>1, <2>2
<1> QED BY <1>7, <1>8, <1>9, <1>10 DEF Inv

LEMMA RefreshingRest ==
    ASSUME Inv, NEW N, Requests(N), Refresh(N), From(N, net),
           UNCHANGED <<members, asked, promised, lost, welcome, moved>>, DialogOK',
           page.tool \in Tools \/ dialog' = NoDialog,
           ~moved /\ page.tool \in Tools => AllChosen(dialog.list, page.tool)',
           \A r \in net : r.kind \in {"grant", "make"} /\ r.tool \in Others => \E q \in N : Like(q, r),
           behind' = (behind \/ Crossing),
           \A q \in N : q.kind \in {"list", "save", "make", "remove"} => q \in net
    PROVE  Inv'
<1>1. PICK S : S = {}
  OBVIOUS
<1>2. From(N, net \cup S) /\ Requests(S) /\ \A s \in S : FALSE
  BY <1>1 DEF Requests, From
<1> QED BY <1>2, Refreshing

LEMMA Unnoticed ==
    ASSUME Inv, NEW r \in net, net' = net \ {r},
           r.kind \in {"add", "invite", "levels", "deny", "grant"},
           r.kind = "grant" => r.tool \in Assessments,
           UNCHANGED <<members, asked, page, dialog, promised, lost, welcome, moved>>,
           behind' = (behind \/ r.tool = page.tool)
    PROVE  Inv'
<1>1. Sends({})
  BY SendsNone DEF Inv
<1>2. TypeInv'
  <2>1. PageOK' /\ DialogOK' /\ ServerOK' /\ Elsewhere' /\ welcome' \in [Tools -> SUBSET Users]
    BY TypeParts DEF Inv, PageOK, DialogOK, ServerOK, Elsewhere
  <2> QED BY <1>1, <2>1, TypesKept DEF Inv
<1>3. Promises'
  <2>1. \A q \in net : q.kind \in {"grant", "make"} /\ q.tool \in Others => \E p \in net' : Like(p, q)
    BY ConstantsOK, Alike DEF ConstantsOK
  <2> QED BY <1>1, <2>1, PromisesKept DEF Inv
<1>4. Chosen'
  <2>1. page.tool # None => page.tool \in Tools
    BY DEF Inv, TypeInv, TypeOK
  <2>2. ~moved /\ page.tool # None => AllChosen(dialog.list, page.tool)'
    BY <2>1 DEF Inv, Chosen, AllChosen
  <2> QED BY <1>1, <2>2, ChosenKept DEF Inv, TypeInv
<1>5. Followed'
  <2>1. ~behind' => \A q \in net : Reloads(q) \/ q.kind = "list" => \E p \in net' : Like(p, q)
    BY Alike DEF Reloads
  <2>2. \A q \in net' : q \in net
    OBVIOUS
  <2> QED BY <2>1, <2>2, Alike, FollowedKept DEF Inv
<1> QED BY <1>2, <1>3, <1>4, <1>5 DEF Inv

LEMMA NotLoads ==
    ASSUME TypeInv, NEW M, M \subseteq net
    PROVE  Requests(M) /\ From(M, net)
BY Alike DEF TypeInv, Requests, From

LEMMA NoDialogOK ==
    ASSUME dialog' = NoDialog
    PROVE  DialogOK' /\ AllChosen(dialog.list, page.tool)'
BY RowTypes DEF DialogOK, NoDialog, EmptyList, NoRow, Names, AllChosen

LEMMA SameDialogOK ==
    ASSUME Inv, UNCHANGED <<dialog, welcome, moved>>
    PROVE  /\ DialogOK' /\ (page.tool \in Tools \/ dialog' = NoDialog)
           /\ ~moved /\ page.tool \in Tools /\ page'.tool = page.tool => AllChosen(dialog.list, page.tool)'
<1>1. DialogOK'
  BY TypeParts DEF Inv, DialogOK
<1>2. page.tool \in Tools \/ dialog' = NoDialog
  BY DEF Inv, TypeInv, TypeOK, Elsewhere
<1>3. ~moved /\ page.tool \in Tools /\ page'.tool = page.tool => AllChosen(dialog.list, page.tool)'
  BY ConstantsOK DEF Inv, Chosen, AllChosen, ConstantsOK
<1> QED BY <1>1, <1>2, <1>3

LEMMA RefreshTool ==
    ASSUME TypeInv, NEW N, Refresh(N)
    PROVE  page'.tool = page.tool
BY DEF TypeInv, Shapes, Refresh, Emptied

LEMMA InvRemoved ==
    ASSUME Inv, NEW r \in net, Removed(r)
    PROVE  Inv'
<1>1. PICK N : N = net \ {r}
  OBVIOUS
<1>2. /\ r.kind = "remove" /\ Refresh(N) /\ behind' = (behind \/ Crossing)
      /\ UNCHANGED <<members, asked, dialog, promised, lost, welcome, moved>>
  BY <1>1 DEF Removed, Take
<1>3. Requests(N) /\ From(N, net) /\ page'.tool = page.tool
  BY <1>1, <1>2, NotLoads, RefreshTool DEF Inv
<1>4. \A q \in net : q.kind \in {"grant", "make"} /\ q.tool \in Others => \E p \in N : Like(p, q)
  BY <1>1, <1>2, Alike
<1>5. \A q \in N : q \in net
  BY <1>1
<1>6. /\ DialogOK' /\ (page.tool \in Tools \/ dialog' = NoDialog)
      /\ ~moved /\ page.tool \in Tools => AllChosen(dialog.list, page.tool)'
  BY <1>2, <1>3, SameDialogOK
<1> QED BY <1>2, <1>3, <1>4, <1>5, <1>6, RefreshingRest

LEMMA InvAdded ==
    ASSUME Inv, NEW r \in net, Added(r)
    PROVE  Inv'
<1> DEFINE closing == r.live \/ (r.kind = "invite" /\ dialog.kind = "invite")
<1>1. PICK M : M = net \ {r}
  OBVIOUS
<1>2. /\ r.kind \in {"add", "invite"}
      /\ UNCHANGED <<members, asked, promised, lost, welcome, moved>>
  BY DEF Added, Take
<1>3. \A q \in net : q.kind \in {"grant", "make"} /\ q.tool \in Others => q \in M
  BY <1>1, <1>2
<1>4. CASE Told(r)
  <2>1. PICK N : N = IF closing THEN Deaf(M, DialogKinds) ELSE M
    OBVIOUS
  <2>2. /\ Refresh(N) /\ behind' = (behind \/ Crossing)
        /\ dialog' = IF closing THEN NoDialog ELSE dialog
    BY <1>1, <1>4, <2>1 DEF Added
  <2>3. page'.tool = page.tool
    BY <2>2, RefreshTool DEF Inv
  <2>4. CASE closing
    <3>1. /\ From(N, net) /\ Requests(N)
          /\ \A q \in M : q.kind # "dialog" => \E p \in N : Like(p, q)
          /\ \A q \in N : q.kind \in {"list", "save", "make", "remove"} => q \in M
      BY <1>1, <2>1, <2>4, DialogDeaf DEF Inv
    <3>2. dialog' = NoDialog
      BY <2>2, <2>4
    <3>3. /\ \A q \in net : q.kind \in {"grant", "make"} /\ q.tool \in Others => \E p \in N : Like(p, q)
          /\ \A q \in N : q.kind \in {"list", "save", "make", "remove"} => q \in net
      BY <1>1, <1>3, <3>1
    <3> QED BY <1>2, <2>2, <3>1, <3>2, <3>3, NoDialogOK, RefreshingRest
  <2>5. CASE ~closing
    <3>1. N = M /\ dialog' = dialog
      BY <2>1, <2>2, <2>5
    <3>2. Requests(N) /\ From(N, net)
      BY <1>1, <3>1, NotLoads DEF Inv
    <3>3. /\ \A q \in net : q.kind \in {"grant", "make"} /\ q.tool \in Others => \E p \in N : Like(p, q)
          /\ \A q \in N : q \in net
      BY <1>1, <1>3, <3>1, Alike
    <3>4. /\ DialogOK' /\ (page.tool \in Tools \/ dialog' = NoDialog)
          /\ ~moved /\ page.tool \in Tools => AllChosen(dialog.list, page.tool)'
      BY <1>2, <2>3, <3>1, SameDialogOK
    <3> QED BY <1>2, <2>2, <3>1, <3>2, <3>3, <3>4, RefreshingRest
  <2> QED BY <2>4, <2>5
<1>5. CASE ~Told(r)
  <2>1. /\ net' = net \ {r} /\ behind' = (behind \/ r.tool = page.tool)
        /\ UNCHANGED <<page, dialog>>
    BY <1>5 DEF Added
  <2> QED BY <1>2, <2>1, Unnoticed
<1> QED BY <1>4, <1>5

LEMMA InvLevelsSaved ==
    ASSUME Inv, NEW r \in net, LevelsSaved(r)
    PROVE  Inv'
<1>1. PICK M : M = net \ {r}
  OBVIOUS
<1>2. /\ r.kind \in {"levels", "deny", "grant"} /\ r.tool \in Assessments
      /\ UNCHANGED <<members, asked, promised, lost, welcome, moved>>
  BY DEF LevelsSaved, Take
<1>3. \A q \in net : q.kind \in {"grant", "make"} /\ q.tool \in Others => q \in M
  BY <1>1, <1>2, ConstantsOK DEF ConstantsOK
<1>4. CASE r.live /\ r.kind = "levels"
  <2>1. PICK N : N = Deaf(M, DialogKinds)
    OBVIOUS
  <2>2. Refresh(N) /\ behind' = (behind \/ Crossing) /\ dialog' = NoDialog
    BY <1>1, <1>4, <2>1 DEF LevelsSaved
  <2>3. /\ From(N, net) /\ Requests(N)
        /\ \A q \in M : q.kind # "dialog" => \E p \in N : Like(p, q)
        /\ \A q \in N : q.kind \in {"list", "save", "make", "remove"} => q \in M
    BY <1>1, <2>1, DialogDeaf DEF Inv
  <2>4. /\ \A q \in net : q.kind \in {"grant", "make"} /\ q.tool \in Others => \E p \in N : Like(p, q)
        /\ \A q \in N : q.kind \in {"list", "save", "make", "remove"} => q \in net
    BY <1>1, <1>3, <2>3
  <2> QED BY <1>2, <2>2, <2>3, <2>4, NoDialogOK, RefreshingRest
<1>5. CASE r.live /\ r.kind # "levels"
  <2>1. PICK t \in Tools : t = page.tool /\ t = r.tool
    BY <1>2, <1>5 DEF Inv, TypeInv, Placed, DialogKinds, Tools
  <2>2. PICK D : D = Deaf(M, {"dialog"})
    OBVIOUS
  <2>3. PICK S : S = {Req("dialog", t)}
    OBVIOUS
  <2>4. PICK N : N = Sending(D, S)
    OBVIOUS
  <2>5. /\ Refresh(N) /\ behind' = (behind \/ Crossing)
        /\ dialog' = [dialog EXCEPT !.list = EmptyList, !.ticked = {}]
    BY <1>1, <1>5, <2>1, <2>2, <2>3, <2>4 DEF LevelsSaved
  <2>6. /\ Requests(S)
        /\ \A s \in S : s.kind = "dialog" /\ s.tool = t /\ s.list = EmptyList
    BY <2>3, NewLoad DEF Requests
  <2>7. /\ From(D, M) /\ Requests(D)
        /\ \A q \in D : q.kind \notin {"dialog"} => q \in M
        /\ \A q \in M : q.kind \notin {"dialog"} => q \in D
    BY <1>1, <2>2, NotLoads, DeafFrom DEF Inv
  <2>8. /\ From(N, D \cup S) /\ Requests(N) /\ D \subseteq N
        /\ \A q \in N : q \in D \/ \E s \in S : Like(q, s) /\ q.live = s.live
    BY <2>4, <2>6, <2>7, SendingFrom
  <2>9. From(N, net \cup S)
    BY <1>1, <2>7, <2>8 DEF From, Like
  <2>10. \A s \in S : Placed(s) /\ s.kind # "grant" /\ RequestChosen(s)
    <3>1. \A s \in S : Placed(s) /\ s.kind # "grant"
      BY <2>1, <2>6 DEF Placed
    <3>2. \A s \in S : RequestChosen(s)
      BY <2>6, EmptyChosen DEF RequestChosen
    <3> QED BY <3>1, <3>2
  <2>11. DialogOK' /\ AllChosen(dialog.list, page.tool)'
    <3>1. /\ dialog'.list = EmptyList /\ dialog'.ticked = {} /\ dialog'.kind = dialog.kind
          /\ DOMAIN dialog' = {"kind", "list", "ticked"}
      BY <2>5 DEF Inv, TypeInv, Shapes
    <3> QED BY <3>1, RowTypes DEF DialogOK, Inv, TypeInv, TypeOK, EmptyList, NoRow, Names, AllChosen
  <2>12. \A q \in net : q.kind \in {"grant", "make"} /\ q.tool \in Others => \E p \in N : Like(p, q)
    BY <1>3, <2>7, <2>8, Alike
  <2>13. \A q \in N : q.kind \in {"list", "save", "make", "remove"} => q \in net
    BY <1>1, <2>6, <2>7, <2>8 DEF Like
  <2> QED BY <1>2, <2>1, <2>5, <2>6, <2>8, <2>9, <2>10, <2>11, <2>12, <2>13, Refreshing
<1>6. CASE ~r.live
  <2>1. /\ net' = net \ {r} /\ behind' = (behind \/ r.tool = page.tool)
        /\ UNCHANGED <<page, dialog>>
    BY <1>6 DEF LevelsSaved
  <2> QED BY <1>2, <2>1, Unnoticed
<1> QED BY <1>4, <1>5, <1>6

\* What saving the permissions posts for a member of the list.
Post(kind, t, u, list, ticked) ==
    [About(kind, t, u, [list[u] EXCEPT !.roles = DetermineRoles(list[u])])
     EXCEPT !.list = list, !.ticked = ticked, !.live = FALSE]

LEMMA Posted ==
    ASSUME NEW t \in Tools, NEW list \in List, NEW ticked \in SUBSET Users, NEW u \in Users,
           NEW kind \in {"remove", "save"}
    PROVE  LET s == Post(kind, t, u, list, ticked)
           IN  /\ Request(s) /\ s.kind = kind /\ s.tool = t /\ s.user = u
               /\ s.list = list /\ s.ticked = ticked /\ ~s.live /\ s.status = "sent"
<1> DEFINE row == [list[u] EXCEPT !.roles = DetermineRoles(list[u])]
           q == About(kind, t, u, row)
<1>0. PICK s : s = Post(kind, t, u, list, ticked)
  OBVIOUS
<1>1. list[u] \in Row /\ row = list[u]
  BY DEF List, Row, DetermineRoles
<1>2. PICK r : r = Req(kind, t)
  OBVIOUS
<1>3. DOMAIN r = Fields /\ r.kind = kind /\ r.tool = t /\ r.status = "sent"
  BY <1>2 DEF Req, Fields
<1>4. q = [[r EXCEPT !.user = u] EXCEPT !.row = list[u]]
  BY <1>1, <1>2 DEF About
<1> HIDE DEF q
<1>5. s = [[[[[r EXCEPT !.user = u] EXCEPT !.row = list[u]] EXCEPT !.list = list]
              EXCEPT !.ticked = ticked] EXCEPT !.live = FALSE]
  BY <1>0, <1>4 DEF Post, q
<1>6. /\ DOMAIN s = Fields /\ s.kind = kind /\ s.tool = t /\ s.user = u /\ s.row = list[u]
      /\ s.list = list /\ s.ticked = ticked /\ s.live = FALSE /\ s.status = "sent"
  BY <1>3, <1>5 DEF Fields
<1>7. /\ s.kind \in Kinds /\ s.tool \in Tools /\ s.row \in Row /\ s.list \in List
      /\ s.ticked \subseteq Users /\ s.live \in BOOLEAN /\ s.status \in {"sent", "ok"}
      /\ s.kind \notin {"list", "dialog", "levels"} => s.user \in Users
      /\ s.kind = "save" => s.row = s.list[s.user]
  BY <1>1, <1>6 DEF Kinds
<1>8. Request(s) /\ ~s.live
  BY <1>6, <1>7 DEF Request, Fields
<1> QED BY <1>0, <1>6, <1>8

LEMMA InvSaveMembers ==
    ASSUME Inv, SaveMembers
    PROVE  Inv'
<1>1. PICK t \in Tools : t = page.tool
  BY DEF SaveMembers, Tools
<1>2. PICK list \in List, ticked \in SUBSET Users : list = dialog.list /\ ticked = dialog.ticked
  BY DEF Inv, TypeInv, TypeOK
<1> DEFINE kind(u) == IF list[u].roles = {} THEN "remove" ELSE "save"
           post(u) == Post(kind(u), t, u, list, ticked)
<1>3. PICK D : D = Deaf(net, DialogKinds)
  OBVIOUS
<1>4. PICK S : S = {post(u) : u \in {v \in Users : list[v].id # 0}}
  OBVIOUS
<1>5. PICK N : N = Sending(D, S)
  OBVIOUS
<1>6. /\ Refresh(N) /\ dialog' = NoDialog /\ behind'
      /\ UNCHANGED <<members, asked, promised, lost, welcome, moved>>
  BY <1>1, <1>2, <1>3, <1>4, <1>5 DEF SaveMembers, Post
<1>7. /\ From(D, net) /\ Requests(D)
      /\ \A r \in net : r.kind # "dialog" => \E q \in D : Like(q, r)
  BY <1>3, DialogDeaf DEF Inv
<1>8. \A s \in S : \E u \in Users :
         /\ Request(s) /\ s.kind \in {"remove", "save"} /\ s.tool = t /\ s.user = u /\ s.list = list /\ ~s.live
         /\ s.kind = "save" => list[u].roles # {}
  <2>1. ASSUME NEW u \in Users
        PROVE  /\ Request(post(u)) /\ post(u).kind = kind(u) /\ post(u).tool = t /\ post(u).user = u
               /\ post(u).list = list /\ ~post(u).live
    <3>1. PICK k \in {"remove", "save"} : k = kind(u)
      OBVIOUS
    <3>2. LET s == Post(k, t, u, list, ticked)
          IN  Request(s) /\ s.kind = k /\ s.tool = t /\ s.user = u /\ s.list = list /\ ~s.live
      BY Posted
    <3> HIDE DEF kind
    <3> QED BY <3>1, <3>2
  <2>2. \A s \in S : \E u \in Users : s = post(u)
    BY <1>4
  <2> HIDE DEF post
  <2> QED BY <2>1, <2>2
<1>9. Requests(S) /\ \A s \in S : s.kind # "grant" /\ Placed(s)
  BY <1>1, <1>8 DEF Requests, Placed
<1>10. ASSUME ~moved, NEW s \in S
       PROVE  RequestChosen(s)
  <2>1. AllChosen(list, t)
    BY <1>1, <1>2, <1>10, ConstantsOK DEF Inv, Chosen, ConstantsOK
  <2> QED BY <1>8, <2>1 DEF RequestChosen, AllChosen, Names
<1>11. /\ From(N, D \cup S) /\ Requests(N) /\ D \subseteq N
  BY <1>5, <1>7, <1>9, SendingFrom
<1>12. From(N, net \cup S)
  BY <1>7, <1>11 DEF From, Like
<1>13. \A r \in net : r.kind \in {"grant", "make"} /\ r.tool \in Others => \E q \in N : Like(q, r)
  BY <1>7, <1>11
<1>14. DialogOK' /\ AllChosen(dialog.list, page.tool)'
  BY <1>6, NoDialogOK
<1> QED BY <1>6, <1>9, <1>10, <1>11, <1>12, <1>13, <1>14, Refreshing

LEMMA InvGranted ==
    ASSUME Inv, NEW r \in net, Granted(r)
    PROVE  Inv'
<1>1. PICK t \in Targets : net' = IF t # None
                                  THEN Sending(net \ {r}, {About("make", t, r.user, r.row)})
                                  ELSE net \ {r}
  BY DEF Granted
<1>2. /\ r.kind = "grant" /\ r.tool \in Others /\ r.status = "ok" /\ behind'
      /\ UNCHANGED <<members, asked, page, dialog, promised, lost, welcome, moved>>
  BY DEF Granted, Take
<1>3. Request(r) /\ r.user \in Users /\ r.row \in Row
  BY <1>2 DEF Inv, TypeInv, Request
<1>4. /\ page.tool \in Tools \cup {None}
      /\ t # None => t \in Tools
      /\ page.tool \in Others => t = page.tool
  BY ConstantsOK DEF Inv, TypeInv, TypeOK, Targets, ConstantsOK, Tools
<1>5. PICK M : M = net \ {r}
  OBVIOUS
<1>6. PICK S : S = IF t # None THEN {About("make", t, r.user, r.row)} ELSE {}
  OBVIOUS
<1>7. /\ Requests(S)
      /\ \A s \in S : s.kind = "make" /\ s.tool = t /\ s.user = r.user /\ s.list = EmptyList
      /\ t # None => \E s \in S : TRUE
  BY <1>3, <1>4, <1>6, NewWrite DEF Requests, Kinds
<1>8. Requests(M) /\ From(M, net)
  BY <1>5, NotLoads DEF Inv
<1>9. /\ From(net', M \cup S) /\ M \subseteq net' /\ Still(net', S)
  <2>1. CASE t # None
    <3>1. net' = Sending(M, S)
      BY <1>1, <1>5, <1>6, <2>1
    <3> QED BY <1>7, <1>8, <3>1, SendingFrom
  <2>2. CASE t = None
    <3>1. net' = M /\ S = {}
      BY <1>1, <1>5, <1>6, <2>2
    <3> QED BY <1>8, <3>1, Alike DEF From, Still, Requests
  <2> QED BY <2>1, <2>2
<1>10. Sends(S)
  <2>1. From(net', net \cup S)
    BY <1>8, <1>9 DEF From, Like
  <2>2. \A s \in S : Placed(s)
    BY <1>7 DEF Placed, DialogKinds
  <2> QED BY <1>7, <2>1, <2>2 DEF Sends
<1>11. TypeInv'
  <2>1. PageOK' /\ DialogOK' /\ ServerOK' /\ Elsewhere' /\ welcome' \in [Tools -> SUBSET Users]
    BY <1>2, TypeParts DEF Inv, PageOK, DialogOK, ServerOK, Elsewhere
  <2> QED BY <1>2, <1>10, <2>1, TypesKept DEF Inv
<1>12. Promises'
  <2> SUFFICES ASSUME ~moved'
               PROVE  Granting' /\ \A p \in promised \ lost : \E q \in net' : Keeps(q, p)
    BY <1>2 DEF Promises, Keeps
  <2>1. Granting /\ \A p \in promised \ lost : \E q \in net : Keeps(q, p)
    BY <1>2 DEF Inv, Promises
  <2>2. t = r.tool
    BY <1>2, <1>4, <2>1 DEF Granting
  <2>3. t # None
    BY <1>2, <2>2, ConstantsOK DEF ConstantsOK, Tools
  <2>4. Granting'
    BY <1>2, <1>7, <1>10, <2>1 DEF Sends, From, Granting, Like
  <2>5. ASSUME NEW p \in promised \ lost
        PROVE  \E q \in net' : Keeps(q, p)
    <3>1. PICK o \in net : Keeps(o, p)
      BY <2>1
    <3>2. CASE o # r
      BY <1>5, <1>9, <3>1, <3>2
    <3>3. CASE o = r
      <4>1. PICK s \in S : TRUE
        BY <1>7, <2>3
      <4>2. PICK q \in net' : Like(q, s)
        BY <1>9, <4>1 DEF Still
      <4>3. Keeps(q, p)
        BY <1>7, <2>2, <3>1, <3>3, <4>1, <4>2 DEF Keeps, Like
      <4> QED BY <4>3
    <3> QED BY <3>2, <3>3
  <2> QED BY <2>4, <2>5
<1>13. Chosen'
  <2>1. page.tool # None => page.tool \in Tools
    BY DEF Inv, TypeInv, TypeOK
  <2>2. ~moved /\ page.tool # None => AllChosen(dialog.list, page.tool)'
    BY <1>2, <2>1 DEF Inv, Chosen, AllChosen
  <2>3. ASSUME ~moved, NEW s \in S
        PROVE  RequestChosen(s)'
    <3>1. r.tool = page.tool /\ r.user \in welcome[r.tool]
      BY <1>2, <2>3 DEF Inv, Promises, Granting, Chosen, RequestChosen
    <3>2. s.tool = r.tool /\ s.user = r.user /\ s.list = EmptyList
      BY <1>2, <1>4, <1>7, <3>1
    <3> QED BY <1>2, <3>1, <3>2 DEF RequestChosen, AllChosen, Names, EmptyList, NoRow
  <2> QED BY <1>2, <1>10, <2>2, <2>3, ChosenKept DEF Inv, TypeInv
<1>14. Followed'
  BY <1>2 DEF Followed
<1> QED BY <1>11, <1>12, <1>13, <1>14 DEF Inv

---------------------------------------------------------------------------
(* The server.                                                             *)

LEMMA ChangedRow ==
    ASSUME NEW t, NEW old \in Row, NEW roles \in SUBSET Roles
    PROVE  /\ Changed(t, old, roles) \in Row /\ Changed(t, old, roles).roles = roles
           /\ roles = old.roles => Changed(t, old, roles) = old
           /\ Changed(t, old, roles).id # 0 => roles # {} \/ old.id # 0
<1>1. old.id \in Nat /\ old.roles \in SUBSET Roles /\ old = [roles |-> old.roles, id |-> old.id]
  BY DEF Row
<1>2. Born(t, old, roles) => roles # {} /\ roles # old.roles
  BY DEF Born
<1>3. PICK id : id = IF Born(t, old, roles) THEN old.id + 1 ELSE old.id
  OBVIOUS
<1>4. id \in Nat /\ (id # 0 => roles # {} \/ old.id # 0) /\ (roles = old.roles => id = old.id)
  BY <1>1, <1>2, <1>3
<1>5. Changed(t, old, roles) = [roles |-> roles, id |-> id]
  BY <1>3 DEF Changed
<1>6. Changed(t, old, roles).id = id
  BY <1>5
<1>7. Changed(t, old, roles) \in Row /\ Changed(t, old, roles).roles = roles
  BY <1>4, <1>5 DEF Row
<1>8. roles = old.roles => Changed(t, old, roles) = old
  BY <1>1, <1>4, <1>5
<1> QED BY <1>4, <1>6, <1>7, <1>8

LEMMA RolesTypes ==
    ASSUME TypeInv, NEW r \in net, NEW u \in Users
    PROVE  /\ NewRoles(r, u) \in SUBSET Roles
           /\ r.tool \in Tools /\ members[r.tool][u] \in Row
<1>1. /\ r.tool \in Tools /\ r.row \in Row /\ r.list \in List
      /\ members[r.tool] \in List /\ asked[r.tool][u] \in SUBSET Roles
  <2>1. r.tool \in Tools /\ r.row \in Row /\ r.list \in List
    BY DEF TypeInv, Request
  <2> QED BY <2>1 DEF TypeInv, TypeOK
<1>2. /\ members[r.tool][u].roles \in SUBSET Roles /\ r.row.roles \in SUBSET Roles
      /\ r.list[u].roles \in SUBSET Roles /\ members[r.tool][u] \in Row
  BY <1>1 DEF List, Row
<1>3. Level(u, members[r.tool][u], r.list[u]) \in SUBSET Roles
  BY <1>2 DEF Level, Roles
<1>9. Invited(r, members[r.tool][u]) \in SUBSET Roles
  BY <1>2 DEF Invited, Roles
<1> HIDE DEF Roles
<1>4. NewRoles(r, u) \in SUBSET Roles
  BY <1>1, <1>2, <1>3, <1>9 DEF NewRoles
<1> QED BY <1>1, <1>2, <1>4

LEMMA Effects ==
    ASSUME TypeInv, NEW r \in net, Effect(r)
    PROVE  /\ members' \in [Tools -> List]
           /\ \A t \in Tools \ {r.tool} : members'[t] = members[t]
           /\ \A u \in Users :
                members'[r.tool][u] = Changed(r.tool, members[r.tool][u], NewRoles(r, u))
           /\ \A u \in Users :
                NewRoles(r, u) = members[r.tool][u].roles => members'[r.tool][u] = members[r.tool][u]
<1>1. r.tool \in Tools /\ members \in [Tools -> List]
  BY DEF TypeInv, TypeOK, Request
<1>2. PICK list : list = [u \in Users |-> Changed(r.tool, members[r.tool][u], NewRoles(r, u))]
  OBVIOUS
<1>3. members' = [members EXCEPT ![r.tool] = list]
  BY <1>2 DEF Effect
<1>4. \A u \in Users : Changed(r.tool, members[r.tool][u], NewRoles(r, u)) \in Row
  <2> SUFFICES ASSUME NEW u \in Users
               PROVE  Changed(r.tool, members[r.tool][u], NewRoles(r, u)) \in Row
    OBVIOUS
  <2>1. NewRoles(r, u) \in SUBSET Roles /\ members[r.tool][u] \in Row
    BY RolesTypes
  <2> QED BY <2>1, ChangedRow
<1>5. list \in List
  BY <1>2, <1>4 DEF List
<1>6. \A u \in Users : NewRoles(r, u) = members[r.tool][u].roles =>
         Changed(r.tool, members[r.tool][u], NewRoles(r, u)) = members[r.tool][u]
  <2> SUFFICES ASSUME NEW u \in Users, NewRoles(r, u) = members[r.tool][u].roles
               PROVE  Changed(r.tool, members[r.tool][u], NewRoles(r, u)) = members[r.tool][u]
    OBVIOUS
  <2>1. NewRoles(r, u) \in SUBSET Roles /\ members[r.tool][u] \in Row
    BY RolesTypes
  <2> QED BY <2>1, ChangedRow
<1>7. /\ members' \in [Tools -> List] /\ members'[r.tool] = list
      /\ \A t \in Tools \ {r.tool} : members'[t] = members[t]
  BY <1>1, <1>3, <1>5
<1>8. \A u \in Users : members'[r.tool][u] = Changed(r.tool, members[r.tool][u], NewRoles(r, u))
  BY <1>2, <1>7
<1> QED BY <1>6, <1>7, <1>8

LEMMA AnswerIs ==
    ASSUME TypeInv, NEW r \in net, r.kind \notin {"save", "make"}
    PROVE  LET a == Answer(r)
           IN  /\ Request(a) /\ a.kind = r.kind /\ a.tool = r.tool /\ a.user = r.user
               /\ a.live = r.live /\ a.status = "ok"
               /\ a.list = CASE r.kind = "list" -> Participants(r.tool)
                             [] r.kind = "dialog" -> members[r.tool]
                             [] OTHER -> EmptyList
<1>1. Request(r)
  BY DEF TypeInv
<1>2. PICK list : list = CASE r.kind = "list" -> Participants(r.tool)
                           [] r.kind = "dialog" -> members[r.tool]
                           [] OTHER -> EmptyList
  OBVIOUS
<1>3. list \in List
  <2>1. members[r.tool] \in List
    BY <1>1 DEF TypeInv, TypeOK, Request
  <2>2. Participants(r.tool) \in List
    BY <2>1, RowTypes DEF Participants, List
  <2> QED BY <1>2, <2>1, <2>2, RowTypes
<1>4. PICK roles : roles = IF r.kind = "grant" THEN asked[r.tool][r.user] ELSE r.row.roles
  OBVIOUS
<1>5. roles \in SUBSET Roles
  BY <1>1, <1>4 DEF TypeInv, TypeOK, Request, Row
<1>6. PICK row : row = [r.row EXCEPT !.roles = roles]
  OBVIOUS
<1>7. row \in Row
  BY <1>1, <1>5, <1>6 DEF Request, Row
<1>8. PICK a : a = Answer(r)
  OBVIOUS
<1>9. a = [[[r EXCEPT !.status = "ok"] EXCEPT !.list = list] EXCEPT !.row = row]
  BY <1>1, <1>2, <1>4, <1>6, <1>8 DEF Answer, Request
<1>10. /\ DOMAIN a = DOMAIN r /\ a.kind = r.kind /\ a.tool = r.tool /\ a.user = r.user
       /\ a.row = row /\ a.list = list /\ a.ticked = r.ticked /\ a.live = r.live /\ a.status = "ok"
  BY <1>1, <1>9 DEF Request
<1>11. Request(a)
  BY <1>1, <1>3, <1>7, <1>10 DEF Request
<1> QED BY <1>2, <1>8, <1>10, <1>11

\* Who does not hear of it keeps its request.
LEMMA Served ==
    ASSUME Inv, NEW r \in net, Serve(r)
    PROVE  \E S : /\ net' = (net \ {r}) \cup S /\ Sends(S)
                  /\ \A a \in S : /\ Request(a) /\ a.kind = r.kind /\ a.tool = r.tool /\ a.user = r.user
                                  /\ a.live = r.live /\ a.status = "ok" /\ ~Unheard(r)
                                  /\ r.kind = "list" => a.list = Participants(r.tool)
                                  /\ r.kind = "dialog" => a.list = members[r.tool]
                                  /\ r.kind \notin Loading => a.list = EmptyList
                  /\ ~Unheard(r) => \E a \in S : TRUE
<1>1. PICK S : S = {q \in {Answer(r)} : ~Unheard(r)}
  OBVIOUS
<1>2. net' = (net \ {r}) \cup S
  BY <1>1 DEF Serve
<1>3. ~Unheard(r) => r.kind \notin {"save", "make"} /\ \E a \in S : TRUE
  BY <1>1 DEF Unheard
<1>4. ASSUME NEW a \in S
      PROVE  /\ Request(a) /\ a.kind = r.kind /\ a.tool = r.tool /\ a.user = r.user
             /\ a.live = r.live /\ a.status = "ok" /\ ~Unheard(r)
             /\ r.kind = "list" => a.list = Participants(r.tool)
             /\ r.kind = "dialog" => a.list = members[r.tool]
             /\ r.kind \notin Loading => a.list = EmptyList
  <2>1. a = Answer(r) /\ ~Unheard(r)
    BY <1>1, <1>4
  <2>2. r.kind \notin {"save", "make"}
    BY <1>3, <2>1
  <2>3. /\ Request(a) /\ a.kind = r.kind /\ a.tool = r.tool /\ a.user = r.user
        /\ a.live = r.live /\ a.status = "ok"
        /\ a.list = CASE r.kind = "list" -> Participants(r.tool)
                      [] r.kind = "dialog" -> members[r.tool]
                      [] OTHER -> EmptyList
    BY <2>1, <2>2, AnswerIs DEF Inv
  <2> QED BY <2>1, <2>3 DEF Loading
<1>5. Placed(r) /\ Requests(net)
  BY DEF Inv, TypeInv, Requests
<1>6. Sends(S)
  <2>1. Requests(S) /\ \A s \in S : Placed(s)
    BY <1>4, <1>5 DEF Requests, Placed
  <2>2. From(net', net \cup S)
    BY <1>2, <1>5, <2>1, Alike DEF From, Requests
  <2> QED BY <2>1, <2>2 DEF Sends
<1> QED BY <1>2, <1>3, <1>4, <1>6

LEMMA EffectTypes ==
    ASSUME Inv, NEW r \in net, Effect(r), UNCHANGED <<page, dialog, welcome>>,
           lost' \subseteq Others \X Users, NEW S, Sends(S)
    PROVE  TypeInv'
<1>1. Sends(S)
  OBVIOUS
<1>2. Effect(r) /\ UNCHANGED <<page, dialog, welcome>>
  OBVIOUS
<1>3. PageOK' /\ DialogOK' /\ Elsewhere' /\ welcome' \in [Tools -> SUBSET Users]
  BY <1>2, TypeParts DEF Inv, PageOK, DialogOK, Elsewhere
<1>4. Request(r)
  BY DEF Inv, TypeInv
<1>5. members' \in [Tools -> List]
  BY <1>2, Effects DEF Inv
<1>6. asked' \in [Tools -> [Users -> SUBSET Roles]]
  <2>1. asked \in [Tools -> [Users -> SUBSET Roles]]
    BY DEF Inv, TypeInv, TypeOK
  <2>2. CASE r.kind \in {"deny", "grant"}
    <3>1. asked' = [asked EXCEPT ![r.tool][r.user] = {}]
      BY <1>2, <2>2 DEF Effect
    <3>2. r.tool \in Tools /\ r.user \in Users
      BY <1>4, <2>2 DEF Request
    <3> QED BY <2>1, <3>1, <3>2
  <2>3. CASE r.kind \notin {"deny", "grant"}
    BY <1>2, <2>1, <2>3 DEF Effect
  <2> QED BY <2>2, <2>3
<1>7. promised' \subseteq Others \X Users
  <2>1. promised \subseteq Others \X Users
    BY DEF Inv, TypeInv, TypeOK
  <2>2. CASE r.kind = "grant" /\ r.tool \in Others
    <3>1. promised' = promised \cup {<<r.tool, r.user>>}
      BY <1>2, <2>2 DEF Effect
    <3>2. r.user \in Users
      BY <1>4, <2>2 DEF Request
    <3> QED BY <2>1, <2>2, <3>1, <3>2
  <2>3. CASE ~(r.kind = "grant" /\ r.tool \in Others)
    <3>1. promised' \subseteq promised
      BY <1>2, <2>3 DEF Effect
    <3> QED BY <2>1, <3>1
  <2> QED BY <2>2, <2>3
<1>8. ServerOK'
  BY <1>5, <1>6, <1>7 DEF ServerOK
<1> QED BY <1>1, <1>2, <1>3, <1>8, TypesKept DEF Inv

LEMMA ServeTypes ==
    ASSUME Inv, NEW r \in net, Serve(r)
    PROVE  TypeInv'
<1>1. PICK S : Sends(S)
  BY Served
<1>2. Effect(r) /\ UNCHANGED <<page, dialog, welcome, lost>>
  BY DEF Serve
<1>3. lost' \subseteq Others \X Users
  BY <1>2 DEF Inv, TypeInv, TypeOK
<1> QED BY <1>1, <1>2, <1>3, EffectTypes

LEMMA ServePromises ==
    ASSUME Inv, NEW r \in net, Serve(r)
    PROVE  Promises'
<1>1. PICK S : /\ net' = (net \ {r}) \cup S
               /\ \A a \in S : a.kind = r.kind /\ a.tool = r.tool /\ a.user = r.user /\ a.status = "ok"
               /\ ~Unheard(r) => \E a \in S : TRUE
  BY Served
<1>2. /\ UNCHANGED <<page, lost, moved>> /\ r.status = "sent"
      /\ promised' = CASE r.kind = "grant" /\ r.tool \in Others -> promised \cup {<<r.tool, r.user>>}
                       [] r.kind = "make" -> promised \ {<<r.tool, r.user>>}
                       [] OTHER -> promised
  BY DEF Serve, Effect
<1> SUFFICES ASSUME ~moved
             PROVE  Granting' /\ \A p \in (promised \ lost)' : \E q \in net' : Keeps(q, p)
  BY <1>2 DEF Promises, Keeps
<1>3. Granting /\ \A p \in promised \ lost : \E q \in net : Keeps(q, p)
  BY DEF Inv, Promises
<1>4. Granting'
  BY <1>1, <1>2, <1>3 DEF Granting
<1>5. ASSUME NEW p \in (promised \ lost)'
      PROVE  \E q \in net' : Keeps(q, p)
  <2>1. CASE p \in promised
    <3>1. PICK o \in net : Keeps(o, p)
      BY <1>2, <1>3, <1>5, <2>1
    <3>2. o # r
      <4>1. SUFFICES ASSUME o = r
                     PROVE  FALSE
        OBVIOUS
      <4>2. r.kind = "make" /\ p = <<r.tool, r.user>>
        BY <1>2, <3>1, <4>1 DEF Keeps
      <4>3. promised' = promised \ {<<r.tool, r.user>>}
        BY <1>2, <4>2
      <4> QED BY <1>5, <4>2, <4>3
    <3> QED BY <1>1, <3>1, <3>2
  <2>2. CASE p \notin promised
    <3>1. r.kind = "grant" /\ r.tool \in Others
      BY <1>2, <1>5, <2>2
    <3>2. p = <<r.tool, r.user>>
      BY <1>2, <1>5, <2>2, <3>1
    <3>3. ~Unheard(r)
      BY <3>1 DEF Unheard
    <3>4. PICK a \in S : TRUE
      BY <1>1, <3>3
    <3>5. Keeps(a, p)
      BY <1>1, <3>1, <3>2, <3>4 DEF Keeps
    <3> QED BY <1>1, <3>4, <3>5
  <2> QED BY <2>1, <2>2
<1> QED BY <1>4, <1>5

\* Whom a request makes a member was chosen.
LEMMA NewlyNamed ==
    ASSUME Inv, ~moved, NEW r \in net, NEW u \in Users,
           NewRoles(r, u) # {}, members[r.tool][u].roles = {}
    PROVE  u \in welcome[r.tool]
<1>1. RequestChosen(r)
  BY DEF Inv, Chosen
<1>2. PICK t \in Tools : t = r.tool
  BY DEF Inv, TypeInv, Request
<1>3. PICK old : old = members[t][u] /\ old.roles = {}
  BY <1>2
<1>4. CASE r.kind \in {"add", "save", "make"} /\ r.user = u
  BY <1>1, <1>4 DEF RequestChosen
<1>5. CASE r.kind = "invite" /\ r.user = u
  BY <1>1, <1>5 DEF RequestChosen
<1>6. CASE r.kind = "levels" /\ r.list[u].roles # {}
  BY <1>1, <1>6 DEF RequestChosen, AllChosen, Names
<1>7. CASE Grants(r, u)
  BY <1>1, <1>7 DEF RequestChosen, Grants
<1>8. CASE /\ ~(r.kind \in {"add", "save", "make"} /\ r.user = u)
           /\ ~(r.kind = "invite" /\ r.user = u)
           /\ ~(r.kind = "levels" /\ r.list[u].roles # {}) /\ ~Grants(r, u)
  <2>1. NewRoles(r, u) \in {{}, old.roles, old.roles \ {"participant"}}
    BY <1>2, <1>3, <1>8 DEF NewRoles
  <2> QED BY <1>3, <2>1
<1> QED BY <1>4, <1>5, <1>6, <1>7, <1>8

\* Nor does a write name anybody else.
LEMMA EffectChosen ==
    ASSUME Inv, ~moved, NEW r \in net, Effect(r), welcome' = welcome
    PROVE  \A t \in Tools : AllChosen(members[t], t)'
<1>2. Effect(r) /\ welcome' = welcome
  OBVIOUS
<1>3. \A t \in Tools : AllChosen(members[t], t)
  BY DEF Inv, Chosen
<1>4. ASSUME NEW t \in Tools
      PROVE  AllChosen(members[t], t)'
  <2>1. CASE t # r.tool
    <3>1. members'[t] = members[t]
      BY <1>2, <2>1, Effects DEF Inv
    <3> QED BY <1>2, <1>3, <3>1 DEF AllChosen
  <2>2. CASE t = r.tool
    <3>1. ASSUME NEW u \in Users, Names(members'[t], u)
          PROVE  u \in welcome[t]
      <4>1. members'[t][u] = Changed(t, members[t][u], NewRoles(r, u))
        BY <1>2, <2>2, Effects DEF Inv
      <4>2. NewRoles(r, u) \in SUBSET Roles /\ members[t][u] \in Row
        BY <2>2, RolesTypes DEF Inv
      <4>3. NewRoles(r, u) # {} \/ members[t][u].id # 0
        BY <3>1, <4>1, <4>2, ChangedRow DEF Names
      <4>4. CASE Names(members[t], u)
        BY <1>3, <4>4 DEF AllChosen
      <4>5. CASE ~Names(members[t], u)
        BY <2>2, <4>3, <4>5, NewlyNamed DEF Names
      <4> QED BY <4>4, <4>5
    <3> QED BY <1>2, <3>1 DEF AllChosen
  <2> QED BY <2>1, <2>2
<1> QED BY <1>4

LEMMA ServeChosen ==
    ASSUME Inv, NEW r \in net, Serve(r)
    PROVE  Chosen'
<1>1. PICK S : /\ net' = (net \ {r}) \cup S
               /\ \A a \in S : /\ Request(a) /\ a.kind = r.kind /\ a.tool = r.tool /\ a.user = r.user
                               /\ r.kind = "list" => a.list = Participants(r.tool)
                               /\ r.kind = "dialog" => a.list = members[r.tool]
                               /\ r.kind \notin Loading => a.list = EmptyList
  BY Served
<1>2. Effect(r) /\ UNCHANGED <<page, dialog, welcome, moved>>
  BY DEF Serve
<1> SUFFICES ASSUME ~moved
             PROVE  /\ \A t \in Tools : AllChosen(members[t], t)'
                    /\ page.tool # None => AllChosen(dialog.list, page.tool)'
                    /\ \A q \in net' : RequestChosen(q)'
  BY <1>2 DEF Chosen
<1>3. /\ \A t \in Tools : AllChosen(members[t], t)
      /\ page.tool # None => AllChosen(dialog.list, page.tool)
      /\ \A q \in net : RequestChosen(q)
  BY DEF Inv, Chosen
<1>4. \A t \in Tools : AllChosen(members[t], t)'
  BY <1>2, EffectChosen
<1>5. page.tool # None => AllChosen(dialog.list, page.tool)'
  BY <1>2, <1>3 DEF AllChosen
<1>6. ASSUME NEW q \in net'
      PROVE  RequestChosen(q)'
  <2>1. CASE q \in net
    BY <1>2, <1>3, <2>1 DEF RequestChosen, AllChosen
  <2>2. CASE q \in S
    <3>1. RequestChosen(r) /\ r.tool \in Tools
      BY <1>3 DEF Inv, TypeInv, Request
    <3>2. AllChosen(q.list, r.tool)
      <4>1. CASE r.kind = "list"
        <5>1. \A u \in Users : Names(q.list, u) => Names(members[r.tool], u)
          <6>1. q.list = Participants(r.tool)
            BY <1>1, <2>2, <4>1
          <6>2. \A u \in Users : q.list[u] = members[r.tool][u] \/ q.list[u] = NoRow
            BY <6>1 DEF Participants
          <6>3. NoRow.roles = {} /\ NoRow.id = 0
            BY DEF NoRow
          <6> QED BY <6>2, <6>3 DEF Names
        <5> QED BY <1>3, <3>1, <5>1 DEF AllChosen
      <4>2. CASE r.kind = "dialog"
        BY <1>1, <1>3, <2>2, <3>1, <4>2
      <4>3. CASE r.kind \notin Loading
        BY <1>1, <2>2, <4>3, EmptyChosen
      <4> QED BY <4>1, <4>2, <4>3 DEF Loading
    <3> QED BY <1>1, <1>2, <2>2, <3>1, <3>2 DEF RequestChosen, AllChosen
  <2> QED BY <1>1, <2>1, <2>2
<1> QED BY <1>4, <1>5, <1>6

\* What a request that is not heard of, or a load, does not change.
LEMMA NothingNew ==
    ASSUME NEW r, NEW u,
           r.kind \in Loading \/ (r.kind = "deny" /\ r.tool \in Others)
    PROVE  NewRoles(r, u) = members[r.tool][u].roles
<1>1. ~Grants(r, u) /\ r.kind \notin {"add", "save", "make", "invite", "remove", "levels"}
  BY DEF Loading, Grants
<1> QED BY <1>1 DEF NewRoles

LEMMA ServeFollowed ==
    ASSUME Inv, NEW r \in net, Serve(r)
    PROVE  Followed'
<1>1. PICK S : /\ net' = (net \ {r}) \cup S
               /\ \A a \in S : /\ a.kind = r.kind /\ a.tool = r.tool /\ a.status = "ok"
                               /\ a.live = r.live /\ ~Unheard(r)
                               /\ r.kind = "list" => a.list = Participants(r.tool)
               /\ ~Unheard(r) => \E a \in S : TRUE
  BY Served
<1>2. Effect(r) /\ UNCHANGED <<page, behind>> /\ r.status = "sent" /\ Request(r) /\ Placed(r)
  BY DEF Serve, Inv, TypeInv
<1> SUFFICES ASSUME page.tool # None, ~behind
             PROVE  /\ \A q \in net' : ~Unseen(q)'
                    /\ \/ \E q \in net' : Reloads(q)'
                       \/ /\ \A q \in net' : q.kind = "list" /\ q.status = "ok" => Shows(q.list)'
                          /\ Shows(page.shown)' \/ \E q \in net' : q.kind = "list"
  BY <1>2 DEF Followed
<1>3. /\ \A q \in net : ~Unseen(q)
      /\ \/ \E q \in net : Reloads(q)
         \/ /\ \A q \in net : q.kind = "list" /\ q.status = "ok" => Shows(q.list)
            /\ Shows(page.shown) \/ \E q \in net : q.kind = "list"
  BY DEF Inv, Followed
<1>4. \A q : (Unseen(q)' <=> Unseen(q)) /\ (Reloads(q)' <=> Reloads(q))
  BY <1>2 DEF Unseen, Reloads
<1>5. \A q \in net' : ~Unseen(q)'
  BY <1>1, <1>3, <1>4 DEF Unseen
<1>6. \A q \in net : Reloads(q) => q \in net'
  BY <1>1, <1>2 DEF Reloads
<1>7. CASE \E q \in net' : Reloads(q)
  BY <1>4, <1>5, <1>7
<1>8. CASE \A q \in net' : ~Reloads(q)
  <2>1. /\ \A q \in net : q.kind = "list" /\ q.status = "ok" => Shows(q.list)
        /\ Shows(page.shown) \/ \E q \in net : q.kind = "list"
    BY <1>3, <1>6, <1>8
  <2>2. \A u \in Users : members'[page.tool][u] = members[page.tool][u]
    <3>1. CASE r.tool # page.tool
      <4>1. page.tool \in Tools
        BY DEF Inv, TypeInv, TypeOK
      <4> QED BY <1>2, <3>1, <4>1, Effects DEF Inv
    <3>2. CASE r.tool = page.tool
      <4>1. r.kind \in Loading \/ (r.kind = "deny" /\ r.tool \in Others)
        <5>1. CASE Unheard(r)
          <6>1. ~Unseen(r)
            BY <1>3
          <6> QED BY <3>2, <5>1, <6>1 DEF Unheard, Unseen
        <5>2. CASE ~Unheard(r)
          <6>1. PICK a \in S : TRUE
            BY <1>1, <5>2
          <6>2. a \in net' /\ ~Reloads(a)
            BY <1>1, <1>8, <6>1
          <6>3. a.kind = r.kind /\ a.tool = page.tool /\ a.status = "ok"
            BY <1>1, <3>2, <6>1
          <6>4. r.kind \notin {"save", "make"}
            BY <5>2 DEF Unheard
          <6>5. r.kind \notin {"add", "invite", "remove", "levels", "deny", "grant"}
            BY <6>2, <6>3 DEF Reloads
          <6> QED BY <1>2, <6>4, <6>5 DEF Request, Kinds, Loading
        <5> QED BY <5>1, <5>2
      <4>2. \A u \in Users : NewRoles(r, u) = members[r.tool][u].roles
        BY <4>1, NothingNew
      <4> QED BY <1>2, <3>2, <4>2, Effects DEF Inv
    <3> QED BY <3>1, <3>2
  <2>3. \A list : Shows(list) => Shows(list)'
    BY <1>2, <2>2 DEF Shows, Participants, NoRow
  <2>4. ASSUME NEW q \in net', q.kind = "list", q.status = "ok"
        PROVE  Shows(q.list)'
    <3>1. CASE q \in net
      BY <2>1, <2>3, <2>4, <3>1
    <3>2. CASE q \in S
      <4>1. q.list = Participants(page.tool)
        BY <1>1, <1>2, <2>4, <3>2 DEF Placed
      <4> QED BY <2>3, <4>1 DEF Shows
    <3> QED BY <1>1, <3>1, <3>2
  <2>5. Shows(page.shown) => Shows(page.shown)'
    BY <1>2, <2>2 DEF Shows, Participants, NoRow
  <2>6. (\E q \in net : q.kind = "list") => \E q \in net' : q.kind = "list"
    <3>1. ASSUME r.kind = "list"
          PROVE  \E q \in net' : q.kind = "list"
      <4>1. ~Unheard(r)
        BY <3>1 DEF Unheard
      <4> QED BY <1>1, <3>1, <4>1
    <3> QED BY <1>1, <3>1
  <2> QED BY <1>5, <2>1, <2>4, <2>5, <2>6
<1> QED BY <1>7, <1>8

LEMMA InvServe ==
    ASSUME Inv, NEW r \in net, Serve(r)
    PROVE  Inv'
BY ServeTypes, ServePromises, ServeChosen, ServeFollowed DEF Inv

LEMMA InvUnserved ==
    ASSUME Inv, NEW r \in net, Fail(r), Unserved(r)
    PROVE  Inv'
<1>1. /\ net' = net \ {r} /\ behind' = (behind \/ r.kind = "list") /\ r.status = "sent"
      /\ promised' = IF r.kind = "make" THEN promised \ {<<r.tool, r.user>>} ELSE promised
      /\ UNCHANGED <<members, asked, page, dialog, lost, welcome, moved>>
  BY DEF Fail, Unserved
<1>2. Sends({})
  BY <1>1, SendsNone DEF Inv
<1>3. TypeInv'
  <2>1. PageOK' /\ DialogOK' /\ ServerOK' /\ Elsewhere' /\ welcome' \in [Tools -> SUBSET Users]
    BY <1>1, TypeParts DEF Inv, PageOK, DialogOK, ServerOK, Elsewhere
  <2> QED BY <1>1, <1>2, <2>1, TypesKept DEF Inv
<1>4. Promises'
  <2> SUFFICES ASSUME ~moved
               PROVE  Granting' /\ \A p \in (promised \ lost)' : \E q \in net' : Keeps(q, p)
    BY <1>1 DEF Promises, Keeps
  <2>1. Granting /\ \A p \in promised \ lost : \E q \in net : Keeps(q, p)
    BY DEF Inv, Promises
  <2>2. Granting'
    BY <1>1, <2>1 DEF Granting
  <2>3. ASSUME NEW p \in (promised \ lost)'
        PROVE  \E q \in net' : Keeps(q, p)
    <3>1. p \in promised \ lost /\ (r.kind = "make" => p # <<r.tool, r.user>>)
      BY <1>1, <2>3
    <3>2. PICK o \in net : Keeps(o, p)
      BY <2>1, <3>1
    <3>3. o # r
      BY <1>1, <3>1, <3>2 DEF Keeps
    <3> QED BY <1>1, <3>2, <3>3
  <2> QED BY <2>2, <2>3
<1>5. Chosen'
  <2>1. page.tool # None => page.tool \in Tools
    BY DEF Inv, TypeInv, TypeOK
  <2>2. ~moved /\ page.tool # None => AllChosen(dialog.list, page.tool)'
    BY <1>1, <2>1 DEF Inv, Chosen, AllChosen
  <2> QED BY <1>1, <1>2, <2>2, ChosenKept DEF Inv, TypeInv
<1>6. Followed'
  <2>1. ~behind' => \A q \in net : Reloads(q) \/ q.kind = "list" => \E p \in net' : Like(p, q)
    BY <1>1, Alike DEF Reloads
  <2>2. \A q \in net' : q \in net
    BY <1>1
  <2> QED BY <1>1, <2>1, <2>2, Alike, FollowedKept DEF Inv
<1> QED BY <1>3, <1>4, <1>5, <1>6 DEF Inv

\* The change is stored, and nobody hears of it.
LEMMA InvUnanswered ==
    ASSUME Inv, NEW r \in net, Fail(r), Unanswered(r)
    PROVE  Inv'
<1>1. /\ net' = net \ {r} /\ behind' = (behind \/ r.tool = page.tool) /\ r.status = "sent"
      /\ Effect(r) /\ r.kind \notin {"list", "dialog"}
      /\ UNCHANGED <<page, dialog, welcome, moved>>
  BY DEF Fail, Unanswered
<1>2. /\ lost' = IF r.kind = "grant" /\ r.tool \in Others THEN lost \cup {<<r.tool, r.user>>} ELSE lost
      /\ promised' = CASE r.kind = "grant" /\ r.tool \in Others -> promised \cup {<<r.tool, r.user>>}
                       [] r.kind = "make" -> promised \ {<<r.tool, r.user>>}
                       [] OTHER -> promised
  BY <1>1 DEF Unanswered, Effect
<1>3. Sends({})
  BY <1>1, SendsNone DEF Inv
<1>4. lost' \subseteq Others \X Users
  <2>1. lost \subseteq Others \X Users /\ Request(r)
    BY DEF Inv, TypeInv, TypeOK
  <2> QED BY <1>2, <2>1 DEF Request
<1>5. TypeInv'
  BY <1>1, <1>3, <1>4, EffectTypes
<1>6. Promises'
  <2> SUFFICES ASSUME ~moved
               PROVE  Granting' /\ \A p \in (promised \ lost)' : \E q \in net' : Keeps(q, p)
    BY <1>1 DEF Promises, Keeps
  <2>1. Granting /\ \A p \in promised \ lost : \E q \in net : Keeps(q, p)
    BY DEF Inv, Promises
  <2>2. Granting'
    BY <1>1, <2>1 DEF Granting
  <2>3. ASSUME NEW p \in (promised \ lost)'
        PROVE  \E q \in net' : Keeps(q, p)
    <3>1. p \in promised \ lost /\ (r.kind = "make" => p # <<r.tool, r.user>>)
      BY <1>2, <2>3
    <3>2. PICK o \in net : Keeps(o, p)
      BY <2>1, <3>1
    <3>3. o # r
      BY <1>1, <3>1, <3>2 DEF Keeps
    <3> QED BY <1>1, <3>2, <3>3
  <2> QED BY <2>2, <2>3
<1>7. Chosen'
  <2> SUFFICES ASSUME ~moved
               PROVE  /\ \A t \in Tools : AllChosen(members[t], t)'
                      /\ page.tool # None => AllChosen(dialog.list, page.tool)'
                      /\ \A q \in net' : RequestChosen(q)'
    BY <1>1 DEF Chosen
  <2>1. /\ page.tool # None => AllChosen(dialog.list, page.tool)
        /\ \A q \in net : RequestChosen(q)
    BY DEF Inv, Chosen
  <2>2. \A t \in Tools : AllChosen(members[t], t)'
    BY <1>1, EffectChosen
  <2>3. page.tool # None => AllChosen(dialog.list, page.tool)'
    BY <1>1, <2>1 DEF AllChosen
  <2>4. \A q \in net' : RequestChosen(q)'
    BY <1>1, <2>1 DEF RequestChosen, AllChosen
  <2> QED BY <2>2, <2>3, <2>4
<1>8. Followed'
  <2>1. page.tool # None => page.tool \in Tools
    BY DEF Inv, TypeInv, TypeOK
  <2>2. page.tool # None /\ ~behind' => members'[page.tool] = members[page.tool]
    BY <1>1, <2>1, Effects DEF Inv
  <2>3. ~behind' => \A q \in net : Reloads(q) \/ q.kind = "list" => \E p \in net' : Like(p, q)
    BY <1>1, Alike DEF Reloads
  <2>4. \A q \in net' : q \in net
    BY <1>1
  <2> QED BY <1>1, <2>2, <2>3, <2>4, Alike, FollowedKept DEF Inv
<1> QED BY <1>5, <1>6, <1>7, <1>8 DEF Inv

LEMMA InvFail ==
    ASSUME Inv, NEW r \in net, Fail(r)
    PROVE  Inv'
<1>1. Unserved(r) \/ Unanswered(r)
  BY DEF Fail
<1> QED BY <1>1, InvUnserved, InvUnanswered

LEMMA InvOtherFacilitator ==
    ASSUME Inv, NEW t \in Tools, NEW u \in Users, NEW roles \in OtherRoles, OtherFacilitator(t, u, roles)
    PROVE  Inv'
<1>1. /\ members' = [members EXCEPT ![t][u] = Changed(t, @, roles)]
      /\ welcome' = [welcome EXCEPT ![t] = @ \cup {u}]
      /\ behind' = (behind \/ t = page.tool)
      /\ UNCHANGED <<asked, page, dialog, net, promised, lost, moved>>
  BY DEF OtherFacilitator
<1>2. PICK row : row = Changed(t, members[t][u], roles)
  OBVIOUS
<1>3. /\ members \in [Tools -> List] /\ members[t][u] \in Row /\ row \in Row
  <2>1. members \in [Tools -> List] /\ roles \in SUBSET Roles
    BY ConstantsOK DEF Inv, TypeInv, TypeOK, ConstantsOK
  <2>2. members[t][u] \in Row
    BY <2>1 DEF List
  <2> QED BY <1>2, <2>1, <2>2, ChangedRow
<1>4. members' = [members EXCEPT ![t] = [members[t] EXCEPT ![u] = row]]
  BY <1>1, <1>2
<1>5. /\ members' \in [Tools -> List] /\ \A v \in Tools \ {t} : members'[v] = members[v]
      /\ \A v \in Users \ {u} : members'[t][v] = members[t][v]
  BY <1>3, <1>4 DEF List
<1>6. /\ welcome' \in [Tools -> SUBSET Users] /\ u \in welcome'[t]
      /\ \A v \in Tools : welcome[v] \subseteq welcome'[v]
  BY <1>1, Welcomed DEF Inv
<1>7. Sends({})
  BY <1>1, SendsNone DEF Inv
<1>8. TypeInv'
  <2>1. PageOK' /\ DialogOK' /\ ServerOK' /\ Elsewhere'
    BY <1>1, <1>5, TypeParts DEF Inv, PageOK, DialogOK, ServerOK, Elsewhere
  <2> QED BY <1>1, <1>6, <1>7, <2>1, TypesKept DEF Inv
<1>9. Promises'
  BY <1>1, <1>7, Alike, PromisesKept DEF Inv
<1>10. Chosen'
  <2> SUFFICES ASSUME ~moved
               PROVE  /\ \A v \in Tools : AllChosen(members[v], v)'
                      /\ page.tool # None => AllChosen(dialog.list, page.tool)'
                      /\ \A q \in net : RequestChosen(q)'
    BY <1>1 DEF Chosen
  <2>1. /\ \A v \in Tools : AllChosen(members[v], v)
        /\ page.tool # None => AllChosen(dialog.list, page.tool) /\ page.tool \in Tools
        /\ \A q \in net : RequestChosen(q) /\ q.tool \in Tools
    BY DEF Inv, Chosen, TypeInv, TypeOK, Request
  <2>2. ASSUME NEW v \in Tools
        PROVE  AllChosen(members[v], v)'
    <3>1. CASE v # t
      BY <1>5, <1>6, <2>1, <3>1 DEF AllChosen, Names
    <3>2. CASE v = t
      BY <1>5, <1>6, <2>1, <3>2 DEF AllChosen, Names
    <3> QED BY <3>1, <3>2
  <2>3. page.tool # None => AllChosen(dialog.list, page.tool)'
    BY <1>1, <1>6, <2>1 DEF AllChosen
  <2>4. \A q \in net : RequestChosen(q)'
    BY <1>6, <2>1 DEF RequestChosen, AllChosen
  <2> QED BY <2>2, <2>3, <2>4
<1>11. Followed'
  <2>1. page.tool # None => page.tool \in Tools
    BY DEF Inv, TypeInv, TypeOK
  <2>2. page.tool # None /\ ~behind' =>
           \A v \in Users : members'[page.tool][v].roles = members[page.tool][v].roles
    BY <1>1, <1>5, <2>1
  <2> QED BY <1>1, <2>2, Alike, FollowedKept DEF Inv
<1> QED BY <1>8, <1>9, <1>10, <1>11 DEF Inv

LEMMA InvNext ==
    ASSUME Inv, [Next]_vars
    PROVE  Inv'
<1>1. CASE \E t \in Tools : Visit(t)
  BY <1>1, InvVisit
<1>2. CASE GoIndex
  BY <1>2, InvGoIndex
<1>3. CASE OpenAdd \/ OpenInvite
  BY <1>3, InvOpenEmpty
<1>4. CASE OpenManage
  BY <1>4, InvOpenManage
<1>5. CASE CloseDialog
  BY <1>5, InvCloseDialog
<1>6. CASE SaveMembers
  BY <1>6, InvSaveMembers
<1>7. CASE SaveLevels
  BY <1>7, InvSaveLevels
<1>8. CASE \E u \in Users : AddUser(u) \/ RemoveUser(u) \/ DenyRequest(u) \/ GrantRequest(u)
  BY <1>8, InvAddUser, InvRemoveUser, InvDenyRequest, InvGrantRequest
<1>9. CASE \E u \in Users, role \in Roles : SendInvitation(u, role)
  BY <1>9, InvSendInvitation
<1>10. CASE \E u \in Users, roles \in SUBSET Roles : Tick(u, roles)
  BY <1>10, InvTick
<1>11. CASE \E r \in net : Loaded(r) \/ DialogLoaded(r) \/ Added(r) \/ Removed(r)
  BY <1>11, InvLoaded, InvDialogLoaded, InvAdded, InvRemoved
<1>12. CASE \E r \in net : LevelsSaved(r) \/ Granted(r) \/ Serve(r) \/ Fail(r)
  BY <1>12, InvLevelsSaved, InvGranted, InvServe, InvFail
<1>13. CASE \E t \in Tools, u \in Users, role \in Roles : AskAccess(t, u, role)
  BY <1>13, InvAskAccess
<1>14. CASE \E t \in Tools, u \in Users, roles \in OtherRoles : OtherFacilitator(t, u, roles)
  BY <1>14, InvOtherFacilitator
<1>15. CASE UNCHANGED vars
  <2>1. UNCHANGED <<members, asked, page, dialog, net, behind, promised, lost, welcome, moved>>
    BY <1>15 DEF vars
  <2>2. TypeInv'
    BY <2>1 DEF Inv, TypeInv, TypeOK, Shapes, Elsewhere, Placed
  <2>3. Promises'
    BY <2>1 DEF Inv, Promises, Granting, Keeps
  <2>4. Chosen'
    BY <2>1 DEF Inv, Chosen, AllChosen, RequestChosen
  <2>5. Followed'
    BY <2>1 DEF Inv, Followed, Unseen, Reloads, Shows, Participants
  <2> QED BY <2>2, <2>3, <2>4, <2>5 DEF Inv
<1> QED
  BY <1>1, <1>2, <1>3, <1>4, <1>5, <1>6, <1>7, <1>8, <1>9, <1>10, <1>11, <1>12, <1>13, <1>14, <1>15
  DEF Next

LEMMA InvAlways == Spec => []Inv
BY InvInit, InvNext, PTL DEF Spec

\* Every variable keeps its type: requests are about tools, and a list that is
\* waited for is about the tool on screen (the scope of a page that is left is
\* destroyed, and loadParticipants puts another array in place of the list).
THEOREM TypeCorrect == Spec => []TypeOK
<1>1. Inv => TypeOK
  BY DEF Inv, TypeInv
<1> QED BY <1>1, InvAlways, PTL

\* Once the answers are in, a page of members shows the participants the server
\* has, whatever order the writes and the loads were answered in, unless the page
\* could not know, an answer that was lost among the reasons (loadParticipants
\* and the handlers that call it).
THEOREM ListsShowOwnChanges == Spec => []ListShowsOwnChanges
<1>1. Inv => ListShowsOwnChanges
  BY DEF Inv, Followed, Shows, ListShowsOwnChanges
<1> QED BY <1>1, InvAlways, PTL

\* A request for access that was granted is not forgotten between the grant and
\* the call that makes the member, unless the page was left between them or the
\* answer of the grant was lost (grantRequest).
THEOREM GrantsArrive == Spec => []GrantArrives
<1>1. Inv => GrantArrives
  BY DEF Inv, Promises, Keeps, GrantArrives
<1> QED BY <1>1, InvAlways, PTL

\* Nobody becomes a member of a tool who was not chosen for that tool, unless a
\* page was left between the two calls of a grant (createParticipant takes its
\* tool from the page on screen).
THEOREM MembersAreChosen == Spec => []MembersWereChosen
<1>1. Inv => MembersWereChosen
  BY DEF Inv, Chosen, AllChosen, Names, MembersWereChosen
<1> QED BY <1>1, InvAlways, PTL

TickedOnly ==
    \A r \in net \ net' :
      r.kind \in {"save", "levels"} /\ r.status = "sent" =>
        \A u \in Users \ r.ticked :
          r.list[u] = members[r.tool][u] =>
            \/ members'[r.tool][u] = members[r.tool][u]
            \/ /\ r.kind = "levels" /\ u \in NetworkPartners
               /\ members'[r.tool][u].roles = members[r.tool][u].roles \cup {"facilitator"}

\* A member of the list keeps roles that are posted as they are, but for the
\* level that a network partner has.
LEMMA PostedAsLoaded ==
    ASSUME TypeInv, NEW r \in net, r.kind \in {"save", "levels"}, NEW u \in Users,
           r.list[u] = members[r.tool][u]
    PROVE  \/ NewRoles(r, u) = members[r.tool][u].roles
           \/ /\ r.kind = "levels" /\ u \in NetworkPartners
              /\ NewRoles(r, u) = members[r.tool][u].roles \cup {"facilitator"}
<1>1. PICK old : old = members[r.tool][u]
  OBVIOUS
<1>2. /\ r.list[u] = old /\ (r.kind = "save" => r.row = r.list[r.user])
      /\ members[r.tool][u] = old /\ ~Grants(r, u)
  BY <1>1 DEF TypeInv, Request, Grants
<1>3. /\ u \notin NetworkPartners => Level(u, old, old) = old.roles
      /\ u \in NetworkPartners => Level(u, old, old) = old.roles \cup {"facilitator"}
  BY DEF Level
<1>4. CASE r.kind = "save" /\ r.user = u
  <2>1. r.row = old
    BY <1>2, <1>4
  <2>2. NewRoles(r, u) = old.roles
    BY <1>2, <1>4, <2>1 DEF NewRoles
  <2> QED BY <1>2, <2>2
<1>5. CASE r.kind = "save" /\ r.user # u
  BY <1>2, <1>5 DEF NewRoles
<1>6. CASE r.kind = "levels"
  BY <1>2, <1>3, <1>6 DEF NewRoles
<1> QED BY <1>4, <1>5, <1>6

\* Saving the permissions of a list posts everybody of it, and changes nobody who
\* was not ticked and is still what was loaded, but for the network partners of
\* an assessment, who become facilitators (savePermissions, and
\* AssessmentsPermissionsController#update and ToolMembersController#create
\* behind it).
THEOREM OnlyTickedChanges == Spec => OnlyTickedChange
<1>1. ASSUME Inv, [Next]_vars
      PROVE  TickedOnly
  <2>1. CASE net' = net
    BY <2>1 DEF TickedOnly
  <2>2. CASE members' = members
    BY <2>2 DEF TickedOnly
  <2>3. CASE \E r \in net : (Serve(r) \/ Fail(r)) /\ Effect(r)
    <3>1. PICK r \in net : (Serve(r) \/ Fail(r)) /\ Effect(r)
      BY <2>3
    <3>2. net \ {r} \subseteq net'
      BY <3>1 DEF Serve, Fail
    <3>3. \A q \in net \ net' : q = r
      BY <3>2
    <3>4. ASSUME r.kind \in {"save", "levels"}, NEW u \in Users, r.list[u] = members[r.tool][u]
          PROVE  \/ members'[r.tool][u] = members[r.tool][u]
                 \/ /\ r.kind = "levels" /\ u \in NetworkPartners
                    /\ members'[r.tool][u].roles = members[r.tool][u].roles \cup {"facilitator"}
      <4>1. \/ NewRoles(r, u) = members[r.tool][u].roles
            \/ /\ r.kind = "levels" /\ u \in NetworkPartners
               /\ NewRoles(r, u) = members[r.tool][u].roles \cup {"facilitator"}
        BY <1>1, <3>4, PostedAsLoaded DEF Inv
      <4>2. /\ members'[r.tool][u] = Changed(r.tool, members[r.tool][u], NewRoles(r, u))
            /\ NewRoles(r, u) = members[r.tool][u].roles => members'[r.tool][u] = members[r.tool][u]
        BY <1>1, <3>1, Effects DEF Inv
      <4>3. members'[r.tool][u].roles = NewRoles(r, u)
        <5>1. NewRoles(r, u) \in SUBSET Roles /\ members[r.tool][u] \in Row
          BY <1>1, RolesTypes DEF Inv
        <5> QED BY <4>2, <5>1, ChangedRow
      <4> QED BY <4>1, <4>2, <4>3
    <3> QED BY <3>3, <3>4 DEF TickedOnly
  <2>4. CASE \E t \in Tools, u \in Users, roles \in OtherRoles : OtherFacilitator(t, u, roles)
    BY <2>1, <2>4 DEF OtherFacilitator
  <2>5. CASE \/ \E t \in Tools : Visit(t)
             \/ GoIndex \/ OpenAdd \/ OpenInvite \/ OpenManage \/ CloseDialog \/ SaveMembers \/ SaveLevels
             \/ \E u \in Users : AddUser(u) \/ RemoveUser(u) \/ DenyRequest(u) \/ GrantRequest(u)
             \/ \E u \in Users, role \in Roles : SendInvitation(u, role)
             \/ \E u \in Users, roles \in SUBSET Roles : Tick(u, roles)
             \/ \E t \in Tools, u \in Users, role \in Roles : AskAccess(t, u, role)
    BY <2>2, <2>5 DEF Visit, GoIndex, OpenAdd, OpenInvite, OpenManage, CloseDialog, SaveMembers,
                      SaveLevels, AddUser, RemoveUser, DenyRequest, GrantRequest, SendInvitation,
                      Tick, AskAccess
  <2>6. CASE \E r \in net : \/ Loaded(r) \/ DialogLoaded(r) \/ Added(r) \/ Removed(r)
                             \/ LevelsSaved(r) \/ Granted(r)
    BY <2>2, <2>6 DEF Loaded, DialogLoaded, Added, Removed, LevelsSaved, Granted
  <2>7. CASE UNCHANGED vars
    BY <2>1, <2>7 DEF vars
  <2>8. CASE \E r \in net : Serve(r) \/ Fail(r)
    <3>1. PICK r \in net : Serve(r) \/ Fail(r)
      BY <2>8
    <3>2. Effect(r) \/ members' = members
      BY <3>1 DEF Serve, Fail, Unserved, Unanswered
    <3> QED BY <2>2, <2>3, <3>1, <3>2
  <2> QED BY <1>1, <2>4, <2>5, <2>6, <2>7, <2>8 DEF Next
<1>2. Inv /\ [Next]_vars => [TickedOnly]_vars
  BY <1>1
<1>3. []Inv /\ [][Next]_vars => [][TickedOnly]_vars
  BY <1>2, PTL
<1>4. Spec => [][TickedOnly]_vars
  BY <1>3, InvAlways, PTL DEF Spec
<1> QED BY <1>4 DEF OnlyTickedChange, TickedOnly
=============================================================================
