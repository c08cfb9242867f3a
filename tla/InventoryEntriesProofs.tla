----------------------- MODULE InventoryEntriesProofs -----------------------
(***************************************************************************)
(* Proofs about InventoryEntries: type correctness, that a save changes    *)
(* what was edited and nothing else, that the table follows the database,  *)
(* and that nothing but a restoration touches deleted entries, for any     *)
(* entries, values and upsets.                                             *)
(***************************************************************************)
EXTENDS InventoryEntries, FiniteSetTheorems, WellFoundedInduction, TLAPS

Kinds  == {"load", "options", "save", "delete", "restore"}
Fields == {"val", "conn"}

\* A request, before it has a number and with one.
Draft   == [kind: Kinds, entry: Entries \cup {New}, val: Vals, conn: SUBSET Entries,
            edited: SUBSET Fields, list: [Entries -> Row], status: {"sent", "served"},
            ok: BOOLEAN, heard: BOOLEAN, n: Nat]
Request == {q \in Draft : q.n # 0}

Dialogs == [open : BOOLEAN, id : Entries \cup {New}, own : BOOLEAN, val : Vals,
            conn : SUBSET Entries, edited : SUBSET Fields, dirty : BOOLEAN,
            options : SUBSET Entries]

DialogOK(d) == d \in Dialogs /\ (d.own => d.open /\ d.id # New)

TypeInv ==
    /\ kind \in {"product", "data"} /\ facilitator \in BOOLEAN /\ apart \in BOOLEAN
    /\ rows \in [Entries -> Row] /\ list \in [Entries -> Row] /\ DialogOK(dialog)
    /\ IsFiniteSet(net) /\ net \subseteq Request
    /\ upsets \in 0..MaxUpsets

\* Equal but for the number, and but for the listener too.
Alike(q, r) ==
    /\ q.kind = r.kind /\ q.entry = r.entry /\ q.val = r.val /\ q.conn = r.conn
    /\ q.edited = r.edited /\ q.list = r.list /\ q.status = r.status /\ q.ok = r.ok
Same(q, r) == Alike(q, r) /\ q.heard = r.heard

---------------------------------------------------------------------------
(* Requests                                                                *)

Less == {p \in Nat \X Nat : p[1] < p[2]}

LEMMA LessWellFounded == IsWellFoundedOn(Less, Nat)
BY NatLessThanWellFounded DEF OpToRel, Less

\* Among one number more than there are requests, a least one is free.
LEMMA FreeNumber ==
    ASSUME NEW N, IsFiniteSet(N), NEW k
    PROVE  \E n \in 1..(Cardinality(N) + 1) :
              /\ \A q \in Under(N, k) : q.n # n
              /\ \A m \in 1..(n - 1) : \E q \in Under(N, k) : q.n = m
<1> DEFINE c == Cardinality(N)
           S == {n \in 1..(c + 1) : \A q \in Under(N, k) : q.n # n}
<1>1. c \in Nat
  BY FS_CardinalityType
<1> HIDE DEF c
<1>2. S # {}
  <2> SUFFICES ASSUME S = {} PROVE FALSE
    OBVIOUS
  <2> DEFINE f == [q \in N |-> IF q.n \in 1..(c + 1) THEN q.n ELSE 1]
  <2>1. \A n \in 1..(c + 1) : \E q \in N : q.n = n
    BY DEF Under
  <2>2. f \in Surjection(N, 1..(c + 1))
    BY <1>1, <2>1 DEF Surjection
  <2>3. Cardinality(1..(c + 1)) <= c
    BY <2>2, FS_Surjection DEF c
  <2>4. Cardinality(1..(c + 1)) = c + 1
    BY <1>1, FS_Interval
  <2> QED BY <1>1, <2>3, <2>4
<1>3. PICK n \in S : \A m \in S : ~(<<m, n>> \in Less)
  BY <1>1, <1>2, LessWellFounded, WFMin, S \subseteq Nat
<1>4. \A m \in S : ~(m < n)
  <2> SUFFICES ASSUME NEW m \in S, m < n PROVE FALSE
    OBVIOUS
  <2>1. m \in Nat /\ n \in Nat
    BY <1>1
  <2> HIDE DEF S
  <2>2. <<m, n>> \in Less
    BY <2>1 DEF Less
  <2> QED BY <1>3, <2>2
<1>5. \A m \in 1..(n - 1) : \E q \in Under(N, k) : q.n = m
  BY <1>1, <1>4
<1> QED BY <1>5 DEF c

LEMMA SentAdds ==
    ASSUME NEW N, IsFiniteSet(N), N \subseteq Request, NEW r \in Draft
    PROVE  /\ Sent(N, r) \subseteq Request /\ IsFiniteSet(Sent(N, r))
           /\ \E q \in Request : Same(q, r) /\ Sent(N, r) = N \cup {q}
<1> DEFINE n == CHOOSE n \in 1..(Cardinality(N) + 1) :
                   /\ \A q \in Under(N, r.kind) : q.n # n
                   /\ \A m \in 1..(n - 1) : \E q \in Under(N, r.kind) : q.n = m
           q == [r EXCEPT !.n = n]
<1>1. n \in 1..(Cardinality(N) + 1)
  BY FreeNumber
<1>2. Sent(N, r) = N \cup {q}
  BY DEF Sent
<1> HIDE DEF n
<1>3. n \in Nat /\ n # 0
  BY <1>1, FS_CardinalityType
<1>4. q \in Draft /\ q.n = n
  BY <1>3 DEF Draft
<1>5. Same(q, r)
  BY DEF Draft, Same, Alike
<1> HIDE DEF q
<1>6. q \in Request
  BY <1>3, <1>4 DEF Request
<1> QED BY <1>2, <1>5, <1>6, FS_AddElement

LEMMA BlankType == Blank \in Vals
BY EntriesOK DEF EntriesOK, Blank

LEMMA AbsentType == Absent \in Row
BY BlankType DEF Absent, Row

LEMMA ReqType ==
    ASSUME NEW k \in Kinds, NEW e \in Entries \cup {New}
    PROVE  /\ Req(k, e) \in Draft /\ Req(k, e).kind = k /\ Req(k, e).entry = e
           /\ Req(k, e).status = "sent" /\ Req(k, e).conn = {}
           /\ \A x \in Entries : Req(k, e).list[x] = Absent
BY BlankType, AbsentType DEF Req, Draft

\* What reloadData adds.
LEMMA ReloadAdds ==
    ASSUME NEW N, IsFiniteSet(N), N \subseteq Request
    PROVE  /\ Reloaded(N) \subseteq Request /\ IsFiniteSet(Reloaded(N))
           /\ \E q \in Request :
                 /\ q.kind = "load" /\ q.status = "sent" /\ q.conn = {}
                 /\ \A x \in Entries : q.list[x] = Absent
                 /\ Reloaded(N) = N \cup {q}
<1> DEFINE r == Req("load", New)
<1>1. /\ r \in Draft /\ r.kind = "load" /\ r.status = "sent" /\ r.conn = {}
      /\ \A x \in Entries : r.list[x] = Absent
  BY ReqType DEF Kinds
<1>2. Reloaded(N) = Sent(N, r)
  BY DEF Reloaded
<1> HIDE DEF r
<1>3. /\ Sent(N, r) \subseteq Request /\ IsFiniteSet(Sent(N, r))
      /\ \E q \in Request : Same(q, r) /\ Sent(N, r) = N \cup {q}
  BY <1>1, SentAdds
<1> QED BY <1>1, <1>2, <1>3 DEF Same, Alike

LEMMA UnheardKeeps ==
    ASSUME NEW N, IsFiniteSet(N), N \subseteq Request
    PROVE  /\ Unheard(N) \subseteq Request /\ IsFiniteSet(Unheard(N))
           /\ \A p \in Unheard(N) : \E q \in N : q.kind # "options" /\ Alike(p, q)
           /\ \A q \in N : q.kind # "options" => \E p \in Unheard(N) : Alike(p, q)
<1> DEFINE g(q) == [q EXCEPT !.heard = @ /\ q.kind # "save"]
           M == N \ Under(N, "options")
           f == [q \in M |-> g(q)]
<1>1. \A q \in Request : g(q) \in Request /\ Alike(g(q), q)
  <2> TAKE q \in Request
  <2>1. g(q) \in Draft
    BY DEF Request, Draft
  <2>2. g(q).n = q.n /\ Alike(g(q), q)
    BY DEF Request, Draft, Alike
  <2> HIDE DEF g
  <2> QED BY <2>1, <2>2 DEF Request
<1>2. Unheard(N) = {g(q) : q \in M}
  BY DEF Unheard
<1>3. M \subseteq N /\ \A q \in N : q \in M <=> q.kind # "options"
  BY DEF Under
<1> HIDE DEF g, M
<1>4. f \in Surjection(M, Unheard(N))
  BY <1>2 DEF Surjection
<1>5. IsFiniteSet(M)
  BY <1>3, FS_Subset
<1>6. IsFiniteSet(Unheard(N))
  BY <1>4, <1>5, FS_Surjection
<1> QED BY <1>1, <1>2, <1>3, <1>6

\* What the server makes of a request.
LEMMA ServedType ==
    ASSUME NEW r \in Request, NEW ok \in BOOLEAN
    PROVE  LET q == [r EXCEPT !.status = "served", !.ok = ok]
           IN  /\ q \in Request /\ q.kind = r.kind /\ q.entry = r.entry /\ q.val = r.val
               /\ q.conn = r.conn /\ q.edited = r.edited /\ q.list = r.list
               /\ q.heard = r.heard /\ q.status = "served" /\ q.ok = ok
<1> DEFINE q == [r EXCEPT !.status = "served", !.ok = ok]
<1>1. q \in Draft
  BY DEF Request, Draft
<1>2. q.n # 0
  BY DEF Request, Draft
<1> QED BY <1>1, <1>2 DEF Request, Draft

LEMMA IndexedType ==
    ASSUME NEW r \in Request, NEW t \in [Entries -> Row]
    PROVE  LET q == [r EXCEPT !.status = "served", !.list = t]
           IN  /\ q \in Request /\ q.kind = r.kind /\ q.conn = r.conn
               /\ q.list = t /\ q.status = "served"
<1> DEFINE q == [r EXCEPT !.status = "served", !.list = t]
<1>1. q \in Draft
  BY DEF Request, Draft
<1>2. q.n # 0
  BY DEF Request, Draft
<1> QED BY <1>1, <1>2 DEF Request, Draft

---------------------------------------------------------------------------
(* The table and its dialog                                                *)

LEMMA ActType ==
    ASSUME upsets \in 0..MaxUpsets, Act \/ Upset PROVE upsets' \in 0..MaxUpsets
BY EntriesOK DEF EntriesOK, Act, Upset

LEMMA SeenType ==
    ASSUME TypeInv
    PROVE  /\ product_entries \in [Entries -> Row]
           /\ \A e \in Entries : product_entries[e] = rows[e] \/ product_entries[e] = Absent
           /\ facilitator => product_entries = rows
           /\ \A e \in Live(rows) : product_entries[e] = rows[e]
<1>1. \A e \in Entries : product_entries[e] = rows[e] \/ product_entries[e] = Absent
  BY DEF product_entries
<1>2. product_entries \in [Entries -> Row]
  BY AbsentType DEF product_entries, TypeInv
<1>3. facilitator => product_entries = rows
  BY DEF product_entries, TypeInv
<1>4. \A e \in Live(rows) : product_entries[e] = rows[e]
  BY DEF product_entries, Live
<1> QED BY <1>1, <1>2, <1>3, <1>4

LEMMA OpenType ==
    ASSUME TypeInv, NEW e \in Entries \cup {New}, Open(e)
    PROVE  /\ dialog' \in Dialogs /\ dialog'.open /\ dialog'.id = e
           /\ dialog'.own = (e # New) /\ ~dialog'.dirty
           /\ dialog'.edited = {} /\ dialog'.options = {}
           /\ dialog'.val = IF e = New THEN Blank ELSE list[e].val
           /\ dialog'.conn = IF e = New THEN {} ELSE list[e].conn
<1> DEFINE v == IF e = New THEN Blank ELSE list[e].val
           c == IF e = New THEN {} ELSE list[e].conn
<1>1. v \in Vals /\ c \in SUBSET Entries
  BY BlankType DEF TypeInv, Row
<1>2. dialog' = [Closed EXCEPT !.open = TRUE, !.id = e, !.own = e # New, !.val = v, !.conn = c]
  BY DEF Open
<1> HIDE DEF v, c
<1>3. Closed \in Dialogs
  BY BlankType DEF Closed, Dialogs
<1>4. dialog' \in Dialogs
  BY <1>1, <1>2, <1>3 DEF Dialogs
<1>5. /\ dialog'.open /\ dialog'.id = e /\ dialog'.own = (e # New)
      /\ dialog'.val = v /\ dialog'.conn = c
  BY <1>2, <1>3 DEF Dialogs
<1>6. ~dialog'.dirty /\ dialog'.edited = {} /\ dialog'.options = {}
  BY <1>2 DEF Closed
<1> QED BY <1>4, <1>5, <1>6 DEF v, c

\* A row stays one when a field of it is written.
LEMMA RowEdited ==
    ASSUME NEW r \in Row
    PROVE  /\ \A v \in Vals : [r EXCEPT !.val = v] \in Row
           /\ [r EXCEPT !.at = "deleted"] \in Row
BY DEF Row

LEMMA WriteType ==
    ASSUME TypeInv, NEW d, DialogOK(d), Write(d)
    PROVE  /\ dialog' = d /\ list' \in [Entries -> Row]
           /\ \A x \in Entries :
                 /\ list'[x].at = list[x].at
                 /\ ~d.own \/ x # d.id => list'[x] = list[x]
                 /\ d.own /\ x = d.id => list'[x].val = d.val /\ list'[x].conn = d.conn
<1>1. CASE ~d.own
  BY <1>1 DEF Write, TypeInv
<1>2. CASE d.own
  <2> DEFINE m == [list EXCEPT ![d.id].val = d.val]
             n == [m EXCEPT ![d.id].conn = d.conn]
  <2>1. d.id \in Entries /\ d.val \in Vals /\ d.conn \in SUBSET Entries
    BY <1>2 DEF DialogOK, Dialogs
  <2>2. dialog' = d /\ list' = n
    BY <1>2 DEF Write
  <2>3. /\ m \in [Entries -> Row] /\ \A x \in Entries : x # d.id => m[x] = list[x]
        /\ m[d.id].at = list[d.id].at /\ m[d.id].val = d.val
    <3>1. list \in [Entries -> Row]
      BY DEF TypeInv
    <3>2. m \in [Entries -> Row]
      <4>1. m = [list EXCEPT ![d.id] = [list[d.id] EXCEPT !.val = d.val]]
        BY <2>1, <3>1
      <4>2. [list[d.id] EXCEPT !.val = d.val] \in Row
        BY <2>1, <3>1, RowEdited
      <4> QED BY <3>1, <4>1, <4>2
    <3>3. \A x \in Entries : x # d.id => m[x] = list[x]
      BY <3>1
    <3>4. m[d.id].at = list[d.id].at /\ m[d.id].val = d.val
      BY <2>1, <3>1 DEF Row
    <3> QED BY <3>2, <3>3, <3>4
  <2> HIDE DEF m
  <2>4. /\ n \in [Entries -> Row] /\ \A x \in Entries : x # d.id => n[x] = m[x]
        /\ n[d.id].at = m[d.id].at /\ n[d.id].val = m[d.id].val /\ n[d.id].conn = d.conn
    BY <2>1, <2>3 DEF Row
  <2> QED BY <1>2, <2>2, <2>3, <2>4
<1> QED BY <1>1, <1>2

LEMMA CheckboxType ==
    ASSUME NEW d, DialogOK(d), NEW o \in SUBSET Entries
    PROVE  LET c == checkboxize(d, o)
           IN  /\ DialogOK(c) /\ c.open = d.open /\ c.id = d.id /\ c.own = d.own
               /\ c.val = d.val /\ c.edited = d.edited
               /\ c.options = o /\ c.conn = d.conn \cap o
               /\ c.dirty = (d.dirty \/ d.conn \ o # {})
<1> DEFINE c == checkboxize(d, o)
<1>1. c \in Dialogs
  BY DEF checkboxize, DialogOK, Dialogs
<1>2. /\ c.open = d.open /\ c.id = d.id /\ c.own = d.own /\ c.val = d.val /\ c.edited = d.edited
      /\ c.options = o /\ c.conn = d.conn \cap o
  BY DEF checkboxize, DialogOK, Dialogs
<1>3. c.dirty = (d.dirty \/ d.conn \ o # {})
  BY DEF checkboxize, DialogOK, Dialogs
<1> QED BY <1>1, <1>2, <1>3 DEF DialogOK

LEMMA EditType ==
    ASSUME NEW d, DialogOK(d), NEW v \in Vals
    PROVE  LET c == [d EXCEPT !.val = v, !.edited = @ \cup {"val"}, !.dirty = TRUE]
           IN  /\ DialogOK(c) /\ c.open = d.open /\ c.id = d.id /\ c.own = d.own
               /\ c.val = v /\ c.edited = d.edited \cup {"val"} /\ c.dirty
               /\ c.options = d.options /\ c.conn = d.conn
<1> DEFINE c == [d EXCEPT !.val = v, !.edited = @ \cup {"val"}, !.dirty = TRUE]
<1>1. c \in Dialogs
  BY DEF DialogOK, Dialogs, Fields
<1>2. /\ c.open = d.open /\ c.id = d.id /\ c.own = d.own /\ c.val = v
      /\ c.edited = d.edited \cup {"val"} /\ c.options = d.options /\ c.conn = d.conn /\ c.dirty
  BY DEF DialogOK, Dialogs
<1> QED BY <1>1, <1>2 DEF DialogOK

LEMMA TickType ==
    ASSUME NEW d, DialogOK(d), NEW e \in d.options
    PROVE  LET c == [d EXCEPT !.conn = (@ \cup {e}) \ (@ \cap {e}), !.edited = @ \cup {"conn"},
                              !.dirty = TRUE]
           IN  /\ DialogOK(c) /\ c.open = d.open /\ c.id = d.id /\ c.own = d.own
               /\ c.val = d.val /\ c.edited = d.edited \cup {"conn"} /\ c.dirty
               /\ c.options = d.options /\ c.conn \subseteq d.conn \cup {e}
<1> DEFINE c == [d EXCEPT !.conn = (@ \cup {e}) \ (@ \cap {e}), !.edited = @ \cup {"conn"},
                          !.dirty = TRUE]
<1>1. c \in Dialogs
  BY DEF DialogOK, Dialogs, Fields
<1>2. /\ c.open = d.open /\ c.id = d.id /\ c.own = d.own /\ c.val = d.val
      /\ c.edited = d.edited \cup {"conn"} /\ c.options = d.options /\ c.dirty
      /\ c.conn = (d.conn \cup {e}) \ (d.conn \cap {e})
  BY DEF DialogOK, Dialogs
<1> QED BY <1>1, <1>2 DEF DialogOK

LEMMA ClosedType == DialogOK(Closed)
BY BlankType DEF Closed, DialogOK, Dialogs

---------------------------------------------------------------------------
(* Type correctness                                                        *)

LEMMA InitTypeInv == Init => TypeInv
<1> SUFFICES ASSUME Init PROVE TypeInv
  OBVIOUS
<1>1. kind \in {"product", "data"} /\ facilitator \in BOOLEAN /\ apart \in BOOLEAN
  BY DEF Init
<1>2. rows \in [Entries -> Row] /\ list \in [Entries -> Row]
  BY AbsentType DEF Init
<1>3. DialogOK(dialog)
  BY ClosedType DEF Init
<1>4. net \subseteq Request /\ IsFiniteSet(net)
  BY ReloadAdds, FS_EmptySet DEF Init
<1>5. upsets \in 0..MaxUpsets
  BY EntriesOK DEF Init, EntriesOK
<1> QED BY <1>1, <1>2, <1>3, <1>4, <1>5 DEF TypeInv

\* The request of a user.
LEMMA DraftType ==
    ASSUME TypeInv
    PROVE  /\ \A e \in Entries \cup {New}, k \in Kinds : Req(k, e) \in Draft
           /\ LET s == [Req("save", dialog.id) EXCEPT !.val = dialog.val, !.conn = dialog.conn,
                                                     !.edited = dialog.edited]
              IN  /\ s \in Draft /\ s.kind = "save" /\ s.entry = dialog.id /\ s.val = dialog.val
                  /\ s.conn = dialog.conn /\ s.edited = dialog.edited /\ s.status = "sent"
                  /\ s.ok = TRUE /\ s.heard = TRUE /\ s.list = [x \in Entries |-> Absent]
<1> DEFINE q == Req("save", dialog.id)
           s == [q EXCEPT !.val = dialog.val, !.conn = dialog.conn, !.edited = dialog.edited]
<1>1. /\ dialog.id \in Entries \cup {New} /\ dialog.val \in Vals
      /\ dialog.conn \in SUBSET Entries /\ dialog.edited \in SUBSET Fields
  BY DEF TypeInv, DialogOK, Dialogs
<1>2. q \in Draft /\ q.kind = "save" /\ q.entry = dialog.id
  BY <1>1, ReqType DEF Kinds
<1>3. q.status = "sent" /\ q.ok = TRUE /\ q.heard = TRUE /\ q.list = [x \in Entries |-> Absent]
  BY DEF Req
<1> HIDE DEF q
<1>4. s \in Draft
  BY <1>1, <1>2 DEF Draft
<1>5. /\ s.kind = q.kind /\ s.entry = q.entry /\ s.val = dialog.val /\ s.conn = dialog.conn
      /\ s.edited = dialog.edited /\ s.status = q.status /\ s.ok = q.ok /\ s.heard = q.heard
      /\ s.list = q.list
  BY <1>2 DEF Draft
<1> QED BY <1>2, <1>3, <1>4, <1>5, ReqType DEF q

\* An update writes the value, and the connections unless there are none.
LEMMA ParamsType ==
    ASSUME TypeInv, NEW r \in Request, r.entry \in Live(rows)
    PROVE  LET n == product_entry_params(r)
           IN  /\ n \in Row /\ n.at = "live" /\ n.val = r.val
               /\ n.conn = IF r.conn = {} THEN rows[r.entry].conn ELSE r.conn
<1> DEFINE old == rows[r.entry]
           c == IF r.conn = {} THEN old.conn ELSE r.conn
           n == [old EXCEPT !.val = r.val, !.conn = c]
<1>1. old \in Row /\ old.at = "live"
  BY DEF Live, TypeInv
<1>2. r.val \in Vals /\ r.conn \in SUBSET Entries
  BY DEF Request, Draft
<1>3. product_entry_params(r) = n
  BY <1>1 DEF product_entry_params, Row
<1> HIDE DEF old
<1>4. c \in SUBSET Entries
  BY <1>1, <1>2 DEF Row
<1> HIDE DEF c
<1>5. n \in Row /\ n.at = "live" /\ n.val = r.val /\ n.conn = c
  BY <1>1, <1>2, <1>4 DEF Row
<1> QED BY <1>3, <1>5 DEF c, old

\* What the server does to a row.
LEMMA ServeType ==
    ASSUME TypeInv, NEW r \in net, Create(r) \/ Update(r) \/ Destroy(r) \/ Restore(r)
    PROVE  /\ rows' \in [Entries -> Row]
           /\ \E ok \in BOOLEAN : net' = Done(r, ok)
<1>1. r \in Request /\ r.val \in Vals /\ r.conn \in SUBSET Entries
  BY DEF TypeInv, Request, Draft
<1>2. CASE Create(r)
  <2>1. PICK e \in Free :
           rows' = [rows EXCEPT ![e] = [at |-> "live", val |-> r.val, conn |-> r.conn]]
    BY <1>2 DEF Create
  <2>2. rows' \in [Entries -> Row]
    BY <1>1, <2>1 DEF TypeInv, Row, Free
  <2>3. net' = Done(r, TRUE)
    BY <1>2 DEF Create
  <2> QED BY <2>2, <2>3
<1>3. CASE Update(r)
  <2> DEFINE ok == facilitator /\ r.entry \in Live(rows)
  <2>1. r.entry \in Live(rows) => product_entry_params(r) \in Row
    BY <1>1, ParamsType
  <2>2. rows' = IF ok THEN [rows EXCEPT ![r.entry] = product_entry_params(r)] ELSE rows
    BY <1>3 DEF Update
  <2>3. net' = Done(r, ok)
    BY <1>3 DEF Update
  <2>4. rows' \in [Entries -> Row]
    BY <2>1, <2>2 DEF TypeInv
  <2> QED BY <2>3, <2>4
<1>4. CASE Destroy(r)
  <2>1. rows' \in [Entries -> Row]
    BY <1>4 DEF Destroy, TypeInv, Row, Live
  <2>2. net' = Done(r, r.entry \in Live(rows))
    BY <1>4 DEF Destroy
  <2>3. (r.entry \in Live(rows)) \in BOOLEAN
    OBVIOUS
  <2> QED BY <2>1, <2>2, <2>3
<1>5. CASE Restore(r)
  BY <1>5 DEF Restore, TypeInv
<1> QED BY <1>2, <1>3, <1>4, <1>5

LEMMA DoneNet ==
    ASSUME TypeInv, NEW r \in net, NEW ok \in BOOLEAN
    PROVE  /\ Done(r, ok) \subseteq Request /\ IsFiniteSet(Done(r, ok))
           /\ \E q \in Request :
                 /\ Done(r, ok) = (net \ {r}) \cup {q}
                 /\ q.kind = r.kind /\ q.entry = r.entry /\ q.val = r.val /\ q.conn = r.conn
                 /\ q.edited = r.edited /\ q.list = r.list /\ q.heard = r.heard
                 /\ q.status = "served" /\ q.ok = ok
<1>1. r \in Request /\ IsFiniteSet(net) /\ net \subseteq Request
  BY DEF TypeInv
<1> DEFINE q == [r EXCEPT !.status = "served", !.ok = ok]
<1>2. Done(r, ok) = (net \ {r}) \cup {q}
  BY DEF Done
<1>3. /\ q \in Request /\ q.kind = r.kind /\ q.entry = r.entry /\ q.val = r.val
      /\ q.conn = r.conn /\ q.edited = r.edited /\ q.list = r.list
      /\ q.heard = r.heard /\ q.status = "served" /\ q.ok = ok
  BY <1>1, ServedType
<1> HIDE DEF q
<1>4. IsFiniteSet(net \ {r})
  BY <1>1, FS_RemoveElement
<1>5. IsFiniteSet(Done(r, ok))
  BY <1>2, <1>4, FS_AddElement
<1> QED BY <1>1, <1>2, <1>3, <1>5

LEMMA NextTypeInv == TypeInv /\ [Next]_vars => TypeInv'
<1> SUFFICES ASSUME TypeInv, [Next]_vars PROVE TypeInv'
  OBVIOUS
<1>0. /\ kind \in {"product", "data"} /\ facilitator \in BOOLEAN /\ apart \in BOOLEAN
      /\ rows \in [Entries -> Row] /\ list \in [Entries -> Row] /\ DialogOK(dialog)
      /\ IsFiniteSet(net) /\ net \subseteq Request /\ upsets \in 0..MaxUpsets
  BY DEF TypeInv
<1>1. \A r \in net : IsFiniteSet(net \ {r}) /\ net \ {r} \subseteq Request
  BY <1>0, FS_RemoveElement
<1>2. ASSUME NEW e \in Entries \cup {New}, Open(e) PROVE TypeInv'
  <2>1. DialogOK(dialog')
    BY <1>2, OpenType DEF DialogOK
  <2>2. net' \subseteq Request /\ IsFiniteSet(net')
    BY <1>0, <1>2, DraftType, SentAdds DEF Open, Kinds
  <2> QED BY <1>0, <1>2, <2>1, <2>2, ActType DEF Open, member, TypeInv
<1>3. ASSUME NEW v \in Vals, EditField(v) PROVE TypeInv'
  <2> DEFINE d == [dialog EXCEPT !.val = v, !.edited = @ \cup {"val"}, !.dirty = TRUE]
  <2>1. DialogOK(d) /\ Write(d)
    BY <1>0, <1>3, EditType DEF EditField
  <2> HIDE DEF d
  <2> QED BY <1>0, <1>3, <2>1, WriteType, ActType DEF EditField, member, TypeInv
<1>4. ASSUME NEW e \in Entries, Tick(e) PROVE TypeInv'
  <2> DEFINE d == [dialog EXCEPT !.conn = (@ \cup {e}) \ (@ \cap {e}), !.edited = @ \cup {"conn"},
                            !.dirty = TRUE]
  <2>1. DialogOK(d) /\ Write(d)
    BY <1>0, <1>4, TickType DEF Tick
  <2> HIDE DEF d
  <2> QED BY <1>0, <1>4, <2>1, WriteType, ActType DEF Tick, member, TypeInv
<1>5. CASE Save
  <2>1. net' \subseteq Request /\ IsFiniteSet(net')
    BY <1>0, <1>5, DraftType, SentAdds DEF Save
  <2> QED BY <1>0, <1>5, <2>1, ActType DEF Save, member, TypeInv
<1>6. ASSUME NEW N, N \subseteq Request, IsFiniteSet(N), Shut(N),
             UNCHANGED <<member, rows, list>>, upsets' \in 0..MaxUpsets
      PROVE  TypeInv'
  <2>1. net' \subseteq Request /\ IsFiniteSet(net')
    BY <1>6, UnheardKeeps, ReloadAdds DEF Shut
  <2> QED BY <1>0, <1>6, <2>1, ClosedType DEF Shut, member, TypeInv, Crosses, SaveUnderWay
<1>7. CASE closeProductEntryModal \/ closeInventoryDataEntryModal
  BY <1>0, <1>6, <1>7, ActType DEF closeProductEntryModal, closeInventoryDataEntryModal
<1>8. CASE Dismiss
  <2>1. net' \subseteq Request /\ IsFiniteSet(net')
    BY <1>0, <1>8, UnheardKeeps DEF Dismiss
  <2> QED BY <1>0, <1>8, <2>1, ClosedType, ActType DEF Dismiss, member, TypeInv, SaveUnderWay
<1>9. ASSUME NEW k \in Kinds, NEW e \in Entries, Ask(k, e) PROVE TypeInv'
  <2>1. net' \subseteq Request /\ IsFiniteSet(net')
    BY <1>0, <1>9, DraftType, SentAdds DEF Ask
  <2> QED BY <1>0, <1>9, <2>1, ActType DEF Ask, member, TypeInv
<1>10. ASSUME NEW r \in net, Index(r) PROVE TypeInv'
  <2> DEFINE q == [r EXCEPT !.status = "served", !.list = product_entries]
  <2>1. q \in Request
    BY <1>0, IndexedType, SeenType
  <2>2. net' = (net \ {r}) \cup {q}
    BY <1>10 DEF Index
  <2> HIDE DEF q
  <2>3. net' \subseteq Request /\ IsFiniteSet(net')
    BY <1>1, <2>1, <2>2, FS_AddElement
  <2> QED BY <1>0, <1>10, <2>3 DEF Index, Untouched, member, TypeInv
<1>11. ASSUME NEW r \in net, Create(r) \/ Update(r) \/ Destroy(r) \/ Restore(r) PROVE TypeInv'
  <2>1. Untouched
    BY <1>11 DEF Create, Update, Destroy, Restore
  <2>2. rows' \in [Entries -> Row] /\ net' \subseteq Request /\ IsFiniteSet(net')
    BY <1>11, ServeType, DoneNet
  <2> QED BY <1>0, <2>1, <2>2 DEF Untouched, member, TypeInv
<1>12. CASE Serve
  BY <1>10, <1>11, <1>12 DEF Serve
<1>13. ASSUME NEW r \in net, Loaded(r) PROVE TypeInv'
  <2>1. r.list \in [Entries -> Row]
    BY <1>0 DEF Request, Draft
  <2>2. DialogOK(dialog')
    BY <1>0, <1>13 DEF Loaded, DialogOK, Dialogs
  <2> QED BY <1>0, <1>1, <1>13, <2>1, <2>2 DEF Loaded, member, TypeInv
<1>14. CASE setupCheckboxes
  <2> DEFINE d == checkboxize(dialog, Seen(product_entries))
  <2>1. PICK r \in net : net' = net \ {r} /\ Write(d) /\ UNCHANGED <<member, rows, upsets, apart>>
    BY <1>14 DEF setupCheckboxes, Under
  <2>2. DialogOK(d)
    BY <1>0, CheckboxType DEF Seen
  <2> HIDE DEF d
  <2> QED BY <1>0, <1>1, <2>1, <2>2, WriteType DEF member, TypeInv
<1>15. CASE Saved
  <2>1. PICK r \in net : /\ \/ Shut(net \ {r})
                            \/ net' = net \ {r} /\ UNCHANGED <<dialog, apart>>
                         /\ UNCHANGED <<member, rows, list, upsets>>
    BY <1>15 DEF Saved, Answered
  <2>2. CASE Shut(net \ {r})
    BY <1>0, <1>1, <1>6, <2>1, <2>2
  <2>3. CASE net' = net \ {r} /\ UNCHANGED <<dialog, apart>>
    BY <1>0, <1>1, <2>1, <2>3 DEF member, TypeInv
  <2> QED BY <2>1, <2>2, <2>3
<1>16. CASE Changed
  <2>1. PICK r \in net :
           /\ net' = IF r.ok THEN Reloaded(net \ {r}) ELSE net \ {r}
           /\ apart' = (apart \/ (r.ok /\ Crosses(net)))
           /\ UNCHANGED <<member, rows, list, dialog, upsets>>
    BY <1>16 DEF Changed, Answered
  <2>2. net' \subseteq Request /\ IsFiniteSet(net')
    BY <1>1, <2>1, ReloadAdds
  <2>3. apart' \in BOOLEAN
    BY <1>0, <2>1 DEF Crosses
  <2> QED BY <1>0, <2>1, <2>2, <2>3 DEF member, TypeInv
<1>17. CASE Foreign
  <2>1. rows' \in [Entries -> Row]
    <3>1. PICK e \in Live(rows) :
             \/ \E v \in Vals \ {rows[e].val} : rows' = [rows EXCEPT ![e].val = v]
             \/ rows' = [rows EXCEPT ![e].at = "deleted"]
      BY <1>17 DEF Foreign
    <3>2. e \in Entries
      BY DEF Live
    <3>3. CASE \E v \in Vals \ {rows[e].val} : rows' = [rows EXCEPT ![e].val = v]
      <4>1. PICK v \in Vals : rows' = [rows EXCEPT ![e].val = v]
        BY <3>3
      <4>2. rows' = [rows EXCEPT ![e] = [rows[e] EXCEPT !.val = v]]
        BY <4>1
      <4>3. [rows[e] EXCEPT !.val = v] \in Row
        BY <1>0, <3>2, RowEdited
      <4> QED BY <1>0, <4>2, <4>3
    <3>4. CASE rows' = [rows EXCEPT ![e].at = "deleted"]
      <4>1. rows' = [rows EXCEPT ![e] = [rows[e] EXCEPT !.at = "deleted"]]
        BY <3>4
      <4>2. [rows[e] EXCEPT !.at = "deleted"] \in Row
        BY <1>0, <3>2, RowEdited
      <4> QED BY <1>0, <4>1, <4>2
    <3> QED BY <3>1, <3>3, <3>4
  <2> QED BY <1>0, <1>17, <2>1, ActType DEF Foreign, member, TypeInv
<1>18. CASE Fail
  BY <1>0, <1>1, <1>18, ActType DEF Fail, member, TypeInv
<1>19. CASE UNCHANGED vars
  BY <1>0, <1>19 DEF vars, member, TypeInv
<1>20. CASE showProductEntryModal \/ showInventoryDataEntryModal \/ AddEntry
  BY <1>2, <1>20 DEF showProductEntryModal, showInventoryDataEntryModal, AddEntry, Live
<1>21. CASE deleteProductEntry \/ deleteDataEntry
  BY <1>9, <1>21 DEF deleteProductEntry, deleteDataEntry, Live, Kinds
<1>22. CASE restoreProductEntry \/ restoreDataEntry
  BY <1>9, <1>22 DEF restoreProductEntry, restoreDataEntry, Seen, Kinds
<1>23. CASE LoadedProducts \/ LoadedData
  BY <1>13, <1>23 DEF LoadedProducts, LoadedData, Answered
<1> QED
  BY <1>3, <1>4, <1>5, <1>7, <1>8, <1>12, <1>14, <1>15, <1>16, <1>17, <1>18, <1>19, <1>20,
     <1>21, <1>22, <1>23 DEF Next, saveProductEntry, saveDataEntry

LEMMA TypesOK == TypeInv => TypeOK
BY DEF TypeInv, TypeOK, DialogOK, Dialogs, Request, Draft, Fields, Kinds

\* Rows, table, dialog and requests keep their types.
THEOREM TypeCorrect == Spec => []TypeOK
<1>1. Init => TypeInv
  BY InitTypeInv
<1>2. TypeInv /\ [Next]_vars => TypeInv'
  BY NextTypeInv
<1> QED BY <1>1, <1>2, TypesOK, PTL DEF Spec

---------------------------------------------------------------------------
(* Where entries come from                                                 *)

TableIn(K, t)  == \A e \in Entries : t[e].conn \subseteq K /\ (t[e].at # "none" => e \in K)
DialogIn(K, d) == d.conn \subseteq K /\ d.options \subseteq K /\ (d.id # New => d.id \in K)
RequestIn(K, q) == q.conn \subseteq K /\ TableIn(K, q.list)

\* The table, the dialog and the requests know entries that the database has
\* or has had, and what the dialog holds the table shows.
Roots ==
    /\ TableIn(Seen(rows), rows) /\ TableIn(Seen(rows), list)
    /\ DialogIn(Seen(rows), dialog) /\ \A q \in net : RequestIn(Seen(rows), q)
    /\ dialog.own => list[dialog.id].val = dialog.val /\ list[dialog.id].conn = dialog.conn

LEMMA AlikeIn ==
    ASSUME NEW K, NEW q, NEW r, q.conn = r.conn, q.list = r.list, RequestIn(K, r)
    PROVE  RequestIn(K, q)
BY DEF RequestIn, TableIn

LEMMA NothingIn ==
    ASSUME NEW K, NEW q, q.conn = {}, \A x \in Entries : q.list[x] = Absent
    PROVE  RequestIn(K, q)
BY DEF RequestIn, TableIn, Absent

LEMMA ReloadedIn ==
    ASSUME NEW K, NEW N, IsFiniteSet(N), N \subseteq Request, \A q \in N : RequestIn(K, q)
    PROVE  \A q \in Reloaded(N) : RequestIn(K, q)
BY ReloadAdds, NothingIn

LEMMA UnheardIn ==
    ASSUME NEW K, NEW N, IsFiniteSet(N), N \subseteq Request, \A q \in N : RequestIn(K, q)
    PROVE  \A q \in Unheard(N) : RequestIn(K, q)
<1> TAKE p \in Unheard(N)
<1>1. PICK q \in N : Alike(p, q)
  BY UnheardKeeps
<1> QED BY <1>1, AlikeIn DEF Alike

LEMMA SentIn ==
    ASSUME NEW K, NEW N, IsFiniteSet(N), N \subseteq Request, \A q \in N : RequestIn(K, q),
           NEW r \in Draft, RequestIn(K, r)
    PROVE  \A q \in Sent(N, r) : RequestIn(K, q)
<1>1. PICK q \in Request : Same(q, r) /\ Sent(N, r) = N \cup {q}
  BY SentAdds
<1>2. RequestIn(K, q)
  BY <1>1, AlikeIn DEF Same, Alike
<1> QED BY <1>1, <1>2

LEMMA ClosedIn == ASSUME NEW K PROVE DialogIn(K, Closed) /\ ~Closed.own
BY DEF DialogIn, Closed

\* What the database knows only grows.
LEMMA RootsGrow ==
    ASSUME Roots, TypeInv, TableIn(Seen(rows'), rows'), Seen(rows) \subseteq Seen(rows'),
           UNCHANGED <<list, dialog>>, \A q \in net' : RequestIn(Seen(rows), q)
    PROVE  Roots'
<1>1. TableIn(Seen(rows'), list')
  BY DEF Roots, TableIn
<1>2. DialogIn(Seen(rows'), dialog')
  BY DEF Roots, DialogIn
<1>3. \A q \in net' : RequestIn(Seen(rows'), q)
  BY DEF RequestIn, TableIn
<1> QED BY <1>1, <1>2, <1>3 DEF Roots

LEMMA InitRoots == Init => Roots
<1> SUFFICES ASSUME Init PROVE Roots
  OBVIOUS
<1>1. TableIn(Seen(rows), rows)
  BY DEF Init, TableIn, Seen, Absent
<1>2. TableIn(Seen(rows), list)
  BY DEF Init, TableIn, Absent
<1>3. DialogIn(Seen(rows), dialog) /\ ~dialog.own
  BY ClosedIn DEF Init
<1>4. \A q \in net : RequestIn(Seen(rows), q)
  BY ReloadedIn, FS_EmptySet DEF Init
<1> QED BY <1>1, <1>2, <1>3, <1>4 DEF Roots

LEMMA WriteRoots ==
    ASSUME TypeInv, Roots, NEW d, DialogOK(d), Write(d), DialogIn(Seen(rows), d),
           d.id = dialog.id, d.own = dialog.own, rows' = rows, net' \subseteq net
    PROVE  Roots'
<1>1. TableIn(Seen(rows), list')
  <2> SUFFICES ASSUME NEW e \in Entries
               PROVE  list'[e].conn \subseteq Seen(rows) /\ (list'[e].at # "none" => e \in Seen(rows))
    BY DEF TableIn
  <2>1. list[e].conn \subseteq Seen(rows) /\ (list[e].at # "none" => e \in Seen(rows))
    BY DEF Roots, TableIn
  <2>2. list'[e].at = list[e].at /\ (list'[e] = list[e] \/ list'[e].conn = d.conn)
    BY WriteType
  <2>3. d.conn \subseteq Seen(rows)
    BY DEF DialogIn
  <2> QED BY <2>1, <2>2, <2>3
<1>2. dialog' = d /\ (d.own => list'[d.id].val = d.val /\ list'[d.id].conn = d.conn)
  BY WriteType DEF DialogOK, Dialogs
<1> QED BY <1>1, <1>2 DEF Roots

LEMMA ServeRoots ==
    ASSUME TypeInv, Roots, NEW r \in net, Create(r) \/ Update(r) \/ Destroy(r) \/ Restore(r)
    PROVE  Roots'
<1>1. r \in Request /\ r.conn \subseteq Seen(rows)
  BY DEF TypeInv, Roots, RequestIn
<1>2. \A q \in net' : RequestIn(Seen(rows), q)
  <2>1. PICK ok \in BOOLEAN : net' = Done(r, ok)
    BY ServeType
  <2>2. PICK q \in Request : net' = (net \ {r}) \cup {q} /\ q.conn = r.conn /\ q.list = r.list
    BY <2>1, DoneNet
  <2>3. RequestIn(Seen(rows), q)
    BY <2>2, AlikeIn DEF Roots
  <2> QED BY <2>2, <2>3 DEF Roots
<1>3. UNCHANGED <<list, dialog>>
  BY DEF Create, Update, Destroy, Restore, Untouched
<1>4. rows \in [Entries -> Row] /\ TableIn(Seen(rows), rows)
  BY DEF TypeInv, Roots
<1>5. Seen(rows) \subseteq Seen(rows') /\ TableIn(Seen(rows'), rows')
  <2>1. CASE Create(r)
    <3>1. PICK e \in Free :
             rows' = [rows EXCEPT ![e] = [at |-> "live", val |-> r.val, conn |-> r.conn]]
      BY <2>1 DEF Create
    <3>2. e \in Entries /\ rows'[e].at = "live" /\ rows'[e].conn = r.conn
          /\ \A x \in Entries : x # e => rows'[x] = rows[x]
      BY <1>4, <3>1 DEF Free
    <3>3. Seen(rows) \subseteq Seen(rows')
      BY <3>2 DEF Seen
    <3>4. \A x \in Entries : rows'[x].conn \subseteq Seen(rows)
      BY <1>1, <1>4, <3>2 DEF TableIn
    <3> QED BY <3>3, <3>4 DEF TableIn, Seen
  <2>2. CASE Update(r)
    <3>1. CASE ~(facilitator /\ r.entry \in Live(rows))
      BY <1>4, <2>2, <3>1 DEF Update
    <3>2. CASE facilitator /\ r.entry \in Live(rows)
      <4>1. rows' = [rows EXCEPT ![r.entry] = product_entry_params(r)]
        BY <2>2, <3>2 DEF Update
      <4>2. /\ rows'[r.entry].at = "live" /\ r.entry \in Entries
            /\ rows'[r.entry].conn \in {r.conn, rows[r.entry].conn}
            /\ \A x \in Entries : x # r.entry => rows'[x] = rows[x]
        BY <1>1, <1>4, <3>2, <4>1, ParamsType DEF Live
      <4>3. Seen(rows) \subseteq Seen(rows')
        BY <4>2 DEF Seen
      <4>4. \A x \in Entries : rows'[x].conn \subseteq Seen(rows)
        BY <1>1, <1>4, <4>2 DEF TableIn
      <4> QED BY <4>3, <4>4 DEF TableIn, Seen
    <3> QED BY <3>1, <3>2
  <2>3. CASE Destroy(r)
    <3>1. CASE r.entry \notin Live(rows)
      BY <1>4, <2>3, <3>1 DEF Destroy
    <3>2. CASE r.entry \in Live(rows)
      <4>1. rows' = [rows EXCEPT ![r.entry].at = "deleted"] /\ r.entry \in Entries
        BY <2>3, <3>2 DEF Destroy, Live
      <4>2. /\ rows'[r.entry].at = "deleted"
            /\ \A x \in Entries : rows'[x].conn = rows[x].conn
            /\ \A x \in Entries : x # r.entry => rows'[x] = rows[x]
        BY <1>4, <4>1 DEF Row
      <4>3. Seen(rows) \subseteq Seen(rows')
        BY <4>2 DEF Seen
      <4> QED BY <1>4, <4>2, <4>3 DEF TableIn, Seen
    <3> QED BY <3>1, <3>2
  <2>4. CASE Restore(r)
    BY <1>4, <2>4 DEF Restore
  <2> QED BY <2>1, <2>2, <2>3, <2>4
<1> QED BY <1>2, <1>3, <1>5, RootsGrow

LEMMA NextRoots == TypeInv /\ Roots /\ [Next]_vars => Roots'
<1> SUFFICES ASSUME TypeInv, Roots, [Next]_vars PROVE Roots'
  OBVIOUS
<1> DEFINE K == Seen(rows)
<1>0. /\ rows \in [Entries -> Row] /\ list \in [Entries -> Row] /\ DialogOK(dialog)
      /\ IsFiniteSet(net) /\ net \subseteq Request
  BY DEF TypeInv
<1>1. /\ TableIn(K, rows) /\ TableIn(K, list) /\ DialogIn(K, dialog)
      /\ \A q \in net : RequestIn(K, q)
      /\ dialog.own => list[dialog.id].val = dialog.val /\ list[dialog.id].conn = dialog.conn
  BY DEF Roots
<1>2. \A r \in net : IsFiniteSet(net \ {r}) /\ net \ {r} \subseteq Request
  BY <1>0, FS_RemoveElement
<1>3. ASSUME rows' = rows, list' = list, DialogIn(K, dialog'), ~dialog'.own \/ dialog' = dialog,
             \A q \in net' : RequestIn(K, q)
      PROVE  Roots'
  BY <1>1, <1>3 DEF Roots
<1>4. ASSUME NEW k \in Kinds, NEW e \in Entries \cup {New} PROVE RequestIn(K, Req(k, e))
  BY <1>4, ReqType, NothingIn
<1> HIDE DEF K
<1>5. ASSUME NEW e \in Entries \cup {New}, Open(e), e # New => e \in Live(list) PROVE Roots'
  <2>1. DialogIn(K, dialog')
    BY <1>1, <1>5, OpenType DEF DialogIn, TableIn, Live
  <2>2. dialog'.own => list[e].val = dialog'.val /\ list[e].conn = dialog'.conn /\ e = dialog'.id
    BY <1>5, OpenType
  <2>3. \A q \in net' : RequestIn(K, q)
    BY <1>0, <1>1, <1>4, <1>5, DraftType, SentIn DEF Open, Kinds
  <2>4. rows' = rows /\ list' = list
    BY <1>5 DEF Open
  <2> QED BY <1>1, <2>1, <2>2, <2>3, <2>4 DEF Roots, K
<1>6. ASSUME NEW v \in Vals, EditField(v) PROVE Roots'
  <2> DEFINE d == [dialog EXCEPT !.val = v, !.edited = @ \cup {"val"}, !.dirty = TRUE]
  <2>1. /\ DialogOK(d) /\ d.conn = dialog.conn /\ d.options = dialog.options
        /\ d.id = dialog.id /\ d.own = dialog.own
    BY <1>0, EditType
  <2>2. Write(d) /\ rows' = rows /\ net' = net
    BY <1>6 DEF EditField
  <2> HIDE DEF d
  <2>3. DialogIn(Seen(rows), d)
    BY <1>1, <2>1 DEF DialogIn, K
  <2> QED BY <2>1, <2>2, <2>3, WriteRoots
<1>7. ASSUME NEW e \in Entries, Tick(e) PROVE Roots'
  <2> DEFINE d == [dialog EXCEPT !.conn = (@ \cup {e}) \ (@ \cap {e}), !.edited = @ \cup {"conn"},
                            !.dirty = TRUE]
  <2>0. e \in dialog.options
    BY <1>7 DEF Tick
  <2>1. /\ DialogOK(d) /\ d.conn \subseteq dialog.conn \cup {e} /\ d.options = dialog.options
        /\ d.id = dialog.id /\ d.own = dialog.own
    BY <1>0, <2>0, TickType
  <2>2. Write(d) /\ rows' = rows /\ net' = net
    BY <1>7 DEF Tick
  <2> HIDE DEF d
  <2>3. DialogIn(Seen(rows), d)
    BY <1>1, <2>0, <2>1 DEF DialogIn, K
  <2> QED BY <2>1, <2>2, <2>3, WriteRoots
<1>8. CASE Save
  <2>1. RequestIn(K, [Req("save", dialog.id) EXCEPT !.val = dialog.val, !.conn = dialog.conn,
                                                    !.edited = dialog.edited])
    <3> DEFINE s == [Req("save", dialog.id) EXCEPT !.val = dialog.val, !.conn = dialog.conn,
                                                   !.edited = dialog.edited]
    <3>1. s.conn = dialog.conn /\ s.list = [x \in Entries |-> Absent]
      BY DraftType
    <3> HIDE DEF s
    <3>2. RequestIn(K, s)
      BY <1>1, <3>1 DEF RequestIn, TableIn, DialogIn, Absent
    <3> QED BY <3>2 DEF s
  <2>2. \A q \in net' : RequestIn(K, q)
    BY <1>0, <1>1, <1>8, <2>1, DraftType, SentIn DEF Save
  <2> QED BY <1>1, <1>3, <1>8, <2>2 DEF Save
<1>9. ASSUME NEW N, N \subseteq net, IsFiniteSet(N), Shut(N), rows' = rows, list' = list
      PROVE  Roots'
  <2>1. N \subseteq Request /\ \A q \in N : RequestIn(K, q)
    BY <1>0, <1>1, <1>9
  <2>2. \A q \in Unheard(N) : RequestIn(K, q)
    BY <1>9, <2>1, UnheardIn
  <2>3. \A q \in net' : RequestIn(K, q)
    BY <1>9, <2>1, <2>2, UnheardKeeps, ReloadedIn DEF Shut
  <2> QED BY <1>3, <1>9, <2>3, ClosedIn DEF Shut
<1>10. CASE closeProductEntryModal \/ closeInventoryDataEntryModal
  BY <1>0, <1>9, <1>10 DEF closeProductEntryModal, closeInventoryDataEntryModal
<1>11. CASE Dismiss
  BY <1>0, <1>1, <1>3, <1>11, UnheardIn, ClosedIn DEF Dismiss
<1>12. ASSUME NEW k \in Kinds, NEW e \in Entries, Ask(k, e) PROVE Roots'
  <2>1. \A q \in net' : RequestIn(K, q)
    BY <1>0, <1>1, <1>4, <1>12, DraftType, SentIn DEF Ask
  <2> QED BY <1>1, <1>3, <1>12, <2>1 DEF Ask
<1>13. ASSUME NEW r \in net, Index(r) PROVE Roots'
  <2> DEFINE q == [r EXCEPT !.status = "served", !.list = product_entries]
  <2>1. q.conn = r.conn /\ q.list = product_entries
    BY <1>0, IndexedType, SeenType
  <2>2. net' = (net \ {r}) \cup {q}
    BY <1>13 DEF Index
  <2> HIDE DEF q
  <2>3. TableIn(K, product_entries)
    BY <1>1, SeenType DEF TableIn, Absent
  <2>4. RequestIn(K, q)
    BY <1>1, <2>1, <2>3 DEF RequestIn
  <2> QED BY <1>1, <1>3, <1>13, <2>2, <2>4 DEF Index, Untouched
<1>14. CASE Serve
  BY <1>13, <1>14, ServeRoots DEF Serve
<1>15. ASSUME NEW r \in net, Loaded(r) PROVE Roots'
  <2>1. TableIn(K, list')
    BY <1>1, <1>15 DEF Loaded, RequestIn
  <2>2. /\ dialog'.conn = dialog.conn /\ dialog'.options = dialog.options
        /\ dialog'.id = dialog.id /\ dialog'.own = FALSE
    BY <1>0, <1>15 DEF Loaded, DialogOK, Dialogs
  <2>3. DialogIn(K, dialog')
    BY <1>1, <2>2 DEF DialogIn
  <2>4. rows' = rows /\ net' \subseteq net
    BY <1>15 DEF Loaded
  <2> QED BY <1>1, <2>1, <2>2, <2>3, <2>4 DEF Roots, K
<1>16. CASE setupCheckboxes
  <2> DEFINE d == checkboxize(dialog, Seen(product_entries))
  <2>1. PICK r \in net : net' = net \ {r} /\ Write(d) /\ UNCHANGED <<member, rows, upsets, apart>>
    BY <1>16 DEF setupCheckboxes, Under
  <2>2. Seen(product_entries) \subseteq K
    BY SeenType DEF Seen, Absent, K
  <2>3. /\ DialogOK(d) /\ d.id = dialog.id /\ d.own = dialog.own
        /\ d.conn \subseteq dialog.conn /\ d.options = Seen(product_entries)
    BY <1>0, CheckboxType DEF Seen
  <2> HIDE DEF d
  <2>4. DialogIn(Seen(rows), d)
    BY <1>1, <2>2, <2>3 DEF DialogIn, K
  <2> QED BY <2>1, <2>3, <2>4, WriteRoots
<1>17. CASE Saved
  <2>1. PICK r \in net : /\ \/ Shut(net \ {r})
                            \/ net' = net \ {r} /\ UNCHANGED <<dialog, apart>>
                         /\ UNCHANGED <<member, rows, list, upsets>>
    BY <1>17 DEF Saved, Answered
  <2>2. CASE Shut(net \ {r})
    BY <1>2, <1>9, <2>1, <2>2
  <2>3. CASE net' = net \ {r} /\ UNCHANGED <<dialog, apart>>
    BY <1>1, <1>3, <2>1, <2>3
  <2> QED BY <2>1, <2>2, <2>3
<1>18. CASE Changed
  <2>1. PICK r \in net :
           /\ net' = IF r.ok THEN Reloaded(net \ {r}) ELSE net \ {r}
           /\ UNCHANGED <<member, rows, list, dialog, upsets>>
    BY <1>18 DEF Changed, Answered
  <2>2. \A q \in net' : RequestIn(K, q)
    BY <1>1, <1>2, <2>1, ReloadedIn
  <2> QED BY <1>1, <1>3, <2>1, <2>2
<1>19. CASE Foreign
  <2>1. PICK e \in Live(rows) :
           \/ \E v \in Vals \ {rows[e].val} : rows' = [rows EXCEPT ![e].val = v]
           \/ rows' = [rows EXCEPT ![e].at = "deleted"]
    BY <1>19 DEF Foreign
  <2>2. e \in Entries /\ rows[e].at = "live"
    BY DEF Live
  <2>3. /\ \A x \in Entries : rows'[x].conn = rows[x].conn
        /\ \A x \in Entries : rows'[x].at = rows[x].at \/ (x = e /\ rows'[x].at = "deleted")
    <3>1. CASE \E v \in Vals \ {rows[e].val} : rows' = [rows EXCEPT ![e].val = v]
      BY <1>0, <2>2, <3>1 DEF Row
    <3>2. CASE rows' = [rows EXCEPT ![e].at = "deleted"]
      BY <1>0, <2>2, <3>2 DEF Row
    <3> QED BY <2>1, <3>1, <3>2
  <2>4. Seen(rows') = Seen(rows)
    BY <2>2, <2>3 DEF Seen
  <2>5. TableIn(Seen(rows'), rows')
    BY <1>1, <2>3, <2>4 DEF TableIn, Seen, K
  <2>6. UNCHANGED <<list, dialog, net>>
    BY <1>19 DEF Foreign
  <2> QED BY <1>1, <2>4, <2>5, <2>6, RootsGrow DEF K
<1>20. CASE Fail
  BY <1>1, <1>3, <1>20 DEF Fail
<1>21. CASE UNCHANGED vars
  BY <1>1, <1>3, <1>21 DEF vars
<1>22. CASE showProductEntryModal \/ showInventoryDataEntryModal \/ AddEntry
  BY <1>5, <1>22 DEF showProductEntryModal, showInventoryDataEntryModal, AddEntry, Live
<1>23. CASE deleteProductEntry \/ deleteDataEntry
  BY <1>12, <1>23 DEF deleteProductEntry, deleteDataEntry, Live, Kinds
<1>24. CASE restoreProductEntry \/ restoreDataEntry
  BY <1>12, <1>24 DEF restoreProductEntry, restoreDataEntry, Seen, Kinds
<1>25. CASE LoadedProducts \/ LoadedData
  BY <1>15, <1>25 DEF LoadedProducts, LoadedData, Answered
<1> QED
  BY <1>6, <1>7, <1>8, <1>10, <1>11, <1>14, <1>16, <1>17, <1>18, <1>19, <1>20, <1>21, <1>22,
     <1>23, <1>24, <1>25 DEF Next, saveProductEntry, saveDataEntry

---------------------------------------------------------------------------
(* The inductive invariant                                                 *)

Agrees(a, b) == a.val = b.val /\ a.conn = b.conn

\* Requests that were done and whose answer is to come.
Fulfilled(q)     == q.status = "served" /\ q.ok
Stored(N, e)     == \E q \in N : q.kind = "save" /\ Fulfilled(q) /\ q.entry = e
Carried(N, e, f) == \E q \in N : q.kind = "save" /\ Fulfilled(q) /\ q.entry = e /\ f \in q.edited
Pending(N)       == \E q \in N : q.kind \notin {"load", "options"} /\ Fulfilled(q)

\* Saves belong to the open dialog.
Attended ==
    \A q \in net : q.kind = "save" =>
       q.heard /\ dialog.open /\ q.entry = dialog.id /\ q.edited \subseteq dialog.edited

\* A table on its way is that of the database, but for what is still to be answered.
Loads ==
    \A q \in net : q.kind = "load" /\ q.status = "served" =>
       /\ \A e \in Live(rows) : q.list[e].at = "live" => Agrees(q.list[e], rows[e]) \/ Stored(net, e)
       /\ q.list = product_entries \/ Pending(net)

\* So is the table on screen, but for a load on its way and what is being edited.
Shown ==
    /\ \A e \in Live(rows) :
          list[e].at = "live" /\ ~(dialog.own /\ dialog.dirty /\ e = dialog.id) =>
             Agrees(list[e], rows[e]) \/ Crosses(net) \/ Stored(net, e)
    /\ list = product_entries \/ Crosses(net) \/ Pending(net) \/ (dialog.own /\ dialog.dirty)

\* What was not edited, in the dialog or a save, is what the database has.
Edits ==
    dialog.open /\ dialog.id \in Live(rows) =>
       /\ "val" \notin dialog.edited => dialog.val = rows[dialog.id].val
       /\ facilitator /\ "conn" \notin dialog.edited => dialog.conn = rows[dialog.id].conn

Saves ==
    \A q \in net : q.kind = "save" /\ q.entry \in Live(rows) =>
       /\ "val" \notin q.edited =>
             q.val = rows[q.entry].val \/ Carried(net, q.entry, "val")
       /\ facilitator /\ "conn" \notin q.edited =>
             q.conn = rows[q.entry].conn \/ Carried(net, q.entry, "conn")

Sound == Attended /\ Loads /\ Shown /\ Edits /\ Saves
IInv  == ~apart => Sound

LEMMA InitIInv == Init => IInv
<1> SUFFICES ASSUME Init PROVE Sound
  BY DEF IInv
<1>1. PICK l \in Request : l.kind = "load" /\ l.status = "sent" /\ net = {} \cup {l}
  BY ReloadAdds, FS_EmptySet DEF Init
<1>2. Crosses(net)
  BY <1>1 DEF Crosses, Under
<1>3. ~dialog.open
  BY DEF Init, Closed
<1> QED BY <1>1, <1>2, <1>3 DEF Sound, Attended, Loads, Shown, Edits, Saves

---------------------------------------------------------------------------
(* Steps of the requests                                                   *)

Still == UNCHANGED <<member, rows, list, dialog>>

\* Requests that are not done yet come, and requests that changed nothing go.
LEMMA NetStep ==
    ASSUME TypeInv, Sound, Still,
           \A q \in net : q \in net' \/ (q.kind # "load" /\ ~Fulfilled(q)) \/ q.kind = "options",
           \A q \in net' : q \in net \/ (q.kind # "save" /\ q.status = "sent")
    PROVE  Sound'
<1>1. /\ \A e : Stored(net, e) => Stored(net', e)
      /\ \A e, f : Carried(net, e, f) => Carried(net', e, f)
  BY DEF Stored, Carried
<1>2. (Pending(net) => Pending(net')) /\ (Crosses(net) => Crosses(net'))
  BY DEF Pending, Crosses, Under
<1>3. /\ rows' = rows /\ list' = list /\ dialog' = dialog /\ facilitator' = facilitator
      /\ product_entries' = product_entries
  BY DEF Still, member, product_entries
<1>4. Attended'
  BY <1>3 DEF Sound, Attended
<1>5. Loads'
  BY <1>1, <1>2, <1>3 DEF Sound, Loads
<1>6. Shown'
  BY <1>1, <1>2, <1>3 DEF Sound, Shown
<1>7. Edits'
  BY <1>3 DEF Sound, Edits
<1>8. Saves'
  BY <1>1, <1>3 DEF Sound, Saves
<1> QED BY <1>4, <1>5, <1>6, <1>7, <1>8 DEF Sound

\* The table is loaded again, after something was done.
LEMMA ReloadStep ==
    ASSUME TypeInv, Sound, Still, NEW r \in net, r.kind \notin {"load", "options", "save"},
           ~Crosses(net), net' = Reloaded(net \ {r})
    PROVE  Sound'
<1>1. IsFiniteSet(net \ {r}) /\ net \ {r} \subseteq Request
  BY FS_RemoveElement DEF TypeInv
<1>2. PICK l \in Request : l.kind = "load" /\ l.status = "sent" /\ net' = (net \ {r}) \cup {l}
  BY <1>1, ReloadAdds
<1>3. /\ \A e : Stored(net, e) => Stored(net', e)
      /\ \A e, f : Carried(net, e, f) => Carried(net', e, f)
  BY <1>2 DEF Stored, Carried
<1>4. Crosses(net') /\ \A q \in net' : q.kind = "load" => q = l
  BY <1>2 DEF Crosses, Under
<1>5. rows' = rows /\ list' = list /\ dialog' = dialog /\ facilitator' = facilitator
  BY DEF Still, member
<1>6. \A q \in net' : q.kind = "save" => q \in net
  BY <1>2
<1>7. Attended'
  BY <1>5, <1>6 DEF Sound, Attended
<1>8. Loads'
  BY <1>2, <1>4 DEF Loads
<1>9. Shown'
  BY <1>4 DEF Shown
<1>10. Edits'
  BY <1>5 DEF Sound, Edits
<1>11. Saves'
  BY <1>3, <1>5, <1>6 DEF Sound, Saves
<1> QED BY <1>7, <1>8, <1>9, <1>10, <1>11 DEF Sound

\* The dialog is closed by its buttons or its save, and the table is loaded again.
LEMMA ShutStep ==
    ASSUME TypeInv, Sound, NEW N, N \subseteq net, IsFiniteSet(N), Shut(N), ~apart'
    PROVE  Sound'
<1>1. N \subseteq Request /\ ~Crosses(N) /\ ~SaveUnderWay(N)
  BY DEF TypeInv, Shut
<1>2. PICK l \in Request : l.kind = "load" /\ l.status = "sent" /\ net' = Unheard(N) \cup {l}
  BY <1>1, UnheardKeeps, ReloadAdds DEF Shut
<1>3. \A q \in N : q.kind \notin {"load", "save"}
  BY <1>1 DEF Crosses, SaveUnderWay, Under, Sound, Attended
<1>4. \A q \in Unheard(N) : q.kind \notin {"load", "save"}
  BY <1>1, <1>3, UnheardKeeps DEF Alike
<1>5. Crosses(net') /\ ~dialog'.open
  BY <1>2 DEF Crosses, Under, Shut, Closed
<1> QED BY <1>2, <1>4, <1>5 DEF Sound, Attended, Loads, Shown, Edits, Saves

LEMMA DismissStep ==
    ASSUME TypeInv, Sound, Dismiss, ~apart'
    PROVE  Sound'
<1>0. IsFiniteSet(net) /\ net \subseteq Request
  BY DEF TypeInv
<1>1. ~SaveUnderWay(net) /\ ~(dialog.own /\ dialog.dirty)
  BY DEF Dismiss
<1>2. \A q \in net : q.kind # "save"
  BY <1>1 DEF SaveUnderWay, Under, Sound, Attended
<1>3. /\ \A p \in net' : \E q \in net : q.kind # "options" /\ Alike(p, q)
      /\ \A q \in net : q.kind # "options" => \E p \in net' : Alike(p, q)
  BY <1>0, UnheardKeeps DEF Dismiss
<1>4. \A q \in net' : q.kind # "save"
  BY <1>2, <1>3 DEF Alike
<1>5. Pending(net) => Pending(net')
  BY <1>3 DEF Pending, Fulfilled, Alike
<1>6. Crosses(net) => Crosses(net')
  BY <1>3 DEF Crosses, Under, Alike
<1>7. \A e : ~Stored(net, e)
  BY <1>2 DEF Stored
<1>8. /\ rows' = rows /\ list' = list /\ ~dialog'.open /\ ~dialog'.own
      /\ product_entries' = product_entries
  BY DEF Dismiss, member, product_entries, Closed
<1>9. Loads'
  <2> SUFFICES ASSUME NEW p \in net', p.kind = "load", p.status = "served"
               PROVE  /\ \A e \in Live(rows) : p.list[e].at = "live" => Agrees(p.list[e], rows[e])
                      /\ p.list = product_entries \/ Pending(net)
    BY <1>5, <1>8 DEF Loads
  <2>1. PICK q \in net : q.kind = "load" /\ q.status = "served" /\ q.list = p.list
    BY <1>3 DEF Alike
  <2> QED BY <1>7, <2>1 DEF Sound, Loads
<1>10. Shown'
  BY <1>1, <1>5, <1>6, <1>7, <1>8 DEF Sound, Shown
<1> QED BY <1>4, <1>8, <1>9, <1>10 DEF Sound, Attended, Edits, Saves

LEMMA SaveStep ==
    ASSUME TypeInv, Sound, Save
    PROVE  Sound'
<1>0. IsFiniteSet(net) /\ net \subseteq Request
  BY DEF TypeInv
<1>1. PICK s \in Request :
         /\ net' = net \cup {s} /\ s.kind = "save" /\ s.status = "sent" /\ s.heard
         /\ s.entry = dialog.id /\ s.edited = dialog.edited
         /\ s.val = dialog.val /\ s.conn = dialog.conn
  <2> DEFINE d == [Req("save", dialog.id) EXCEPT !.val = dialog.val, !.conn = dialog.conn,
                                                 !.edited = dialog.edited]
  <2>1. /\ d \in Draft /\ d.kind = "save" /\ d.entry = dialog.id /\ d.val = dialog.val
        /\ d.conn = dialog.conn /\ d.edited = dialog.edited /\ d.status = "sent" /\ d.heard = TRUE
    BY DraftType
  <2>2. net' = Sent(net, d)
    BY DEF Save
  <2> HIDE DEF d
  <2>3. PICK q \in Request : Same(q, d) /\ net' = net \cup {q}
    BY <1>0, <2>1, <2>2, SentAdds
  <2> QED BY <2>1, <2>3 DEF Same, Alike
<1>2. /\ \A e : Stored(net, e) => Stored(net', e)
      /\ \A e, f : Carried(net, e, f) => Carried(net', e, f)
  BY <1>1 DEF Stored, Carried
<1>3. (Pending(net) => Pending(net')) /\ (Crosses(net) => Crosses(net'))
  BY <1>1 DEF Pending, Crosses, Under
<1>4. /\ rows' = rows /\ list' = list /\ dialog' = dialog /\ facilitator' = facilitator
      /\ product_entries' = product_entries /\ dialog.open
  BY DEF Save, member, product_entries
<1>5. Attended'
  BY <1>1, <1>4 DEF Sound, Attended
<1>6. Loads'
  BY <1>1, <1>2, <1>3, <1>4 DEF Sound, Loads
<1>7. Shown'
  BY <1>2, <1>3, <1>4 DEF Sound, Shown
<1>8. Edits'
  BY <1>4 DEF Sound, Edits
<1>9. Saves'
  BY <1>1, <1>2, <1>4 DEF Sound, Saves, Edits
<1> QED BY <1>5, <1>6, <1>7, <1>8, <1>9 DEF Sound

---------------------------------------------------------------------------
(* Steps of the dialog                                                     *)

LEMMA OpenStep ==
    ASSUME TypeInv, Sound, NEW e \in Entries \cup {New}, Open(e), e # New => e \in Live(list),
           ~apart'
    PROVE  Sound'
<1>1. ~dialog.open /\ ~dialog.own /\ ~Crosses(net) /\ rows' = rows /\ list' = list
      /\ facilitator' = facilitator /\ product_entries' = product_entries
  BY DEF Open, TypeInv, DialogOK, member, product_entries
<1>2. \A q \in net : q.kind \notin {"load", "save"}
  BY <1>1 DEF Sound, Attended, Crosses, Under
<1>3. net \subseteq net' /\ \A q \in net' : q \in net \/ q.kind = "options"
  <2>1. IsFiniteSet(net) /\ net \subseteq Request
    BY DEF TypeInv
  <2>2. Req("options", e) \in Draft /\ Req("options", e).kind = "options"
    BY ReqType DEF Kinds
  <2>3. net' = net \/ \E q \in Request : q.kind = "options" /\ net' = net \cup {q}
    BY <2>1, <2>2, SentAdds DEF Open, Same, Alike
  <2> QED BY <2>3
<1>4. (Pending(net) => Pending(net')) /\ \A x : ~Stored(net, x)
  BY <1>2, <1>3 DEF Pending, Stored
<1>5. \A q \in net' : q.kind \notin {"load", "save"}
  BY <1>2, <1>3
<1>6. Shown'
  BY <1>1, <1>4 DEF Sound, Shown
<1>7. Edits'
  <2> SUFFICES ASSUME e \in Live(rows)
               PROVE  dialog'.val = rows[e].val /\ dialog'.conn = rows[e].conn
    BY <1>1, OpenType DEF Edits
  <2>1. e # New /\ e \in Live(list)
    BY EntriesOK DEF EntriesOK, Live
  <2>2. Agrees(list[e], rows[e])
    BY <1>1, <1>4, <2>1 DEF Sound, Shown, Live
  <2> QED BY <2>1, <2>2, OpenType DEF Agrees
<1> QED BY <1>5, <1>6, <1>7 DEF Sound, Attended, Loads, Saves

\* What is written into the dialog was edited, or it was there before.
LEMMA WriteStep ==
    ASSUME TypeInv, Roots, Sound, NEW d, DialogOK(d), Write(d),
           d.open = dialog.open, d.id = dialog.id, d.own = dialog.own,
           dialog.edited \subseteq d.edited, dialog.dirty => d.dirty,
           d.dirty \/ (d.val = dialog.val /\ d.conn = dialog.conn),
           "val" \in d.edited \/ d.val = dialog.val,
           facilitator => "conn" \in d.edited \/ d.conn = dialog.conn,
           UNCHANGED <<member, rows>>,
           net' \subseteq net, \A q \in net : q.kind # "options" => q \in net'
    PROVE  Sound'
<1>1. /\ \A e : Stored(net, e) => Stored(net', e)
      /\ \A e, f : Carried(net, e, f) => Carried(net', e, f)
  BY DEF Stored, Carried
<1>2. (Pending(net) => Pending(net')) /\ (Crosses(net) => Crosses(net'))
  BY DEF Pending, Crosses, Under
<1>3. dialog' = d /\ rows' = rows /\ facilitator' = facilitator /\ product_entries' = product_entries
  BY WriteType DEF member, product_entries
<1>4. \A x \in Entries : list'[x] = list[x] \/ (d.own /\ d.dirty /\ x = d.id)
  <2> SUFFICES ASSUME NEW x \in Entries, d.own, ~d.dirty, x = d.id PROVE list'[x] = list[x]
    BY WriteType
  <2>1. list'[x].val = d.val /\ list'[x].conn = d.conn /\ list'[x].at = list[x].at
    BY WriteType
  <2>2. list[x].val = d.val /\ list[x].conn = d.conn
    BY DEF Roots
  <2>3. list[x] \in Row /\ list'[x] \in Row
    BY WriteType DEF TypeInv
  <2> QED BY <2>1, <2>2, <2>3 DEF Row
<1>5. list' \in [Entries -> Row] /\ list \in [Entries -> Row]
  BY WriteType DEF TypeInv
<1>6. list' = list \/ (d.own /\ d.dirty)
  BY <1>4, <1>5
<1>7. Attended'
  BY <1>3 DEF Sound, Attended
<1>8. Loads'
  BY <1>1, <1>2, <1>3 DEF Sound, Loads
<1>9. Shown'
  <2>1. ASSUME NEW e \in Live(rows), list'[e].at = "live", ~(d.own /\ d.dirty /\ e = d.id)
        PROVE  Agrees(list'[e], rows[e]) \/ Crosses(net') \/ Stored(net', e)
    <3>1. e \in Entries /\ list'[e] = list[e]
      BY <1>4, <2>1 DEF Live
    <3> QED BY <1>1, <1>2, <2>1, <3>1 DEF Sound, Shown
  <2>2. list' = product_entries \/ Crosses(net') \/ Pending(net') \/ (d.own /\ d.dirty)
    BY <1>2, <1>6 DEF Sound, Shown
  <2> QED BY <1>3, <2>1, <2>2 DEF Shown
<1>10. Edits'
  BY <1>3 DEF Sound, Edits
<1>11. Saves'
  BY <1>1, <1>3 DEF Sound, Saves
<1> QED BY <1>7, <1>8, <1>9, <1>10, <1>11 DEF Sound

LEMMA LoadedStep ==
    ASSUME TypeInv, Sound, NEW r \in net, r.kind = "load", r.status = "served", Loaded(r)
    PROVE  Sound'
<1>1. /\ net' = net \ {r} /\ list' = r.list /\ rows' = rows /\ facilitator' = facilitator
      /\ product_entries' = product_entries
  BY DEF Loaded, member, product_entries
<1>2. /\ dialog'.own = FALSE /\ dialog'.open = dialog.open /\ dialog'.id = dialog.id
      /\ dialog'.edited = dialog.edited /\ dialog'.val = dialog.val /\ dialog'.conn = dialog.conn
  BY DEF Loaded, TypeInv, DialogOK, Dialogs
<1>3. /\ \A e : Stored(net, e) => Stored(net', e)
      /\ \A e, f : Carried(net, e, f) => Carried(net', e, f)
      /\ Pending(net) => Pending(net')
  BY <1>1 DEF Stored, Carried, Pending
<1>4. Attended'
  BY <1>1, <1>2 DEF Sound, Attended
<1>5. Loads'
  BY <1>1, <1>3 DEF Sound, Loads
<1>6. Shown'
  BY <1>1, <1>3 DEF Sound, Shown, Loads
<1>7. Edits'
  BY <1>1, <1>2 DEF Sound, Edits
<1>8. Saves'
  BY <1>1, <1>3 DEF Sound, Saves
<1> QED BY <1>4, <1>5, <1>6, <1>7, <1>8 DEF Sound

---------------------------------------------------------------------------
(* Steps of the server                                                     *)

LEMMA IndexStep ==
    ASSUME TypeInv, Sound, NEW r \in net, Index(r)
    PROVE  Sound'
<1> DEFINE q == [r EXCEPT !.status = "served", !.list = product_entries]
<1>1. q.kind = "load" /\ q.list = product_entries
  BY IndexedType, SeenType DEF TypeInv, Index
<1>2. net' = (net \ {r}) \cup {q} /\ r.kind = "load"
  BY DEF Index
<1> HIDE DEF q
<1>3. /\ rows' = rows /\ list' = list /\ dialog' = dialog /\ facilitator' = facilitator
      /\ product_entries' = product_entries
  BY DEF Index, Untouched, member, product_entries
<1>4. /\ \A e : Stored(net, e) => Stored(net', e)
      /\ \A e, f : Carried(net, e, f) => Carried(net', e, f)
      /\ (Pending(net) => Pending(net')) /\ Crosses(net')
  BY <1>1, <1>2 DEF Stored, Carried, Pending, Crosses, Under
<1>5. Attended'
  BY <1>1, <1>2, <1>3 DEF Sound, Attended
<1>6. Loads'
  <2>1. \A e \in Live(rows) : product_entries[e] = rows[e]
    BY SeenType
  <2> QED BY <1>1, <1>2, <1>3, <1>4, <2>1 DEF Sound, Loads, Agrees
<1>7. Shown'
  BY <1>4 DEF Shown
<1>8. Edits'
  BY <1>3 DEF Sound, Edits
<1>9. Saves'
  BY <1>1, <1>2, <1>3, <1>4 DEF Sound, Saves
<1> QED BY <1>5, <1>6, <1>7, <1>8, <1>9 DEF Sound

\* The request q takes the place of r when it is done.
Replaces(q, r) ==
    /\ r.status = "sent" /\ r.kind \notin {"load", "options"}
    /\ net' = (net \ {r}) \cup {q}
    /\ q.kind = r.kind /\ q.entry = r.entry /\ q.val = r.val /\ q.conn = r.conn
    /\ q.edited = r.edited /\ q.list = r.list /\ q.heard = r.heard /\ q.status = "served"

LEMMA DoneStep ==
    ASSUME TypeInv, Sound, NEW r \in net, NEW q, Replaces(q, r), UNCHANGED dialog
    PROVE  /\ \A e : Stored(net, e) => Stored(net', e)
           /\ \A e, f : Carried(net, e, f) => Carried(net', e, f)
           /\ (Pending(net) => Pending(net')) /\ (Crosses(net) => Crosses(net'))
           /\ q.ok => Pending(net')
           /\ q.ok /\ q.kind = "save" =>
                 /\ Stored(net', q.entry)
                 /\ \A f \in q.edited : Carried(net', q.entry, f)
           /\ Attended'
<1>1. ~Fulfilled(r) /\ q.kind \notin {"load", "options"}
  BY DEF Fulfilled, Replaces
<1>2. \A p \in net : p = r \/ p \in net'
  BY DEF Replaces
<1>3. /\ \A e : Stored(net, e) => Stored(net', e)
      /\ \A e, f : Carried(net, e, f) => Carried(net', e, f)
      /\ Pending(net) => Pending(net')
  BY <1>1, <1>2 DEF Stored, Carried, Pending
<1>4. Crosses(net) => Crosses(net')
  BY <1>2 DEF Crosses, Under, Replaces
<1>5. q \in net' /\ (q.ok => Fulfilled(q))
  BY DEF Replaces, Fulfilled
<1>6. (q.ok => Pending(net'))
  BY <1>1, <1>5 DEF Pending
<1>7. q.ok /\ q.kind = "save" =>
         Stored(net', q.entry) /\ \A f \in q.edited : Carried(net', q.entry, f)
  BY <1>5 DEF Stored, Carried
<1>8. Attended'
  BY DEF Sound, Attended, Replaces
<1> QED BY <1>3, <1>4, <1>6, <1>7, <1>8

LEMMA RefusedStep ==
    ASSUME TypeInv, Sound, NEW r \in net, NEW q, Replaces(q, r), Still
    PROVE  Sound'
<1>1. /\ rows' = rows /\ list' = list /\ dialog' = dialog /\ facilitator' = facilitator
      /\ product_entries' = product_entries
  BY DEF Still, member, product_entries
<1>2. Loads'
  BY <1>1, DoneStep DEF Sound, Loads, Replaces
<1>3. Shown'
  BY <1>1, DoneStep DEF Sound, Shown
<1>4. Edits'
  BY <1>1 DEF Sound, Edits
<1>5. Saves'
  BY <1>1, DoneStep DEF Sound, Saves, Replaces
<1> QED BY <1>1, <1>2, <1>3, <1>4, <1>5, DoneStep DEF Sound

\* What a request that was done changes, the table on screen and those on
\* their way may not show yet.
LEMMA ChangedRows ==
    ASSUME TypeInv, Roots, Sound, NEW r \in net, NEW q, Replaces(q, r), q.ok,
           UNCHANGED <<list, dialog>>,
           \A e \in Live(rows') :
              \/ e \notin Seen(rows)
              \/ e \in Live(rows) /\ (Agrees(rows'[e], rows[e]) \/ Stored(net', e))
    PROVE  Loads' /\ Shown'
<1>1. \A e : Stored(net, e) => Stored(net', e)
  BY DoneStep
<1>2. Pending(net') /\ (Crosses(net) => Crosses(net'))
  BY DoneStep
<1>3. \A p \in net' : p.kind = "load" => p \in net
  BY DEF Replaces
<1>4. \A e \in Live(rows') : e \in Entries
  BY DEF Live
<1>5. Loads'
  <2> SUFFICES ASSUME NEW p \in net', p.kind = "load", p.status = "served",
                      NEW e \in Live(rows'), p.list[e].at = "live"
               PROVE  Agrees(p.list[e], rows'[e]) \/ Stored(net', e)
    BY <1>2 DEF Loads
  <2>1. e \in Seen(rows)
    BY <1>3, <1>4 DEF Roots, RequestIn, TableIn
  <2>2. CASE Stored(net', e)
    BY <2>2
  <2>3. CASE Agrees(rows'[e], rows[e]) /\ e \in Live(rows) /\ ~Stored(net', e)
    BY <1>1, <1>3, <2>3 DEF Sound, Loads, Agrees
  <2> QED BY <2>1, <2>2, <2>3
<1>6. Shown'
  <2> SUFFICES ASSUME NEW e \in Live(rows'), list[e].at = "live",
                      ~(dialog.own /\ dialog.dirty /\ e = dialog.id)
               PROVE  Agrees(list[e], rows'[e]) \/ Crosses(net') \/ Stored(net', e)
    BY <1>2 DEF Shown
  <2>1. e \in Seen(rows)
    BY <1>4 DEF Roots, TableIn
  <2>2. CASE Stored(net', e)
    BY <2>2
  <2>3. CASE Agrees(rows'[e], rows[e]) /\ e \in Live(rows) /\ ~Stored(net', e)
    BY <1>1, <1>2, <2>3 DEF Sound, Shown, Agrees
  <2> QED BY <2>1, <2>2, <2>3
<1> QED BY <1>5, <1>6

\* If the entry of the dialog keeps what it has, so do the saves.
LEMMA ElsewhereStep ==
    ASSUME TypeInv, Sound, NEW r \in net, NEW q, Replaces(q, r), UNCHANGED <<member, list, dialog>>,
           dialog.id \in Live(rows') =>
              dialog.id \in Live(rows) /\ Agrees(rows'[dialog.id], rows[dialog.id])
    PROVE  Edits' /\ Saves'
<1>1. dialog' = dialog /\ facilitator' = facilitator
  BY DEF member
<1>2. Edits'
  BY <1>1 DEF Sound, Edits, Agrees
<1>3. \A e, f : Carried(net, e, f) => Carried(net', e, f)
  BY DoneStep
<1>4. Saves'
  <2> SUFFICES ASSUME NEW p \in net', p.kind = "save", p.entry \in Live(rows')
               PROVE  /\ "val" \notin p.edited =>
                            p.val = rows'[p.entry].val \/ Carried(net', p.entry, "val")
                      /\ facilitator /\ "conn" \notin p.edited =>
                            p.conn = rows'[p.entry].conn \/ Carried(net', p.entry, "conn")
    BY <1>1 DEF Saves
  <2>1. PICK o \in net : /\ o.kind = "save" /\ o.entry = p.entry /\ o.edited = p.edited
                         /\ o.val = p.val /\ o.conn = p.conn
    BY DEF Replaces
  <2>2. o.entry = dialog.id
    BY <2>1 DEF Sound, Attended
  <2> QED BY <1>3, <2>1, <2>2 DEF Sound, Saves, Agrees
<1> QED BY <1>2, <1>4

LEMMA PickDone ==
    ASSUME TypeInv, NEW r \in net, NEW ok \in BOOLEAN, net' = Done(r, ok), r.status = "sent",
           r.kind \notin {"load", "options"}
    PROVE  \E q \in Request : Replaces(q, r) /\ q.ok = ok
BY DoneNet DEF Replaces

LEMMA CreateStep ==
    ASSUME TypeInv, Roots, Sound, NEW r \in net, r.status = "sent", Create(r)
    PROVE  Sound'
<1>1. PICK q \in Request : Replaces(q, r) /\ q.ok = TRUE
  BY PickDone DEF Create
<1>2. PICK e \in Free : rows' = [rows EXCEPT ![e] = [at |-> "live", val |-> r.val, conn |-> r.conn]]
  BY DEF Create
<1>3. e \in Entries /\ e \notin Seen(rows) /\ \A x \in Entries : x # e => rows'[x] = rows[x]
  BY <1>2 DEF Free, Seen, TypeInv
<1>4. \A x \in Live(rows') : x = e \/ (x \in Live(rows) /\ Agrees(rows'[x], rows[x]))
  BY <1>3 DEF Live, Agrees
<1>5. UNCHANGED <<member, list, dialog>>
  BY DEF Create, Untouched
<1>6. Loads' /\ Shown'
  BY <1>1, <1>3, <1>4, <1>5, ChangedRows
<1>7. dialog.id # e
  BY <1>3, EntriesOK DEF EntriesOK, Roots, DialogIn
<1>8. Edits' /\ Saves'
  BY <1>1, <1>4, <1>5, <1>7, ElsewhereStep
<1> QED BY <1>1, <1>5, <1>6, <1>8, DoneStep DEF Sound

LEMMA DestroyStep ==
    ASSUME TypeInv, Roots, Sound, NEW r \in net, r.status = "sent", Destroy(r)
    PROVE  Sound'
<1> DEFINE ok == r.entry \in Live(rows)
<1>0. ok \in BOOLEAN
  OBVIOUS
<1>1. PICK q \in Request : Replaces(q, r) /\ q.ok = ok
  BY <1>0, PickDone DEF Destroy
<1>2. UNCHANGED <<member, list, dialog>>
  BY DEF Destroy, Untouched
<1>3. CASE ~ok
  <2>1. Still
    BY <1>2, <1>3 DEF Destroy, Still
  <2> QED BY <1>1, <2>1, RefusedStep
<1>4. CASE ok
  <2>1. rows' = [rows EXCEPT ![r.entry].at = "deleted"] /\ r.entry \in Entries
    BY <1>4 DEF Destroy, Live
  <2>2. /\ \A x \in Entries : rows'[x].val = rows[x].val /\ rows'[x].conn = rows[x].conn
        /\ \A x \in Entries : rows'[x].at = rows[x].at \/ rows'[x].at = "deleted"
    BY <2>1 DEF TypeInv, Row
  <2>3. \A x \in Live(rows') : x \in Live(rows) /\ Agrees(rows'[x], rows[x])
    BY <2>2 DEF Live, Agrees
  <2>4. Loads' /\ Shown'
    BY <1>1, <1>2, <1>4, <2>3, ChangedRows
  <2>5. Edits' /\ Saves'
    BY <1>1, <1>2, <2>3, ElsewhereStep
  <2> QED BY <1>1, <1>2, <2>4, <2>5, DoneStep DEF Sound
<1> QED BY <1>3, <1>4

LEMMA UpdateStep ==
    ASSUME TypeInv, Roots, Sound, NEW r \in net, r.status = "sent", Update(r)
    PROVE  Sound'
<1> DEFINE ok == facilitator /\ r.entry \in Live(rows)
           e == r.entry
<1>0. ok \in BOOLEAN
  OBVIOUS
<1>1. PICK q \in Request : Replaces(q, r) /\ q.ok = ok
  BY <1>0, PickDone DEF Update
<1>2. UNCHANGED <<member, list, dialog>> /\ r.kind = "save"
  BY DEF Update, Untouched
<1>3. CASE ~ok
  <2>1. Still
    BY <1>2, <1>3 DEF Update, Still
  <2> QED BY <1>1, <2>1, RefusedStep
<1>4. CASE ok
  <2>0. r \in Request /\ facilitator
    BY <1>4 DEF TypeInv
  <2>1. rows' = [rows EXCEPT ![e] = product_entry_params(r)] /\ e \in Entries /\ e \in Live(rows)
    BY <1>4 DEF Update, Live
  <2>2. /\ rows'[e].at = "live" /\ rows'[e].val = r.val
        /\ rows'[e].conn = IF r.conn = {} THEN rows[e].conn ELSE r.conn
        /\ \A x \in Entries : x # e => rows'[x] = rows[x]
    BY <2>0, <2>1, ParamsType DEF TypeInv
  <2>3. /\ Stored(net', e) /\ \A f \in r.edited : Carried(net', e, f)
        /\ \A x, f : Carried(net, x, f) => Carried(net', x, f)
        /\ Attended'
    BY <1>1, <1>2, <1>4, DoneStep DEF Replaces
  <2>4. \A x \in Live(rows') : x \in Live(rows) /\ (Agrees(rows'[x], rows[x]) \/ Stored(net', x))
    BY <2>1, <2>2, <2>3 DEF Live, Agrees
  <2>5. Loads' /\ Shown'
    BY <1>1, <1>2, <1>4, <2>4, ChangedRows
  <2>6. dialog.id = e /\ r.edited \subseteq dialog.edited
    BY <1>2 DEF Sound, Attended
  \* What the save does not carry, it leaves as it is.
  <2>7. /\ "val" \notin r.edited => rows'[e].val = rows[e].val \/ Carried(net, e, "val")
        /\ "conn" \notin r.edited => rows'[e].conn = rows[e].conn \/ Carried(net, e, "conn")
    BY <1>2, <2>0, <2>1, <2>2 DEF Sound, Saves
  <2>8. \A f : Carried(net, e, f) => f \in dialog.edited
    BY DEF Carried, Sound, Attended
  <2>9. Edits'
    BY <1>2, <2>0, <2>1, <2>6, <2>7, <2>8 DEF Sound, Edits, member
  <2>10. Saves'
    <3> SUFFICES ASSUME NEW p \in net', p.kind = "save"
                 PROVE  /\ "val" \notin p.edited =>
                              p.val = rows'[e].val \/ Carried(net', e, "val")
                        /\ "conn" \notin p.edited =>
                              p.conn = rows'[e].conn \/ Carried(net', e, "conn")
      BY <1>2, <2>3, <2>6 DEF Saves, Attended
    <3>1. PICK o \in net : /\ o.kind = "save" /\ o.entry = p.entry /\ o.edited = p.edited
                           /\ o.val = p.val /\ o.conn = p.conn
      BY <1>1, <1>2 DEF Replaces
    <3>2. o.entry = e
      BY <2>6, <3>1 DEF Sound, Attended
    <3>3. /\ "val" \notin p.edited => p.val = rows[e].val \/ Carried(net, e, "val")
          /\ "conn" \notin p.edited => p.conn = rows[e].conn \/ Carried(net, e, "conn")
      BY <2>0, <2>1, <3>1, <3>2 DEF Sound, Saves
    <3> QED BY <2>3, <2>7, <3>3
  <2> QED BY <2>3, <2>5, <2>9, <2>10 DEF Sound
<1> QED BY <1>3, <1>4

LEMMA RestoreStep ==
    ASSUME TypeInv, Sound, NEW r \in net, r.status = "sent", Restore(r)
    PROVE  Sound'
<1>1. PICK q \in Request : Replaces(q, r)
  BY PickDone DEF Restore
<1>2. Still
  BY DEF Restore, Untouched, Still
<1> QED BY <1>1, <1>2, RefusedStep

---------------------------------------------------------------------------
(* Every step                                                              *)

LEMMA NextIInv == TypeInv /\ Roots /\ IInv /\ [Next]_vars => IInv'
<1> SUFFICES ASSUME TypeInv, Roots, IInv, [Next]_vars, ~apart' PROVE Sound'
  BY DEF IInv
<1>0. DialogOK(dialog) /\ IsFiniteSet(net) /\ net \subseteq Request /\ apart \in BOOLEAN
  BY DEF TypeInv
<1>1. ASSUME ~apart PROVE Sound
  BY <1>1 DEF IInv
<1>2. ASSUME NEW e \in Entries \cup {New}, Open(e), e # New => e \in Live(list) PROVE Sound'
  <2>1. ~apart
    BY <1>2 DEF Open
  <2> QED BY <1>1, <1>2, <2>1, OpenStep
<1>3. ASSUME NEW v \in Vals, EditField(v) PROVE Sound'
  <2> DEFINE d == [dialog EXCEPT !.val = v, !.edited = @ \cup {"val"}, !.dirty = TRUE]
  <2>1. /\ DialogOK(d) /\ d.open = dialog.open /\ d.id = dialog.id /\ d.own = dialog.own
        /\ d.conn = dialog.conn /\ d.edited = dialog.edited \cup {"val"} /\ d.dirty
    BY <1>0, EditType, ZenonT(60)
  <2>2. Write(d) /\ net' = net /\ UNCHANGED <<member, rows>> /\ ~apart
    BY <1>3 DEF EditField
  <2> HIDE DEF d
  <2> QED BY <1>1, <2>1, <2>2, WriteStep
<1>4. ASSUME NEW e \in Entries, Tick(e) PROVE Sound'
  <2> DEFINE d == [dialog EXCEPT !.conn = (@ \cup {e}) \ (@ \cap {e}), !.edited = @ \cup {"conn"},
                            !.dirty = TRUE]
  <2>0. e \in dialog.options
    BY <1>4 DEF Tick
  <2>1. /\ DialogOK(d) /\ d.open = dialog.open /\ d.id = dialog.id /\ d.own = dialog.own
        /\ d.val = dialog.val /\ d.edited = dialog.edited \cup {"conn"} /\ d.dirty
    BY <1>0, <2>0, TickType
  <2>2. Write(d) /\ net' = net /\ UNCHANGED <<member, rows>> /\ ~apart
    BY <1>4 DEF Tick
  <2> HIDE DEF d
  <2> QED BY <1>1, <2>1, <2>2, WriteStep
<1>5. CASE Save
  <2>1. ~apart
    BY <1>5 DEF Save
  <2> QED BY <1>1, <1>5, <2>1, SaveStep
<1>6. CASE closeProductEntryModal \/ closeInventoryDataEntryModal
  <2>1. Shut(net)
    BY <1>6 DEF closeProductEntryModal, closeInventoryDataEntryModal
  <2>2. ~apart
    BY <2>1 DEF Shut
  <2> QED BY <1>0, <1>1, <2>1, <2>2, ShutStep
<1>7. CASE Dismiss
  <2>1. ~apart
    BY <1>7 DEF Dismiss
  <2> QED BY <1>1, <1>7, <2>1, DismissStep
<1>8. ASSUME NEW k \in {"delete", "restore"}, NEW e \in Entries, Ask(k, e) PROVE Sound'
  <2>1. Still /\ ~apart /\ net' = Sent(net, Req(k, e))
    BY <1>8 DEF Ask, Still
  <2>2. Req(k, e) \in Draft /\ Req(k, e).kind = k /\ Req(k, e).status = "sent"
    BY ReqType DEF Kinds
  <2>3. PICK q \in Request : Same(q, Req(k, e)) /\ net' = net \cup {q}
    BY <1>0, <2>1, <2>2, SentAdds
  <2>4. q.kind # "save" /\ q.status = "sent"
    BY <2>2, <2>3 DEF Same, Alike
  <2> QED BY <1>1, <2>1, <2>3, <2>4, NetStep
<1>9. CASE Serve
  <2>1. PICK r \in net :
           r.status = "sent" /\ (Index(r) \/ Create(r) \/ Update(r) \/ Destroy(r) \/ Restore(r))
    BY <1>9 DEF Serve
  <2>2. ~apart
    BY <2>1 DEF Index, Create, Update, Destroy, Restore, Untouched
  <2> QED BY <1>1, <2>1, <2>2, IndexStep, CreateStep, UpdateStep, DestroyStep, RestoreStep
<1>10. CASE LoadedProducts \/ LoadedData
  <2>1. PICK r \in net : r.kind = "load" /\ r.status = "served" /\ Loaded(r)
    BY <1>10 DEF LoadedProducts, LoadedData, Answered
  <2>2. ~apart
    BY <2>1 DEF Loaded
  <2> QED BY <1>1, <2>1, <2>2, LoadedStep
<1>11. CASE setupCheckboxes
  <2> DEFINE d == checkboxize(dialog, Seen(product_entries))
  <2>1. PICK r \in net : /\ r.kind = "options" /\ net' = net \ {r} /\ Write(d)
                         /\ UNCHANGED <<member, rows, upsets, apart>>
    BY <1>11 DEF setupCheckboxes, Under
  <2>2. /\ DialogOK(d) /\ d.open = dialog.open /\ d.id = dialog.id /\ d.own = dialog.own
        /\ d.val = dialog.val /\ d.edited = dialog.edited
        /\ d.conn = dialog.conn \cap Seen(product_entries)
        /\ d.dirty = (dialog.dirty \/ dialog.conn \ Seen(product_entries) # {})
    BY <1>0, CheckboxType DEF Seen
  <2> HIDE DEF d
  <2>3. facilitator => d.conn = dialog.conn
    <3>1. dialog.conn \subseteq Seen(rows)
      BY DEF Roots, DialogIn
    <3> QED BY <2>2, <3>1, SeenType
  <2>4. d.dirty \/ d.conn = dialog.conn
    BY <2>2
  <2>5. dialog.dirty => d.dirty
    BY <2>2
  <2> QED BY <1>1, <2>1, <2>2, <2>3, <2>4, <2>5, WriteStep
<1>12. CASE Saved
  <2>1. PICK r \in net : /\ r.kind = "save"
                         /\ IF r.heard /\ r.ok THEN Shut(net \ {r})
                            ELSE net' = net \ {r} /\ UNCHANGED <<dialog, apart>>
                         /\ UNCHANGED <<member, rows, list, upsets>>
    BY <1>12 DEF Saved, Answered
  <2>2. CASE r.heard /\ r.ok
    <3>1. ~apart /\ Shut(net \ {r})
      BY <2>1, <2>2 DEF Shut
    <3>2. IsFiniteSet(net \ {r})
      BY <1>0, FS_RemoveElement
    <3> QED BY <1>1, <3>1, <3>2, ShutStep
  <2>3. CASE ~(r.heard /\ r.ok)
    <3>1. Still /\ ~apart /\ net' = net \ {r}
      BY <2>1, <2>3 DEF Still
    <3>2. ~Fulfilled(r)
      BY <1>1, <2>1, <2>3, <3>1 DEF Fulfilled, Sound, Attended
    <3> QED BY <1>1, <2>1, <3>1, <3>2, NetStep
  <2> QED BY <2>2, <2>3
<1>13. CASE Changed
  <2>1. PICK r \in net :
           /\ r.kind \in {"delete", "restore"}
           /\ net' = IF r.ok THEN Reloaded(net \ {r}) ELSE net \ {r}
           /\ apart' = (apart \/ (r.ok /\ Crosses(net)))
           /\ UNCHANGED <<member, rows, list, dialog, upsets>>
    BY <1>13 DEF Changed, Answered
  <2>2. Still /\ ~apart
    BY <2>1 DEF Still
  <2>3. CASE r.ok
    BY <1>1, <2>1, <2>2, <2>3, ReloadStep
  <2>4. CASE ~r.ok
    <3>1. ~Fulfilled(r)
      BY <2>4 DEF Fulfilled
    <3> QED BY <1>1, <2>1, <2>2, <2>4, <3>1, NetStep
  <2> QED BY <2>3, <2>4
<1>14. CASE Foreign \/ Fail
  BY <1>14 DEF Foreign, Fail
<1>15. CASE UNCHANGED vars
  <2>1. Still /\ ~apart /\ net' = net
    BY <1>15 DEF vars, member, Still
  <2> QED BY <1>1, <2>1, NetStep
<1>16. CASE showProductEntryModal \/ showInventoryDataEntryModal \/ AddEntry
  BY <1>2, <1>16 DEF showProductEntryModal, showInventoryDataEntryModal, AddEntry, Live
<1>17. CASE deleteProductEntry \/ deleteDataEntry
  BY <1>8, <1>17 DEF deleteProductEntry, deleteDataEntry, Live
<1>18. CASE restoreProductEntry \/ restoreDataEntry
  BY <1>8, <1>18 DEF restoreProductEntry, restoreDataEntry, Seen
<1> QED
  BY <1>3, <1>4, <1>5, <1>6, <1>7, <1>9, <1>10, <1>11, <1>12, <1>13, <1>14, <1>15, <1>16,
     <1>17, <1>18 DEF Next, saveProductEntry, saveDataEntry

LEMMA Inductive == Spec => [](TypeInv /\ Roots /\ IInv)
<1>1. Init => TypeInv /\ Roots /\ IInv
  BY InitTypeInv, InitRoots, InitIInv
<1>2. TypeInv /\ Roots /\ IInv /\ [Next]_vars => (TypeInv /\ Roots /\ IInv)'
  BY NextTypeInv, NextRoots, NextIInv
<1> QED BY <1>1, <1>2, PTL DEF Spec

---------------------------------------------------------------------------
(* Theorems                                                                *)

\* At rest the table shows what the database has, with the exceptions that
\* ListFollows names.
THEOREM ListAlwaysFollows == Spec => []ListFollows
<1>1. TypeInv /\ Roots /\ IInv => ListFollows
  BY DEF TypeInv, DialogOK, IInv, Sound, Shown, ListFollows, Crosses, Under, Pending
<1> QED BY <1>1, Inductive, PTL

\* A step changes an entry that was there and stays only if a save does it.
LEMMA SavesOnly ==
    ASSUME TypeInv, Roots, IInv, [Next]_vars, ~apart',
           NEW e \in Live(rows) \cap Live(rows'), ~Agrees(rows'[e], rows[e])
    PROVE  \E r \in net : /\ r.kind = "save" /\ r.entry = e /\ facilitator
                          /\ rows'[e].val = r.val
                          /\ rows'[e].conn \in {r.conn, rows[e].conn}
<1>0. e \in Entries /\ rows \in [Entries -> Row] /\ rows[e].at = "live"
  BY DEF Live, TypeInv
<1>1. rows' # rows
  BY DEF Agrees
<1>2. Serve \/ Foreign
  BY <1>1 DEF Next, vars, Open, showProductEntryModal, showInventoryDataEntryModal, AddEntry,
              EditField, Tick, Save, saveProductEntry, saveDataEntry, closeProductEntryModal,
              closeInventoryDataEntryModal, Dismiss, Ask, deleteProductEntry, deleteDataEntry,
              restoreProductEntry, restoreDataEntry, Loaded, LoadedProducts, LoadedData,
              setupCheckboxes, Saved, Changed, Fail
<1>3. ~Foreign
  BY DEF Foreign
<1>4. PICK r \in net : Create(r) \/ Update(r) \/ Destroy(r)
  BY <1>1, <1>2, <1>3 DEF Serve, Index, Restore
<1>5. ~Create(r)
  BY <1>0 DEF Create, Free, Agrees
<1>6. ~Destroy(r)
  <2> SUFFICES ASSUME rows' = [rows EXCEPT ![r.entry].at = "deleted"], r.entry \in Entries PROVE FALSE
    BY <1>1 DEF Destroy, Live
  <2> QED BY <1>0 DEF Agrees, Row
<1>7. /\ r.kind = "save" /\ facilitator /\ r.entry \in Live(rows)
      /\ rows' = [rows EXCEPT ![r.entry] = product_entry_params(r)]
  BY <1>1, <1>4, <1>5, <1>6 DEF Update
<1>8. r.entry = e
  BY <1>0, <1>7 DEF Agrees
<1>9. r \in Request
  BY DEF TypeInv
<1> QED BY <1>0, <1>7, <1>8, <1>9, ParamsType

\* A save changes what was edited in its dialog and nothing else.
THEOREM SavesAlwaysOnlyEdits == Spec => SavesOnlyEdits
<1> DEFINE Only ==
       ~apart' =>
          \A e \in Live(rows) \cap Live(rows') :
              /\ rows'[e].val # rows[e].val =>
                    \E q \in Under(net, "save") : q.entry = e /\ "val" \in q.edited
              /\ rows'[e].conn # rows[e].conn =>
                    \E q \in Under(net, "save") : q.entry = e /\ "conn" \in q.edited
<1>1. TypeInv /\ Roots /\ IInv /\ [Next]_vars => Only
  <2> SUFFICES ASSUME TypeInv, Roots, IInv, [Next]_vars, ~apart',
                      NEW e \in Live(rows) \cap Live(rows'), ~Agrees(rows'[e], rows[e])
               PROVE  /\ rows'[e].val # rows[e].val =>
                            \E q \in Under(net, "save") : q.entry = e /\ "val" \in q.edited
                      /\ rows'[e].conn # rows[e].conn =>
                            \E q \in Under(net, "save") : q.entry = e /\ "conn" \in q.edited
    BY DEF Agrees
  <2>1. PICK r \in net : /\ r.kind = "save" /\ r.entry = e /\ facilitator
                         /\ rows'[e].val = r.val
                         /\ rows'[e].conn \in {r.conn, rows[e].conn}
    BY SavesOnly
  <2>2. ~apart
    BY DEF Next, vars, Open, showProductEntryModal, showInventoryDataEntryModal, AddEntry,
           EditField, Tick, Save, saveProductEntry, saveDataEntry, closeProductEntryModal,
           closeInventoryDataEntryModal, Shut, Dismiss, Ask, deleteProductEntry, deleteDataEntry,
           restoreProductEntry, restoreDataEntry, Serve, Index, Create, Update, Destroy, Restore,
           Untouched, Loaded, LoadedProducts, LoadedData, setupCheckboxes, Saved, Changed,
           Foreign, Fail
  <2>3. Saves
    BY <2>2 DEF IInv, Sound
  <2> QED BY <2>1, <2>3 DEF Saves, Carried, Under
<1>2. TypeInv /\ Roots /\ IInv => ([Next]_vars => [Only]_vars)
  BY <1>1
<1> QED BY <1>2, Inductive, PTL DEF Spec, SavesOnlyEdits

\* Nothing but a restoration touches a deleted entry.
THEOREM OnlyRestoringEverRevives == Spec => OnlyRestoringRevives
<1> DEFINE Good == \A e \in Entries :
                      rows[e].at = "deleted" /\ rows'[e] # rows[e] =>
                          \E q \in Under(net, "restore") : q.entry = e
<1>1. ASSUME TypeInv, [Next]_vars PROVE Good
  <2> SUFFICES ASSUME NEW e \in Entries, rows[e].at = "deleted", rows'[e] # rows[e]
               PROVE  \E q \in Under(net, "restore") : q.entry = e
    OBVIOUS
  <2>0. rows \in [Entries -> Row]
    BY <1>1 DEF TypeInv
  <2>1. Serve \/ Foreign
    BY <1>1 DEF Next, vars, Open, showProductEntryModal, showInventoryDataEntryModal, AddEntry,
                EditField, Tick, Save, saveProductEntry, saveDataEntry, closeProductEntryModal,
                closeInventoryDataEntryModal, Dismiss, Ask, deleteProductEntry, deleteDataEntry,
                restoreProductEntry, restoreDataEntry, Loaded, LoadedProducts, LoadedData,
                setupCheckboxes, Saved, Changed, Fail
  <2>2. \E x \in Entries : rows[x].at # "deleted" /\ \A y \in Entries : y # x => rows'[y] = rows[y]
    <3>1. CASE Foreign
      <4>1. PICK x \in Live(rows) :
               \/ \E v \in Vals \ {rows[x].val} : rows' = [rows EXCEPT ![x].val = v]
               \/ rows' = [rows EXCEPT ![x].at = "deleted"]
        BY <3>1 DEF Foreign
      <4>2. \A y \in Entries : y # x => rows'[y] = rows[y]
        BY <2>0, <4>1
      <4> QED BY <4>2 DEF Live
    <3>2. CASE Serve
      <4>1. PICK r \in net : Create(r) \/ Update(r) \/ Destroy(r)
        BY <2>1, <3>2 DEF Serve, Index, Restore
      <4>2. CASE Create(r)
        BY <2>0, <4>2 DEF Create, Free
      <4>3. CASE Update(r) \/ Destroy(r)
        BY <2>0, <4>3 DEF Update, Destroy, Live
      <4> QED BY <4>1, <4>2, <4>3
    <3> QED BY <2>1, <3>1, <3>2
  <2> QED BY <2>2
<1>2. TypeInv => ([Next]_vars => [Good]_vars)
  BY <1>1
<1>3. Spec => []TypeInv
  BY InitTypeInv, NextTypeInv, PTL DEF Spec
<1> QED BY <1>2, <1>3, PTL DEF Spec, OnlyRestoringRevives
=============================================================================
