------------------------- MODULE AnswerPagesProofs -------------------------
(***************************************************************************)
(* Proofs about AnswerPages: type correctness, that no page shows an       *)
(* answer as saved that the server never held, that the shared service     *)
(* works for the page on screen, and that a response at rest shows what is *)
(* stored, for any number of questions, answers, roles, requests under     *)
(* way, clicks and failures.                                               *)
(***************************************************************************)
EXTENDS AnswerPages, TLAPS

Kinds == {"open", "filter", "save", "scores", "create", "submit"}
Loads == {"open", "filter", "scores"}

Snap     == [cells: [Questions -> Cells], completed: BOOLEAN]
PageType == [doc: Docs \cup {None}, questions: [Questions -> Shown],
             mode: {"category", "variance"}, fresh: Snap \cup {None}, submittable: BOOLEAN]
Holding  == [Docs -> [Questions -> SUBSET Values]]

\* An answer of the server, with values it has held.
SnapGood(s, h) == s \in Snap /\ \A q \in Questions : s.cells[q].value \in h[q]

\* What a save asks for.
ArgGood(arg) == arg.question \in Questions /\ arg.value \in Values /\ arg.notes \in BOOLEAN

\* What a request is, by its kind and status, while pg is on screen.
Request(r) ==
    /\ r \in [kind: Kinds, doc: Docs, arg: {r.arg}, live: BOOLEAN, status: {"sent", "ok", "failed"},
              reply: {r.reply}, n: {r.n}]
    /\ r.kind \in Kinds /\ r.doc \in Docs /\ r.live \in BOOLEAN
    /\ r.status \in {"sent", "ok", "failed"}
    /\ r.kind = "save" => ArgGood(r.arg)
    /\ r.kind = "filter" => r.doc = "consensus" /\ r.arg.role \in Filters
    /\ r.kind = "create" => r.arg.step \in {1, 2}

Live(r, pg) ==
    /\ r.live /\ r.kind \in {"save", "filter"} => r.doc = pg
    /\ r.live /\ r.kind = "create" => pg = None

Kept(r, ex, h) ==
    /\ r.kind \in {"open", "submit"} => r.doc \in ex
    /\ r.kind = "create" /\ r.status = "ok" /\ ~(r.doc = "response" /\ r.arg.step = 1)
          => r.doc \in ex
    /\ r.status = "ok" /\ r.kind \in Loads => SnapGood(r.reply, h[r.doc])
    /\ r.status = "ok" /\ r.kind = "save" => r.arg.value \in h[r.doc][r.arg.question]

Good(r, pg, ex, h) == Request(r) /\ Live(r, pg) /\ Kept(r, ex, h)

RetryGood(m, pg) ==
    /\ m \in [doc: Docs, arg: {m.arg}, live: BOOLEAN]
    /\ m.doc \in Docs /\ m.live \in BOOLEAN /\ ArgGood(m.arg)
    /\ m.live => m.doc = pg

\* What a page shows without a spinner was held.
PageGood(p, ex, h) ==
    /\ p \in PageType /\ p.doc \in ex \cup {None}
    /\ p.submittable => p.doc # None
    /\ p.fresh # None => p.doc \in Docs /\ SnapGood(p.fresh, h[p.doc])
    /\ p.doc \in {"response", "consensus"} =>
          \A q \in Questions : p.questions[q].loading \/ p.questions[q].value \in h[p.doc][q]

CacheGood(c, h) ==
    /\ c \in [Docs -> [Filters -> Snap \cup {None}]]
    /\ \A d \in Docs, f \in Filters : c[d][f] = None \/ SnapGood(c[d][f], h[d])

StoreGood ==
    /\ exists \subseteq Docs /\ submitted \subseteq exists
    /\ stored \in [Docs -> [Questions -> Cells]] /\ held \in Holding
    /\ \A d \in Docs, q \in Questions :
          None \in held[d][q] /\ stored[d][q].value \in held[d][q]

ScreenGood ==
    /\ context \in {None, "assessment", "analysis"}
    /\ sidebar \in [Questions -> Values]
    /\ ContextFollowsPage
    /\ strayed \subseteq Docs /\ astray \in BOOLEAN

NetGood == \A r \in net : Good(r, page.doc, exists, held)
RetriesGood == \A m \in retry : RetryGood(m, page.doc)

IInv ==
    /\ StoreGood /\ ScreenGood /\ NetGood /\ RetriesGood
    /\ CacheGood(cache, held) /\ PageGood(page, exists, held)

---------------------------------------------------------------------------
(* Requests                                                                *)

LEMMA SendGood ==
    ASSUME NEW pg, NEW ex, NEW h, NEW R, \A r \in R : Good(r, pg, ex, h),
           NEW k \in Kinds, NEW d \in Docs, NEW arg, NEW live \in BOOLEAN,
           k = "save" => ArgGood(arg),
           k = "filter" => d = "consensus" /\ arg.role \in Filters,
           k = "create" => arg.step \in {1, 2},
           live /\ k \in {"save", "filter"} => d = pg,
           live /\ k = "create" => pg = None,
           k \in {"open", "submit"} => d \in ex
    PROVE  \A r \in Send(R, k, d, arg, live) : Good(r, pg, ex, h)
<1> DEFINE n == CHOOSE n \in 1..(Cardinality(R) + 1) : \A r \in R : r.n # n
           q == [kind |-> k, doc |-> d, arg |-> arg, live |-> live, status |-> "sent",
                 reply |-> None, n |-> n]
<1>1. Send(R, k, d, arg, live) = R \cup {q}
  BY DEF Send
<1> HIDE DEF n
<1>2. /\ q.kind = k /\ q.doc = d /\ q.arg = arg /\ q.live = live /\ q.status = "sent"
      /\ q = [kind |-> q.kind, doc |-> q.doc, arg |-> q.arg, live |-> q.live,
              status |-> q.status, reply |-> q.reply, n |-> q.n]
  OBVIOUS
<1> HIDE DEF q
<1>3. Request(q)
  BY <1>2 DEF Request
<1>4. Live(q, pg) /\ Kept(q, ex, h)
  BY <1>2 DEF Live, Kept
<1> QED BY <1>1, <1>3, <1>4 DEF Good

\* A request that nobody listens to any more fits every page.
LEMMA DeadGood ==
    ASSUME NEW pg, NEW qg, NEW ex, NEW h, NEW r, Good(r, pg, ex, h)
    PROVE  Good([r EXCEPT !.live = FALSE], qg, ex, h)
<1> DEFINE q == [r EXCEPT !.live = FALSE]
<1>1. Request(r) /\ Kept(r, ex, h)
  BY DEF Good
<1>2. r \in [kind: Kinds, doc: Docs, arg: {r.arg}, live: BOOLEAN, status: {"sent", "ok", "failed"},
              reply: {r.reply}, n: {r.n}]
  BY <1>1 DEF Request
<1>3. /\ q \in [kind: Kinds, doc: Docs, arg: {r.arg}, live: BOOLEAN, status: {"sent", "ok", "failed"},
                 reply: {r.reply}, n: {r.n}]
      /\ q.kind = r.kind /\ q.doc = r.doc /\ q.arg = r.arg /\ q.live = FALSE
      /\ q.status = r.status /\ q.reply = r.reply /\ q.n = r.n
  BY <1>2
<1> HIDE DEF q
<1>4. Request(q)
  BY <1>1, <1>3 DEF Request
<1>5. Live(q, qg) /\ Kept(q, ex, h)
  BY <1>1, <1>3 DEF Live, Kept
<1> QED BY <1>4, <1>5 DEF Good, q

LEMMA OrphanedGood ==
    ASSUME NEW pg, NEW qg, NEW ex, NEW h, NEW R, \A r \in R : Good(r, pg, ex, h),
           NEW kinds, pg = qg \/ OfPage \subseteq kinds
    PROVE  \A r \in Orphaned(R, kinds) : Good(r, qg, ex, h)
<1> SUFFICES ASSUME NEW r \in R
             PROVE  Good(IF r.kind \in kinds THEN [r EXCEPT !.live = FALSE] ELSE r, qg, ex, h)
  BY DEF Orphaned
<1>1. CASE r.kind \in kinds
  BY <1>1, DeadGood
<1>2. CASE r.kind \notin kinds
  BY <1>2 DEF Good, Live, OfPage
<1> QED BY <1>1, <1>2

LEMMA DeadRetries ==
    ASSUME NEW pg, NEW qg, NEW m, RetryGood(m, pg)
    PROVE  RetryGood([m EXCEPT !.live = FALSE], qg)
<1> DEFINE q == [m EXCEPT !.live = FALSE]
<1>1. m \in [doc: Docs, arg: {m.arg}, live: BOOLEAN]
  BY DEF RetryGood
<1>2. /\ q \in [doc: Docs, arg: {m.arg}, live: BOOLEAN]
      /\ q.doc = m.doc /\ q.arg = m.arg /\ q.live = FALSE
  BY <1>1
<1> HIDE DEF q
<1> QED BY <1>2 DEF RetryGood, q

\* What was held stays held, what exists stays.
LEMMA KeptLonger ==
    ASSUME NEW r, NEW pg, NEW ex, NEW h, NEW ex2, NEW h2, Good(r, pg, ex, h), ex \subseteq ex2,
           \A d \in Docs, q \in Questions : h[d][q] \subseteq h2[d][q]
    PROVE  Good(r, pg, ex2, h2)
BY DEF Good, Kept, Request, SnapGood, ArgGood

---------------------------------------------------------------------------
(* Pages                                                                   *)

LEMMA DisplayGood ==
    ASSUME NEW snap \in Snap
    PROVE  /\ Display(snap) \in [Questions -> Shown]
           /\ \A q \in Questions : Display(snap)[q].value = snap.cells[q].value
BY DEF Display, Snap, Cells, Shown

LEMMA ElsewhereGood ==
    ASSUME NEW ex, NEW h
    PROVE  /\ PageGood(Elsewhere, ex, h) /\ Elsewhere.doc = None
           /\ Elsewhere.submittable = FALSE /\ Elsewhere.fresh = None
<1>1. Display([cells |-> [q \in Questions |-> Blank]]) \in [Questions -> Shown]
  BY DEF Display, Blank, Values, Shown
<1>2. /\ Elsewhere \in PageType /\ Elsewhere.doc = None
      /\ Elsewhere.submittable = FALSE /\ Elsewhere.fresh = None
  BY <1>1 DEF Elsewhere, PageType
<1>3. None \notin {"response", "consensus"}
  BY ConstantsOK DEF ConstantsOK, AllDocs
<1> QED BY <1>2, <1>3 DEF PageGood

LEMMA NewPageGood ==
    ASSUME NEW ex, NEW h, NEW d \in ex, d \in Docs, NEW snap, SnapGood(snap, h[d])
    PROVE  PageGood(NewPage(d, snap), ex, h) /\ NewPage(d, snap).doc = d
<1>1. d # None
  BY ConstantsOK DEF ConstantsOK
<1>2. snap \in Snap /\ snap.completed \in BOOLEAN
  BY DEF SnapGood, Snap
<1>3. Elsewhere \in PageType /\ Elsewhere.fresh = None
  BY ElsewhereGood DEF PageGood
<1>4. /\ NewPage(d, snap) \in PageType /\ NewPage(d, snap).doc = d
      /\ NewPage(d, snap).fresh = None /\ NewPage(d, snap).questions = Display(snap)
  BY <1>2, <1>3, DisplayGood DEF PageType, NewPage
<1> QED BY <1>1, <1>2, <1>4, DisplayGood DEF PageGood, SnapGood

LEMMA ShowGood ==
    ASSUME IInv, UNCHANGED <<exists, held>>, NEW d \in exists, NEW snap, SnapGood(snap, held[d]),
           NEW R, \A r \in R : Good(r, page.doc, exists, held), Show(d, snap, R)
    PROVE  /\ PageGood(page', exists', held') /\ NetGood' /\ RetriesGood'
           /\ sidebar' \in [Questions -> Values] /\ context' = Context(d) /\ page'.doc = d
<1>1. d \in Docs
  BY DEF IInv, StoreGood
<1>2. PageGood(page', exists', held') /\ page'.doc = d
  BY <1>1, NewPageGood DEF Show
<1>3. \A r \in Orphaned(R, OfPage) : Good(r, d, exists, held)
  BY OrphanedGood
<1>4. \A r \in net' : Good(r, d, exists, held)
  BY <1>1, <1>3, SendGood DEF Show, Kinds
<1>5. RetriesGood'
  <2> SUFFICES ASSUME NEW m \in retry PROVE RetryGood([m EXCEPT !.live = FALSE], page'.doc)
    BY DEF Show, RetriesGood
  <2> QED BY DeadRetries DEF IInv, RetriesGood
<1> QED BY <1>2, <1>4, <1>5 DEF Show, NetGood, Values

\* Opening a document that exists: at once, or after a request.
LEMMA GoGood ==
    ASSUME IInv, UNCHANGED <<server, cache>>, NEW d \in exists,
           NEW R, \A r \in R : Good(r, page.doc, exists, held), Go(d, R)
    PROVE  /\ PageGood(page', exists', held') /\ NetGood' /\ RetriesGood'
           /\ sidebar' \in [Questions -> Values] /\ strayed' \subseteq Docs
           /\ \/ context' = Context(d) /\ page'.doc = d
              \/ page' = page /\ ~(page.doc # d /\ cache[d][None] # None)
<1> DEFINE moving == Orphaned(R, {"open"})
<1>0. d \in Docs /\ None \in Filters /\ exists' = exists /\ held' = held
  BY DEF IInv, StoreGood, Filters, server
<1>1. \A r \in moving : Good(r, page.doc, exists, held)
  BY OrphanedGood
<1>2. strayed' \subseteq Docs
  BY <1>0 DEF Go, IInv, ScreenGood
<1> HIDE DEF moving
<1>3. CASE page.doc # d /\ cache[d][None] # None
  <2>1. SnapGood(cache[d][None], held[d])
    BY <1>0, <1>3 DEF IInv, CacheGood
  <2>2. Show(d, cache[d][None], moving)
    BY <1>3 DEF Go, moving
  <2> QED BY <1>0, <1>1, <1>2, <2>1, <2>2, ShowGood
<1>4. CASE ~(page.doc # d /\ cache[d][None] # None)
  <2>1. /\ net' = IF page.doc = d THEN moving ELSE Send(moving, "open", d, None, TRUE)
        /\ UNCHANGED <<page, sidebar, retry>>
    BY <1>4 DEF Go, moving
  <2>2. \A r \in Send(moving, "open", d, None, TRUE) : Good(r, page.doc, exists, held)
    BY <1>0, <1>1, SendGood DEF Kinds
  <2>3. \A r \in net' : Good(r, page.doc, exists, held)
    BY <1>1, <2>1, <2>2
  <2> QED BY <1>0, <1>2, <1>4, <2>1, <2>3 DEF IInv, ScreenGood, NetGood, RetriesGood
<1> QED BY <1>3, <1>4

LEMMA PostGood ==
    ASSUME IInv, NEW d \in Docs, NEW q \in Questions, NEW a \in Values, NEW notes \in BOOLEAN,
           NEW live \in BOOLEAN, live => d = page.doc, Post(d, q, a, notes, live)
    PROVE  /\ \A r \in net' : Good(r, page.doc, exists, held)
           /\ strayed' \subseteq Docs
<1> DEFINE arg == [question |-> q, value |-> a, notes |-> notes]
<1>1. ArgGood(arg)
  BY DEF ArgGood
<1>2. net' = Send(net, "save", d, arg, live)
  BY DEF Post
<1> HIDE DEF arg
<1>3. \A r \in net' : Good(r, page.doc, exists, held)
  BY <1>1, <1>2, SendGood DEF IInv, NetGood, Kinds
<1> QED BY <1>3 DEF Post, IInv, ScreenGood

\* The spinner of one question is shown.
LEMMA SpinType ==
    ASSUME NEW p \in PageType, NEW q \in Questions, NEW n, n = [p EXCEPT !.questions[q].loading = TRUE]
    PROVE  /\ n \in PageType
           /\ n.doc = p.doc /\ n.fresh = p.fresh /\ n.submittable = p.submittable
           /\ \A x \in Questions : x # q => n.questions[x] = p.questions[x]
           /\ n.questions[q].loading
<1>1. n \in PageType
  BY ZenonT(60) DEF PageType, Shown
<1>2. n.doc = p.doc
  BY DEF PageType, Shown
<1>3. n.fresh = p.fresh
  BY DEF PageType, Shown
<1>4. n.submittable = p.submittable
  BY DEF PageType, Shown
<1>5. \A x \in Questions : x # q => n.questions[x] = p.questions[x]
  BY DEF PageType, Shown
<1>6. n.questions[q].loading
  BY DEF PageType, Shown
<1> QED BY <1>1, <1>2, <1>3, <1>4, <1>5, <1>6

\* The spinner of one question is taken away.
LEMMA StopType ==
    ASSUME NEW p \in PageType, NEW q \in Questions, NEW n, n = [p EXCEPT !.questions[q].loading = FALSE]
    PROVE  /\ n \in PageType
           /\ n.doc = p.doc /\ n.fresh = p.fresh /\ n.submittable = p.submittable
           /\ \A x \in Questions : x # q => n.questions[x] = p.questions[x]
           /\ n.questions[q].value = p.questions[q].value
<1>1. n \in PageType
  BY ZenonT(60) DEF PageType, Shown
<1>2. n.doc = p.doc
  BY DEF PageType, Shown
<1>3. n.fresh = p.fresh
  BY DEF PageType, Shown
<1>4. n.submittable = p.submittable
  BY DEF PageType, Shown
<1>5. \A x \in Questions : x # q => n.questions[x] = p.questions[x]
  BY DEF PageType, Shown
<1>6. n.questions[q].value = p.questions[q].value
  BY DEF PageType, Shown
<1> QED BY <1>1, <1>2, <1>3, <1>4, <1>5, <1>6

\* An answer is written into one question.
LEMMA WriteType ==
    ASSUME NEW p \in PageType, NEW q \in Questions, NEW v \in Values, NEW n, n = [p EXCEPT !.questions[q].value = v]
    PROVE  /\ n \in PageType
           /\ n.doc = p.doc /\ n.fresh = p.fresh /\ n.submittable = p.submittable
           /\ \A x \in Questions : x # q => n.questions[x] = p.questions[x]
           /\ n.questions[q].value = v /\ (p.questions[q].loading => n.questions[q].loading)
<1>1. n \in PageType
  BY DEF PageType, Shown
<1>2. n.doc = p.doc
  BY DEF PageType, Shown
<1>3. n.fresh = p.fresh
  BY DEF PageType, Shown
<1>4. n.submittable = p.submittable
  BY DEF PageType, Shown
<1>5. \A x \in Questions : x # q => n.questions[x] = p.questions[x]
  BY DEF PageType, Shown
<1>6. n.questions[q].value = v
  BY DEF PageType, Shown
<1>7. (p.questions[q].loading => n.questions[q].loading)
  BY DEF PageType, Shown
<1> QED BY <1>1, <1>2, <1>3, <1>4, <1>5, <1>6, <1>7

\* The page after an answer was given: only that question changed.
LEMMA AssignedPage ==
    ASSUME page \in PageType, NEW q \in Questions, NEW a \in Answers, AssignAnswer(q, a)
    PROVE  /\ page' \in PageType /\ page'.doc = page.doc /\ page'.fresh = page.fresh
           /\ page'.submittable = page.submittable /\ page'.questions[q].loading
           /\ \A x \in Questions : x # q => page'.questions[x] = page.questions[x]
<1>0. page \in PageType /\ page.questions \in [Questions -> Shown] /\ Answers \subseteq Values
  BY DEF PageType, Values
<1>1. page' = [page EXCEPT !.questions[q].loading = TRUE,
                 !.questions[q].value = IF page.doc = "response" THEN a ELSE @]
  BY DEF AssignAnswer
<1>2. CASE page.doc = "response"
  <2> DEFINE spun == [page EXCEPT !.questions[q].loading = TRUE]
  <2>1. page' = [spun EXCEPT !.questions[q].value = a]
    BY <1>1, <1>2
  <2>2. /\ spun \in PageType /\ spun.doc = page.doc /\ spun.fresh = page.fresh
        /\ spun.submittable = page.submittable /\ spun.questions[q].loading
        /\ \A x \in Questions : x # q => spun.questions[x] = page.questions[x]
    BY <1>0, SpinType
  <2> HIDE DEF spun
  <2> QED BY <1>0, <2>1, <2>2, WriteType
<1>3. CASE page.doc # "response"
  <2>1. page' = [page EXCEPT !.questions[q].loading = TRUE]
    BY <1>1, <1>3 DEF PageType, Shown
  <2> QED BY <1>0, <2>1, SpinType
<1> QED BY <1>2, <1>3

\* The page after an answer was saved: its question shows the answer.
LEMMA SavedPage ==
    ASSUME page \in PageType, NEW r \in net, Saved(r), r.live, r.doc # "analysis",
           r.arg.question \in Questions, r.arg.value \in Values
    PROVE  /\ page' \in PageType /\ page'.doc = page.doc /\ page'.fresh = page.fresh
           /\ page'.submittable = page.submittable
           /\ page'.questions[r.arg.question].value = r.arg.value
           /\ \A x \in Questions : x # r.arg.question => page'.questions[x] = page.questions[x]
<1>0. page \in PageType /\ page.questions \in [Questions -> Shown]
  BY DEF PageType
<1>1. page' = [page EXCEPT !.questions[r.arg.question].value = r.arg.value,
                           !.questions[r.arg.question].loading = FALSE]
  BY DEF Saved
<1> DEFINE written == [page EXCEPT !.questions[r.arg.question].value = r.arg.value]
<1>2. page' = [written EXCEPT !.questions[r.arg.question].loading = FALSE]
  BY <1>1
<1>3. written = [page EXCEPT !.questions[r.arg.question].value = r.arg.value]
  OBVIOUS
<1> HIDE DEF written
<1>4. /\ written \in PageType /\ written.doc = page.doc /\ written.fresh = page.fresh
      /\ written.submittable = page.submittable
      /\ written.questions[r.arg.question].value = r.arg.value
      /\ \A x \in Questions : x # r.arg.question => written.questions[x] = page.questions[x]
  BY <1>0, <1>3, WriteType
<1> QED BY <1>2, <1>4, StopType

LEMMA ReplaceGood ==
    ASSUME IInv, NEW snap, page.doc \in Docs, SnapGood(snap, held[page.doc]),
           NEW R, \A r \in R : Good(r, page.doc, exists, held), Replace(snap, R)
    PROVE  /\ PageGood(page', exists, held) /\ page'.doc = page.doc
           /\ \A r \in net' : Good(r, page.doc, exists, held)
<1>0. PageGood(page, exists, held) /\ page \in PageType /\ snap \in Snap
  BY DEF IInv, PageGood, SnapGood
<1>1. CASE page.mode = "category"
  <2>1. net' = Orphaned(R, {"save"}) /\ page' = [page EXCEPT !.questions = Display(snap)]
    BY <1>1 DEF Replace
  <2>2. /\ page' \in PageType /\ page'.doc = page.doc /\ page'.fresh = page.fresh
        /\ page'.submittable = page.submittable /\ page'.questions = Display(snap)
    BY <1>0, <2>1, DisplayGood DEF PageType
  <2>3. PageGood(page', exists, held)
    BY <1>0, <2>2, DisplayGood DEF PageGood, SnapGood
  <2>4. \A r \in net' : Good(r, page.doc, exists, held)
    BY <2>1, OrphanedGood
  <2> QED BY <2>2, <2>3, <2>4
<1>2. CASE page.mode # "category"
  <2>1. net' = R /\ page' = [page EXCEPT !.fresh = snap]
    BY <1>2 DEF Replace
  <2>2. /\ page' \in PageType /\ page'.doc = page.doc /\ page'.fresh = snap
        /\ page'.submittable = page.submittable /\ page'.questions = page.questions
    BY <1>0, <2>1 DEF PageType
  <2>3. PageGood(page', exists, held)
    BY <1>0, <2>2 DEF PageGood
  <2> QED BY <2>1, <2>2, <2>3
<1> QED BY <1>1, <1>2

\* What is remembered was an answer.
LEMMA RememberGood ==
    ASSUME IInv, NEW d \in Docs, NEW f \in Filters, NEW snap, SnapGood(snap, held[d]),
           Remember(d, f, snap)
    PROVE  CacheGood(cache', held)
BY DEF IInv, CacheGood, Remember, SnapGood

---------------------------------------------------------------------------
(* The server                                                              *)

LEMMA EffectGood ==
    ASSUME IInv, NEW r \in net, Effect(r)
    PROVE  /\ StoreGood' /\ exists \subseteq exists'
           /\ \A d \in Docs, q \in Questions : held[d][q] \subseteq held'[d][q]
           /\ r.kind = "save" => r.arg.value \in held'[r.doc][r.arg.question]
           /\ r.kind = "create" /\ ~(r.doc = "response" /\ r.arg.step = 1) => r.doc \in exists'
           /\ r.kind \in Loads => UNCHANGED server
<1>0. Request(r) /\ Kept(r, exists, held) /\ StoreGood
  BY DEF IInv, NetGood, Good
<1>1. CASE r.kind = "save"
  <2>1. /\ stored' = [stored EXCEPT ![r.doc][r.arg.question] =
                           [value |-> r.arg.value, notes |-> r.arg.notes]]
        /\ held' = [held EXCEPT ![r.doc][r.arg.question] = @ \cup {r.arg.value}]
        /\ UNCHANGED <<exists, submitted>>
    BY <1>1 DEF Effect
  <2>2. /\ r.doc \in Docs /\ r.arg.question \in Questions /\ r.arg.value \in Values
        /\ r.arg.notes \in BOOLEAN
    BY <1>0, <1>1 DEF Request, ArgGood
  <2>3. /\ \A d \in Docs, q \in Questions : held[d][q] \subseteq held'[d][q]
        /\ r.arg.value \in held'[r.doc][r.arg.question]
        /\ held' \in Holding
    BY <1>0, <2>1, <2>2 DEF StoreGood, Holding
  <2>4. stored' \in [Docs -> [Questions -> Cells]]
    BY <1>0, <2>1, <2>2 DEF StoreGood, Cells
  <2>5. \A d \in Docs, q \in Questions : stored'[d][q].value \in held'[d][q]
    <3> SUFFICES ASSUME NEW d \in Docs, NEW q \in Questions
                 PROVE  stored'[d][q].value \in held'[d][q]
      OBVIOUS
    <3>1. CASE d = r.doc /\ q = r.arg.question
      <4>1. stored'[d][q] = [value |-> r.arg.value, notes |-> r.arg.notes]
        BY <1>0, <2>1, <2>2, <3>1 DEF StoreGood
      <4> QED BY <2>3, <3>1, <4>1
    <3>2. CASE ~(d = r.doc /\ q = r.arg.question)
      <4>1. stored'[d][q] = stored[d][q]
        BY <1>0, <2>1, <2>2, <3>2 DEF StoreGood
      <4> QED BY <1>0, <2>3, <4>1 DEF StoreGood
    <3> QED BY <3>1, <3>2
  <2>6. \A d \in Docs, q \in Questions : None \in held'[d][q]
    BY <1>0, <2>3 DEF StoreGood
  <2> QED BY <1>0, <1>1, <2>1, <2>3, <2>4, <2>5, <2>6 DEF StoreGood, Loads
<1>2. CASE r.kind = "submit"
  BY <1>0, <1>2 DEF Effect, StoreGood, Request, Kept, Loads
<1>3. CASE r.kind = "create"
  BY <1>0, <1>3 DEF Effect, StoreGood, Request, Kept, Loads
<1>4. CASE r.kind \in Loads
  BY <1>0, <1>4 DEF Effect, StoreGood, Request, Kept, Loads, server
<1> QED BY <1>0, <1>1, <1>2, <1>3, <1>4 DEF Request, Kinds, Loads

LEMMA ServedGood ==
    ASSUME IInv, NEW r \in net, Effect(r) \/ UNCHANGED server,
           NEW st \in {"ok", "failed"}, NEW rep, Answer(r, st, rep), UNCHANGED <<client, history>>,
           st = "ok" => Effect(r),
           st = "ok" /\ r.kind \in Loads => rep = Snapshot(r.doc)
    PROVE  IInv'
<1> DEFINE a == [r EXCEPT !.status = st, !.reply = rep]
<1>0. Good(r, page.doc, exists, held) /\ Request(r)
  BY DEF IInv, NetGood, Good
<1>1. /\ StoreGood' /\ exists \subseteq exists'
      /\ \A d \in Docs, q \in Questions : held[d][q] \subseteq held'[d][q]
  <2>1. CASE Effect(r)
    BY <2>1, EffectGood
  <2>2. CASE UNCHANGED server
    BY <2>2 DEF server, IInv, StoreGood
  <2> QED BY <2>1, <2>2
<1>2. \A q \in net : Good(q, page.doc, exists', held')
  BY <1>1, KeptLonger DEF IInv, NetGood
<1>3. /\ a.kind = r.kind /\ a.doc = r.doc /\ a.arg = r.arg /\ a.live = r.live
      /\ a.status = st /\ a.reply = rep
      /\ a \in [kind: Kinds, doc: Docs, arg: {a.arg}, live: BOOLEAN,
                status: {"sent", "ok", "failed"}, reply: {a.reply}, n: {a.n}]
  <2>1. r \in [kind: Kinds, doc: Docs, arg: {r.arg}, live: BOOLEAN,
               status: {"sent", "ok", "failed"}, reply: {r.reply}, n: {r.n}]
    BY <1>0 DEF Request
  <2> QED BY <2>1
<1>4. net' = (net \ {r}) \cup {a}
  BY DEF Answer
<1> HIDE DEF a
<1>5. Request(a) /\ Live(a, page.doc)
  BY <1>0, <1>3 DEF Request, Live, Good
<1>6. Kept(a, exists', held')
  <2>1. a.kind \in {"open", "submit"} => a.doc \in exists'
    BY <1>0, <1>1, <1>3 DEF Good, Kept
  <2>2. CASE st = "failed"
    BY <1>3, <2>1, <2>2 DEF Kept
  <2>3. CASE st = "ok"
    <3>1. /\ r.kind = "save" => r.arg.value \in held'[r.doc][r.arg.question]
          /\ r.kind = "create" /\ ~(r.doc = "response" /\ r.arg.step = 1) => r.doc \in exists'
          /\ r.kind \in Loads => UNCHANGED server
      BY <2>3, EffectGood
    <3>2. r.kind \in Loads => SnapGood(rep, held'[r.doc])
      <4> SUFFICES ASSUME r.kind \in Loads PROVE SnapGood(rep, held'[r.doc])
        OBVIOUS
      <4>1. rep = [cells |-> stored[r.doc], completed |-> r.doc \in submitted] /\ held' = held
        BY <2>3, <3>1 DEF Snapshot, server
      <4>2. r.doc \in Docs /\ stored[r.doc] \in [Questions -> Cells]
        BY <1>0 DEF Request, IInv, StoreGood
      <4>3. rep \in Snap /\ rep.cells = stored[r.doc]
        BY <4>1, <4>2 DEF Snap
      <4> QED BY <4>1, <4>2, <4>3 DEF SnapGood, IInv, StoreGood
    <3> QED BY <1>3, <2>1, <2>3, <3>1, <3>2 DEF Kept
  <2> QED BY <2>2, <2>3
<1>7. /\ context' = context /\ cache' = cache /\ page' = page /\ sidebar' = sidebar
      /\ retry' = retry /\ strayed' = strayed /\ astray' = astray
  BY DEF client, history
<1>8. NetGood'
  BY <1>2, <1>4, <1>5, <1>6, <1>7 DEF NetGood, Good
<1>9. PageGood(page', exists', held')
  <2>1. PageGood(page, exists, held) /\ page \in PageType
    BY DEF IInv, PageGood
  <2>2. page.doc \in {"response", "consensus"} => page.doc \in Docs
    BY <2>1, ConstantsOK DEF PageType, ConstantsOK, AllDocs
  <2>3. page.fresh # None => SnapGood(page.fresh, held'[page.doc])
    BY <1>1, <2>1 DEF PageGood, SnapGood
  <2>4. page.doc \in {"response", "consensus"} =>
           \A q \in Questions : page.questions[q].loading
                               \/ page.questions[q].value \in held'[page.doc][q]
    BY <1>1, <2>1, <2>2 DEF PageGood
  <2> QED BY <1>1, <1>7, <2>1, <2>3, <2>4 DEF PageGood
<1>10. CacheGood(cache', held')
  BY <1>1, <1>7 DEF IInv, CacheGood, SnapGood
<1> QED BY <1>1, <1>7, <1>8, <1>9, <1>10 DEF IInv, ScreenGood, ContextFollowsPage, RetriesGood

---------------------------------------------------------------------------
(* The inductive invariant                                                 *)

LEMMA InitIInv == Init => IInv
<1> SUFFICES ASSUME Init PROVE IInv
  OBVIOUS
<1>1. page.doc = None /\ PageGood(page, exists, held)
  BY ElsewhereGood DEF Init
<1>2. StoreGood
  <2>1. Blank \in Cells /\ Blank.value = None /\ None \in Values
    BY DEF Blank, Cells, Values
  <2> QED BY <2>1, ConstantsOK DEF Init, StoreGood, Holding, ConstantsOK
<1>3. ScreenGood
  BY <1>1 DEF Init, ScreenGood, ContextFollowsPage, Values
<1>4. CacheGood(cache, held)
  BY DEF Init, CacheGood
<1> QED BY <1>1, <1>2, <1>3, <1>4 DEF Init, IInv, NetGood, RetriesGood

\* The user's clicks.
LEMMA UserIInv == IInv /\ User => IInv'
<1> SUFFICES ASSUME IInv, User PROVE IInv'
  OBVIOUS
<1>0. /\ PageGood(page, exists, held) /\ page \in PageType /\ page.doc \in Docs \cup {None}
      /\ page.questions \in [Questions -> Shown] /\ None \notin AllDocs
      /\ sidebar \in [Questions -> Values] /\ None \in Filters /\ None \in Values
      /\ Answers \subseteq Values /\ Docs \subseteq AllDocs
  BY ConstantsOK DEF IInv, PageGood, PageType, ScreenGood, ConstantsOK, Filters, Values
<1>f. ASSUME UNCHANGED server PROVE StoreGood' /\ exists' = exists /\ held' = held
  BY <1>f DEF server, IInv, StoreGood
<1>s. ASSUME UNCHANGED <<context, sidebar, astray>>, strayed' \subseteq Docs, page'.doc = page.doc
      PROVE  ScreenGood'
  BY <1>s DEF IInv, ScreenGood, ContextFollowsPage
<1>1. ASSUME NEW d \in Docs, Visit(d) PROVE IInv'
  <2>1. d \in exists /\ page.doc # d /\ UNCHANGED <<server, cache, astray>>
    BY <1>1 DEF Visit
  <2>2. /\ PageGood(page', exists', held') /\ NetGood' /\ RetriesGood'
        /\ sidebar' \in [Questions -> Values] /\ strayed' \subseteq Docs
        /\ \/ context' = Context(d) /\ page'.doc = d
           \/ page' = page /\ ~(page.doc # d /\ cache[d][None] # None)
    BY <1>1, <2>1, GoGood DEF Visit, IInv, NetGood
  <2>4. ScreenGood'
    <3>1. CASE context' = Context(d) /\ page'.doc = d
      BY <2>1, <2>2, <3>1 DEF IInv, ScreenGood, ContextFollowsPage, Context
    <3>2. CASE page' = page /\ ~(page.doc # d /\ cache[d][None] # None)
      <4>1. context' = context
        BY <1>1, <2>1, <3>2 DEF Visit
      <4> QED BY <2>1, <2>2, <3>2, <4>1 DEF IInv, ScreenGood, ContextFollowsPage
    <3> QED BY <2>2, <3>1, <3>2
  <2> QED BY <1>f, <2>1, <2>2, <2>4 DEF IInv
<1>2. ASSUME NEW d \in Docs, Create(d) PROVE IInv'
  <2>1. /\ page' = Elsewhere /\ sidebar' = [q \in Questions |-> None]
        /\ context' = IF d = "response" THEN context ELSE Context(d)
        /\ net' = Send(Orphaned(net, OfPage), "create", d, [step |-> 1], TRUE)
        /\ UNCHANGED <<server, cache, retry, history>> /\ retry = {}
    BY <1>2 DEF Create, Act
  <2>2. page'.doc = None /\ PageGood(page', exists, held)
    BY <2>1, ElsewhereGood
  <2>3. \A r \in Orphaned(net, OfPage) : Good(r, None, exists, held)
    BY OrphanedGood DEF IInv, NetGood
  <2>4. \A r \in net' : Good(r, None, exists, held)
    BY <2>1, <2>3, SendGood DEF Kinds
  <2>5. ScreenGood'
    BY <1>0, <2>1, <2>2 DEF IInv, ScreenGood, ContextFollowsPage, Context, history
  <2> QED BY <1>f, <2>1, <2>2, <2>4, <2>5 DEF IInv, NetGood, RetriesGood
<1>3. ASSUME NEW f \in Filters, UpdateTeamRole(f) PROVE IInv'
  <2>1. /\ page.doc = "consensus" /\ page.doc \in Docs
        /\ UNCHANGED <<server, context, cache, sidebar, retry, history>>
    BY <1>0, <1>3, ConstantsOK DEF UpdateTeamRole, ConstantsOK, AllDocs
  <2>2. /\ PageGood(page', exists, held) /\ page'.doc = page.doc
        /\ \A r \in net' : Good(r, page.doc, exists, held)
    <3>1. CASE cache[page.doc][f] # None
      <4>1. SnapGood(cache[page.doc][f], held[page.doc]) /\ Replace(cache[page.doc][f], net)
        BY <1>3, <2>1, <3>1 DEF UpdateTeamRole, IInv, CacheGood
      <4> QED BY <2>1, <4>1, ReplaceGood DEF IInv, NetGood
    <3>2. CASE cache[page.doc][f] = None
      <4> DEFINE arg == [role |-> f]
      <4>1. page' = page /\ net' = Send(net, "filter", page.doc, arg, TRUE) /\ arg.role = f
        BY <1>3, <3>2 DEF UpdateTeamRole
      <4> HIDE DEF arg
      <4> QED BY <1>0, <2>1, <4>1, SendGood DEF IInv, NetGood, Kinds
    <3> QED BY <3>1, <3>2
  <2>3. ScreenGood'
    BY <1>s, <2>1, <2>2 DEF history, IInv, ScreenGood
  <2> QED BY <1>f, <2>1, <2>2, <2>3 DEF IInv, NetGood, RetriesGood
<1>4. ASSUME NEW mode \in {"category", "variance"}, ChangeViewMode(mode) PROVE IInv'
  <2>1. /\ page.doc = "consensus"
        /\ page' = [page EXCEPT !.mode = mode, !.fresh = None,
                      !.questions = IF page.fresh = None THEN @ ELSE Display(page.fresh)]
        /\ net' = IF page.fresh = None THEN net ELSE Orphaned(net, {"save"})
        /\ UNCHANGED <<server, context, cache, sidebar, retry, history>>
    BY <1>4 DEF ChangeViewMode
  <2>2. page.fresh # None =>
           /\ page.fresh \in Snap /\ Display(page.fresh) \in [Questions -> Shown]
           /\ \A q \in Questions : Display(page.fresh)[q].value \in held[page.doc][q]
    BY <1>0, DisplayGood DEF PageGood, SnapGood
  <2>3. /\ page' \in PageType /\ page'.doc = page.doc /\ page'.fresh = None
        /\ page'.submittable = page.submittable
        /\ page'.questions = IF page.fresh = None THEN page.questions ELSE Display(page.fresh)
    BY <1>0, <2>1, <2>2 DEF PageType
  <2>4. PageGood(page', exists, held)
    BY <1>0, <2>2, <2>3 DEF PageGood
  <2>5. \A r \in net' : Good(r, page.doc, exists, held)
    BY <2>1, OrphanedGood DEF IInv, NetGood
  <2>6. ScreenGood'
    BY <1>s, <2>1, <2>3 DEF history, IInv, ScreenGood
  <2> QED BY <1>f, <2>1, <2>3, <2>4, <2>5, <2>6 DEF IInv, NetGood, RetriesGood
<1>5. ASSUME NEW q \in Questions, WriteEvidence(q) PROVE IInv'
  <2>1. UNCHANGED <<server, context, cache, sidebar, retry, net, history>>
    BY <1>5 DEF WriteEvidence
  <2>2. page' = [page EXCEPT !.questions[q].notes = ~@]
    BY <1>5 DEF WriteEvidence
  <2>3. /\ page' \in PageType /\ page'.doc = page.doc /\ page'.fresh = page.fresh
        /\ page'.submittable = page.submittable
        /\ \A x \in Questions : /\ page'.questions[x].value = page.questions[x].value
                                /\ page'.questions[x].loading = page.questions[x].loading
    BY <1>0, <2>2 DEF PageType, Shown
  <2>4. PageGood(page', exists, held)
    BY <1>0, <2>3 DEF PageGood
  <2>5. ScreenGood'
    BY <1>s, <2>1, <2>3 DEF history, IInv, ScreenGood
  <2> QED BY <1>f, <2>1, <2>3, <2>4, <2>5 DEF IInv, NetGood, RetriesGood
<1>6. ASSUME NEW q \in Questions, NEW a \in Values, page.doc \in Docs,
             page' \in PageType, page'.doc = page.doc, page'.fresh = page.fresh,
             page'.submittable = page.submittable,
             \A x \in Questions : x # q => page'.questions[x] = page.questions[x],
             page'.questions[q].loading \/ page.doc \notin {"response", "consensus"},
             NEW notes \in BOOLEAN, Post(page.doc, q, a, notes, TRUE),
             UNCHANGED <<server, context, cache, sidebar, astray>>, retry' \subseteq retry
      PROVE  IInv'
  <2>1. PageGood(page', exists, held)
    BY <1>0, <1>6 DEF PageGood
  <2>2. (\A r \in net' : Good(r, page.doc, exists, held)) /\ strayed' \subseteq Docs
    BY <1>6, PostGood
  <2>3. ScreenGood'
    BY <1>s, <1>6, <2>2
  <2> QED BY <1>f, <1>6, <2>1, <2>2, <2>3 DEF IInv, NetGood, RetriesGood
<1>7. ASSUME NEW q \in Questions, NEW a \in Answers, AssignAnswer(q, a) PROVE IInv'
  <2>1. page.doc \in Docs /\ page.questions[q].notes \in BOOLEAN /\ a \in Values
    BY <1>0, <1>7 DEF AssignAnswer, Shown, AllDocs
  <2>3. /\ page' \in PageType /\ page'.doc = page.doc /\ page'.fresh = page.fresh
        /\ page'.submittable = page.submittable /\ page'.questions[q].loading
        /\ \A x \in Questions : x # q => page'.questions[x] = page.questions[x]
    BY <1>0, <1>7, AssignedPage
  <2> QED BY <1>6, <1>7, <2>1, <2>3 DEF AssignAnswer
<1>8. ASSUME NEW q \in Questions, SkipQuestion(q) PROVE IInv'
  <2>1. page.doc \in Docs /\ page.questions[q].notes \in BOOLEAN
    BY <1>0, <1>8 DEF SkipQuestion, Shown, AllDocs
  <2>2. page' = [page EXCEPT !.questions[q].loading = TRUE]
    BY <1>8 DEF SkipQuestion
  <2>3. /\ page' \in PageType /\ page'.doc = page.doc /\ page'.fresh = page.fresh
        /\ page'.submittable = page.submittable /\ page'.questions[q].loading
        /\ \A x \in Questions : x # q => page'.questions[x] = page.questions[x]
    BY <1>0, <2>2, SpinType
  <2> QED BY <1>0, <1>6, <1>8, <2>1, <2>3 DEF SkipQuestion
<1>9. ASSUME NEW q \in Questions, NEW a \in Answers, SaveScore(q, a) PROVE IInv'
  <2>1. page.doc \in Docs /\ page.questions[q].notes \in BOOLEAN /\ a \in Values
        /\ page.doc = "analysis"
    BY <1>0, <1>9 DEF SaveScore, Shown, AllDocs
  <2>2. page' = [page EXCEPT !.questions[q].value = a]
    BY <1>9 DEF SaveScore
  <2>3. /\ page' \in PageType /\ page'.doc = page.doc /\ page'.fresh = page.fresh
        /\ page'.submittable = page.submittable
        /\ \A x \in Questions : x # q => page'.questions[x] = page.questions[x]
    BY <1>0, <2>1, <2>2, ZenonT(60) DEF PageType, Shown
  <2> QED BY <1>6, <1>9, <2>1, <2>3 DEF SaveScore
<1>10. ASSUME NEW m \in retry, RetrySave(m) PROVE IInv'
  <2> DEFINE q == m.arg.question
             notes == IF m.live THEN page.questions[q].notes ELSE m.arg.notes
  <2>1. /\ m.doc \in Docs /\ m.live \in BOOLEAN /\ q \in Questions /\ m.arg.value \in Values
        /\ m.arg.notes \in BOOLEAN /\ (m.live => m.doc = page.doc)
    BY DEF IInv, RetriesGood, RetryGood, ArgGood
  <2>2. notes \in BOOLEAN
    BY <1>0, <2>1 DEF Shown
  <2>3. /\ page' = IF m.live THEN [page EXCEPT !.questions[q].loading = TRUE] ELSE page
        /\ Post(m.doc, q, m.arg.value, notes, m.live)
        /\ retry' = retry \ {m}
        /\ UNCHANGED <<server, context, cache, sidebar, astray>>
    BY <1>10 DEF RetrySave
  <2> HIDE DEF q, notes
  <2>4. /\ page' \in PageType /\ page'.doc = page.doc /\ page'.fresh = page.fresh
        /\ page'.submittable = page.submittable
        /\ page'.questions[q].loading \/ page' = page
        /\ \A x \in Questions : x # q => page'.questions[x] = page.questions[x]
    BY <1>0, <2>1, <2>3 DEF PageType, Shown
  <2>5. PageGood(page', exists, held)
    BY <1>0, <2>4 DEF PageGood
  <2>6. (\A r \in net' : Good(r, page.doc, exists, held)) /\ strayed' \subseteq Docs
    BY <2>1, <2>2, <2>3, PostGood
  <2>7. ScreenGood'
    BY <1>s, <2>3, <2>4, <2>6
  <2> QED BY <1>f, <2>3, <2>4, <2>5, <2>6, <2>7 DEF IInv, NetGood, RetriesGood
<1>11. ASSUME NEW m \in retry, CancelRetry(m) PROVE IInv'
  BY <1>11, <1>f, <1>s DEF CancelRetry, history, IInv, NetGood, RetriesGood, ScreenGood
<1>12. CASE SubmitResponse
  <2>1. /\ page.doc \in exists /\ page.doc \in Docs
        /\ net' = Send(net, "submit", page.doc, None, TRUE)
        /\ UNCHANGED <<server, context, cache, page, sidebar, retry, history>>
    BY <1>0, <1>12 DEF SubmitResponse, client, PageGood
  <2>2. \A r \in net' : Good(r, page.doc, exists, held)
    BY <2>1, SendGood DEF IInv, NetGood, Kinds
  <2>3. ScreenGood'
    BY <1>s, <2>1 DEF history, IInv, ScreenGood
  <2> QED BY <1>f, <2>1, <2>2, <2>3 DEF IInv, NetGood, RetriesGood
<1> QED
  BY <1>1, <1>2, <1>3, <1>4, <1>5, <1>7, <1>8, <1>9, <1>10, <1>11, <1>12 DEF User

\* The answers, and the requests that are served or fail.
LEMMA NetIInv == ASSUME IInv, NEW r \in net, Callback(r) \/ Serve(r) \/ Fail(r) PROVE IInv'
<1>0. /\ PageGood(page, exists, held) /\ page \in PageType /\ page.doc \in Docs \cup {None}
      /\ page.questions \in [Questions -> Shown] /\ None \notin AllDocs
      /\ sidebar \in [Questions -> Values] /\ None \in Filters /\ None \in Values
      /\ Good(r, page.doc, exists, held) /\ Request(r) /\ r.doc \in Docs
  BY ConstantsOK DEF IInv, PageGood, PageType, ScreenGood, ConstantsOK, Filters, Values, NetGood,
                     Good, Request
<1>f. ASSUME UNCHANGED server PROVE StoreGood' /\ exists' = exists /\ held' = held
  BY <1>f DEF server, IInv, StoreGood
<1>s. ASSUME UNCHANGED <<context, astray>>, sidebar' \in [Questions -> Values],
             strayed' \subseteq Docs, page'.doc \in {page.doc, None}
      PROVE  ScreenGood'
  BY <1>s DEF IInv, ScreenGood, ContextFollowsPage
<1>n. \A q \in net \ {r} : Good(q, page.doc, exists, held)
  BY DEF IInv, NetGood
<1>1. CASE Opened(r)
  <2>1. SnapGood(r.reply, held[r.doc]) /\ r.doc \in exists
    BY <1>0, <1>1 DEF Opened, Answered, Good, Kept, Loads
  <2>2. UNCHANGED <<server, strayed, astray>>
    BY <1>1 DEF Opened, history
  <2>3. CacheGood(cache', held)
    BY <1>0, <1>1, <2>1, RememberGood DEF Opened
  <2>4. CASE r.live
    <3>1. /\ PageGood(page', exists', held') /\ NetGood' /\ RetriesGood'
          /\ sidebar' \in [Questions -> Values] /\ context' = Context(r.doc) /\ page'.doc = r.doc
      BY <1>1, <1>f, <1>n, <2>1, <2>2, <2>4, ShowGood DEF Opened
    <3>2. ScreenGood'
      BY <2>2, <3>1 DEF IInv, ScreenGood, ContextFollowsPage, Context
    <3> QED BY <1>f, <2>2, <2>3, <3>1, <3>2 DEF IInv
  <2>5. CASE ~r.live
    <3>1. net' = net \ {r} /\ UNCHANGED <<context, page, sidebar, retry>>
      BY <1>1, <2>5 DEF Opened
    <3>2. ScreenGood'
      BY <1>s, <2>2, <3>1 DEF IInv, ScreenGood
    <3> QED BY <1>f, <1>n, <2>2, <2>3, <3>1, <3>2 DEF IInv, NetGood, RetriesGood
  <2> QED BY <2>4, <2>5
<1>2. CASE Filtered(r)
  <2>1. /\ SnapGood(r.reply, held[r.doc]) /\ r.arg.role \in Filters
        /\ r.live => r.doc = page.doc
    BY <1>0, <1>2 DEF Filtered, Answered, Good, Kept, Loads, Request, Live
  <2>2. UNCHANGED <<server, context, sidebar, retry, history>>
    BY <1>2 DEF Filtered
  <2>3. CacheGood(cache', held)
    BY <1>0, <1>2, <2>1, RememberGood DEF Filtered
  <2>4. /\ PageGood(page', exists, held) /\ page'.doc = page.doc
        /\ \A q \in net' : Good(q, page.doc, exists, held)
    <3>1. CASE r.live
      BY <1>0, <1>2, <1>n, <2>1, <3>1, ReplaceGood DEF Filtered
    <3>2. CASE ~r.live
      BY <1>0, <1>2, <1>n, <3>2 DEF Filtered
    <3> QED BY <3>1, <3>2
  <2>5. ScreenGood'
    BY <1>0, <1>s, <2>2, <2>4 DEF history, IInv, ScreenGood
  <2> QED BY <1>f, <2>2, <2>3, <2>4, <2>5 DEF IInv, NetGood, RetriesGood
<1>3. CASE Saved(r)
  <2>1. /\ r.arg.question \in Questions /\ r.arg.value \in Values
        /\ r.arg.value \in held[r.doc][r.arg.question] /\ (r.live => r.doc = page.doc)
    BY <1>0, <1>3 DEF Saved, Answered, Good, Kept, Request, ArgGood, Live
  <2>2. UNCHANGED <<server, context, cache, sidebar, retry, astray>>
    BY <1>3 DEF Saved
  <2>3. CASE ~r.live
    <3>1. net' = net \ {r} /\ UNCHANGED <<page, strayed>>
      BY <1>3, <2>3 DEF Saved
    <3>2. ScreenGood'
      BY <1>0, <1>s, <2>2, <3>1 DEF IInv, ScreenGood
    <3> QED BY <1>0, <1>f, <1>n, <2>2, <3>1, <3>2 DEF IInv, NetGood, RetriesGood
  <2>4. CASE r.live
    <3>1. /\ UpdateScores(net \ {r})
          /\ page' = IF r.doc = "analysis" THEN page
                     ELSE [page EXCEPT !.questions[r.arg.question].value = r.arg.value,
                                       !.questions[r.arg.question].loading = FALSE]
      BY <1>3, <2>4 DEF Saved
    <3>2. /\ page' \in PageType /\ page'.doc = page.doc /\ page'.fresh = page.fresh
          /\ page'.submittable = page.submittable
          /\ page'.questions[r.arg.question].value = r.arg.value \/ page' = page
          /\ \A x \in Questions : x # r.arg.question => page'.questions[x] = page.questions[x]
      <4>1. CASE r.doc = "analysis"
        BY <1>0, <3>1, <4>1
      <4>2. CASE r.doc # "analysis"
        BY <1>0, <1>3, <2>1, <2>4, <4>2, SavedPage
      <4> QED BY <4>1, <4>2
    <3>3. PageGood(page', exists, held)
      BY <1>0, <2>1, <2>4, <3>2 DEF PageGood
    <3>4. page.doc \in Docs
      BY <1>0, <2>1, <2>4
    <3>5. /\ \A q \in net' : Good(q, page.doc, exists, held)
          /\ strayed' \subseteq Docs
      BY <1>n, <3>1, <3>4, SendGood DEF UpdateScores, Kinds, IInv, ScreenGood
    <3>6. ScreenGood'
      BY <1>0, <1>s, <2>2, <3>2, <3>5
    <3> QED BY <1>f, <2>2, <3>2, <3>3, <3>5, <3>6 DEF IInv, NetGood, RetriesGood
  <2> QED BY <2>3, <2>4
<1>4. CASE SaveFailed(r)
  <2> DEFINE m == [doc |-> r.doc, arg |-> r.arg, live |-> r.live]
  <2>1. /\ retry' \subseteq retry \cup {m} /\ net' = net \ {r}
        /\ UNCHANGED <<server, context, cache, page, sidebar, history>>
    BY <1>4 DEF SaveFailed
  <2>2. RetryGood(m, page.doc)
    BY <1>0, <1>4 DEF RetryGood, SaveFailed, Refused, Request, Good, Live
  <2> HIDE DEF m
  <2>3. ScreenGood'
    BY <1>0, <1>s, <2>1 DEF history, IInv, ScreenGood
  <2> QED BY <1>0, <1>f, <1>n, <2>1, <2>2, <2>3 DEF IInv, NetGood, RetriesGood
<1>5. CASE Scored(r)
  <2>1. /\ net' = net \ {r}
        /\ UNCHANGED <<server, context, cache, page, retry, astray>>
        /\ strayed' \subseteq Docs
    BY <1>0, <1>5 DEF Scored, IInv, ScreenGood
  <2>2. r.status = "ok" => r.reply \in Snap
    BY <1>0, <1>5 DEF Scored, Answered, Refused, Good, Kept, Loads, SnapGood
  <2>3. sidebar' \in [Questions -> Values]
    BY <1>0, <1>5, <2>2 DEF Scored, Snap, Cells
  <2>4. ScreenGood'
    BY <1>0, <1>s, <2>1, <2>3
  <2> QED BY <1>0, <1>f, <1>n, <2>1, <2>4 DEF IInv, NetGood, RetriesGood
<1>6. ASSUME Leave(net \ {r}), UNCHANGED <<server, context, cache, history>> PROVE IInv'
  <2>1. PageGood(page', exists, held) /\ page'.doc = None
    BY <1>6, ElsewhereGood DEF Leave
  <2>2. \A q \in net' : Good(q, None, exists, held)
    BY <1>6, <1>n, OrphanedGood DEF Leave
  <2>3. RetriesGood'
    <3> SUFFICES ASSUME NEW m \in retry PROVE RetryGood([m EXCEPT !.live = FALSE], page'.doc)
      BY <1>6 DEF Leave, RetriesGood
    <3> QED BY DeadRetries DEF IInv, RetriesGood
  <2>4. ScreenGood'
    BY <1>0, <1>6, <1>s, <2>1 DEF Leave, history, IInv, ScreenGood
  <2> QED BY <1>6, <1>f, <2>1, <2>2, <2>3, <2>4 DEF IInv, NetGood
<1>7. CASE Submitted(r)
  BY <1>6, <1>7 DEF Submitted
<1>8. ASSUME net' = net \ {r}, UNCHANGED <<server, client, history>> PROVE IInv'
  <2>1. UNCHANGED <<context, cache, page, sidebar, retry, strayed, astray>>
    BY <1>8 DEF client, history
  <2>2. ScreenGood'
    BY <1>0, <1>s, <2>1 DEF IInv, ScreenGood
  <2> QED BY <1>0, <1>8, <1>f, <1>n, <2>1, <2>2 DEF IInv, NetGood, RetriesGood
<1>9. CASE GiveUp(r)
  BY <1>8, <1>9 DEF GiveUp
<1>10. CASE CreateFailed(r)
  BY <1>6, <1>8, <1>10 DEF CreateFailed, client
<1>11. CASE Created(r)
  <2>1. /\ r.kind = "create" /\ r.status = "ok" /\ r.arg.step \in {1, 2} /\ r.live \in BOOLEAN
        /\ r.live => page.doc = None
        /\ ~(r.doc = "response" /\ r.arg.step = 1) => r.doc \in exists
    BY <1>0, <1>11 DEF Created, Answered, Good, Request, Live, Kept
  <2>2. UNCHANGED <<server, cache>>
    BY <1>11 DEF Created
  <2>3. CASE r.arg.step < Steps(r.doc)
    <3> DEFINE arg == [step |-> r.arg.step + 1]
    <3>1. /\ net' = Send(net \ {r}, "create", r.doc, arg, r.live)
          /\ UNCHANGED <<context, page, sidebar, retry, history>>
      BY <1>11, <2>3 DEF Created
    <3>2. arg.step \in {1, 2}
      BY <2>1, <2>3 DEF Steps
    <3> HIDE DEF arg
    <3>3. \A q \in net' : Good(q, page.doc, exists, held)
      BY <1>0, <1>n, <2>1, <3>1, <3>2, SendGood DEF Kinds
    <3>4. ScreenGood'
      BY <1>0, <1>s, <3>1 DEF history, IInv, ScreenGood
    <3> QED BY <1>0, <1>f, <2>2, <3>1, <3>3, <3>4 DEF IInv, NetGood, RetriesGood
  <2>4. CASE ~(r.arg.step < Steps(r.doc))
    <3>1. /\ Go(r.doc, net \ {r}) /\ astray' = (astray \/ ~r.live)
          /\ context' = IF r.doc = "response" THEN context ELSE Context(r.doc)
      BY <1>11, <2>4 DEF Created
    <3>2. r.doc \in exists
      BY <2>1, <2>4 DEF Steps
    <3>3. /\ PageGood(page', exists', held') /\ NetGood' /\ RetriesGood'
          /\ sidebar' \in [Questions -> Values] /\ strayed' \subseteq Docs
          /\ \/ context' = Context(r.doc) /\ page'.doc = r.doc
             \/ page' = page
      BY <1>n, <2>2, <3>1, <3>2, GoGood
    <3>4. ScreenGood'
      BY <2>1, <3>1, <3>3 DEF IInv, ScreenGood, ContextFollowsPage, Context
    <3> QED BY <1>f, <2>2, <3>3, <3>4 DEF IInv
  <2> QED BY <2>3, <2>4
<1>12. CASE Serve(r)
  BY <1>12, ServedGood DEF Serve, Loads
<1>13. CASE Fail(r)
  BY <1>13, ServedGood DEF Fail
<1> QED
  BY <1>1, <1>2, <1>3, <1>4, <1>5, <1>7, <1>9, <1>10, <1>11, <1>12, <1>13 DEF Callback

LEMMA NextIInv == IInv /\ [Next]_vars => IInv'
<1>1. IInv /\ UNCHANGED vars => IInv'
  BY DEF vars, server, client, history, IInv, StoreGood, ScreenGood, ContextFollowsPage, NetGood,
         RetriesGood
<1> QED BY <1>1, UserIInv, NetIInv DEF Next

LEMMA Inductive == Spec => []IInv
BY InitIInv, NextIInv, PTL DEF Spec

---------------------------------------------------------------------------
(* The theorems                                                            *)

\* Every variable has its type, the answers and the cache included.
THEOREM TypeCorrect == Spec => []TypeOK
<1>1. IInv => TypeOK
  BY DEF IInv, TypeOK, StoreGood, ScreenGood, PageGood, PageType, NetGood, Good, Request, Holding
<1> QED BY <1>1, Inductive, PTL

\* No page shows an answer as saved that the server never held, whatever was
\* clicked, refused, retried, cached or answered out of order.
THEOREM ShownWasAlwaysHeld == Spec => []ShownWasHeld
<1>1. IInv => ShownWasHeld
  BY DEF IInv, PageGood, ShownWasHeld
<1> QED BY <1>1, Inductive, PTL

\* The shared service works for the page on screen, unless a create was
\* answered after its user went elsewhere.
THEOREM ContextAlwaysFollowsPage == Spec => []ContextFollowsPage
<1>1. IInv => ContextFollowsPage
  BY DEF IInv, ScreenGood
<1> QED BY <1>1, Inductive, PTL

---------------------------------------------------------------------------
(* When a response is at rest its page shows what is stored.               *)
(*                                                                         *)
(* A load of the response is overtaken by no save, unless the response has *)
(* strayed.  While its page is on screen, each question with a save under  *)
(* way turns its spinner, and one that does not shows its stored value;    *)
(* so does the sidebar, or will when its one query is answered.            *)

OfResponse(s) == s.kind = "save" /\ s.doc = "response"
Opening(s)    == s.kind = "open" /\ s.doc = "response" /\ s.live
Query(s)      == s.kind = "scores" /\ s.live

\* Which requests are for which page, and that a response is never cached.
Placed ==
    /\ \A s \in net : Opening(s) => page.doc # "response"
    /\ \A s \in net : Query(s) => s.doc = page.doc
    /\ "response" \in Docs => cache["response"][None] = None

OpensFresh ==
    "response" \notin strayed =>
        \A r \in net : Opening(r) =>
            /\ \A s \in net : ~OfResponse(s)
            /\ r.status = "ok" => r.reply.cells = stored["response"]

SaveTracked(s) ==
    /\ s.live /\ page.questions[s.arg.question].loading
    /\ s.status = "ok" => stored["response"][s.arg.question].value = s.arg.value

QuestionTracked(q) ==
    LET value == stored["response"][q].value
    IN  /\ page.questions[q].value = value
        /\ \A s \in net : Query(s) /\ s.status = "ok" => s.reply.cells[q].value = value
        /\ (\A s \in net : ~Query(s)) => sidebar[q] = value

PageTracked ==
    page.doc = "response" /\ "response" \notin strayed =>
        /\ \A s \in net : OfResponse(s) => SaveTracked(s)
        /\ \A s, t \in net :
              OfResponse(s) /\ OfResponse(t) /\ s.arg.question = t.arg.question => s = t
        /\ \A s, t \in net : Query(s) /\ Query(t) => s = t
        /\ \A q \in Questions : ~page.questions[q].loading => QuestionTracked(q)

Tracked == Placed /\ OpensFresh /\ PageTracked

\* The request that Send adds.
Number(R) == CHOOSE n \in 1..(Cardinality(R) + 1) : \A r \in R : r.n # n
Sent(kind, d, arg, live, n) ==
    [kind |-> kind, doc |-> d, arg |-> arg, live |-> live, status |-> "sent", reply |-> None, n |-> n]

\* What the steps below know of every state.
LEMMA TrackedFacts ==
    ASSUME IInv
    PROVE  /\ page \in PageType /\ page.questions \in [Questions -> Shown]
           /\ page.doc \in Docs \cup {None} /\ None # "response" /\ None \in Filters
           /\ \A s \in net : /\ Request(s) /\ s.kind \in Kinds /\ s.doc \in Docs
                             /\ s.live \in BOOLEAN
                             /\ s.kind = "save" => s.arg.question \in Questions /\ s.arg.value \in Values
                             /\ s.live /\ s.kind \in {"save", "filter"} => s.doc = page.doc
                             /\ s.kind = "filter" => s.doc = "consensus"
BY ConstantsOK DEF IInv, PageGood, PageType, NetGood, Good, Request, Live, ArgGood, ConstantsOK,
                   AllDocs, Filters

\* Requests that lose their page are as before, but dead.
LEMMA OrphanedMembers ==
    ASSUME NEW R, \A r \in R : Request(r), NEW kinds
    PROVE  /\ \A s \in Orphaned(R, kinds) :
                 \/ s \in R /\ s.kind \notin kinds
                 \/ /\ s.kind \in kinds /\ ~s.live
                    /\ \E t \in R : t.kind = s.kind /\ t.doc = s.doc
           /\ \A s \in R : s.kind \notin kinds => s \in Orphaned(R, kinds)
<1>1. ASSUME NEW r \in R, r.kind \in kinds
      PROVE  LET s == [r EXCEPT !.live = FALSE]
             IN  s.kind = r.kind /\ s.doc = r.doc /\ s.live = FALSE
  <2>1. r \in [kind: Kinds, doc: Docs, arg: {r.arg}, live: BOOLEAN,
               status: {"sent", "ok", "failed"}, reply: {r.reply}, n: {r.n}]
    BY DEF Request
  <2> QED BY <2>1
<1> QED BY <1>1 DEF Orphaned

\* A step that leaves the page of the response, its answers, and what is under
\* way for it, as they were.
LEMMA StayTracked ==
    ASSUME IInv, Tracked,
           page'.doc = page.doc,
           page.doc = "response" =>
               sidebar' = sidebar /\ \A q \in Questions : page'.questions[q] = page.questions[q],
           "response" \in Docs => cache'["response"][None] = cache["response"][None],
           "response" \in strayed => "response" \in strayed',
           stored' = stored,
           \A s \in net' : /\ Opening(s) => s \in net
                           /\ Query(s) => s \in net \/ (page.doc # "response" /\ s.doc = page.doc)
                           /\ OfResponse(s) =>
                                 s \in net \/ (page.doc # "response" /\ \E t \in net : OfResponse(t)),
           page.doc = "response" => \A s \in net : Query(s) => s \in net'
    PROVE  Tracked'
<1>1. Placed'
  BY DEF Tracked, Placed
<1>2. OpensFresh'
  BY DEF Tracked, OpensFresh
<1>3. PageTracked'
  <2> SUFFICES ASSUME page'.doc = "response", "response" \notin strayed'
               PROVE  /\ \A s \in net' : OfResponse(s) => SaveTracked(s)'
                      /\ \A s, t \in net' :
                           OfResponse(s) /\ OfResponse(t) /\ s.arg.question = t.arg.question
                               => s = t
                      /\ \A s, t \in net' : Query(s) /\ Query(t) => s = t
                      /\ \A q \in Questions : ~page'.questions[q].loading => QuestionTracked(q)'
    BY DEF PageTracked
  <2>1. \A s \in net' : OfResponse(s) \/ Query(s) => s \in net
    OBVIOUS
  <2>2. \A s \in net' : OfResponse(s) => SaveTracked(s)'
    <3> SUFFICES ASSUME NEW s \in net', OfResponse(s) PROVE SaveTracked(s)'
      OBVIOUS
    <3>1. s.arg.question \in Questions /\ s \in net
      BY <2>1, TrackedFacts DEF OfResponse
    <3>2. SaveTracked(s)
      BY <3>1 DEF Tracked, PageTracked
    <3> QED BY <3>1, <3>2 DEF SaveTracked
  <2>3. \A q \in Questions : ~page'.questions[q].loading => QuestionTracked(q)'
    BY <2>1 DEF Tracked, PageTracked, QuestionTracked
  <2> QED BY <2>1, <2>2, <2>3 DEF Tracked, PageTracked
<1> QED BY <1>1, <1>2, <1>3 DEF Tracked

\* A step to another page, with no load of the response under way.
LEMMA AwayTracked ==
    ASSUME Tracked, page'.doc # "response",
           "response" \in Docs => cache'["response"][None] = cache["response"][None],
           \A s \in net' : ~Opening(s) /\ (Query(s) => s.doc = page'.doc)
    PROVE  Tracked'
BY DEF Tracked, Placed, OpensFresh, PageTracked

\* Another page is shown.
LEMMA ShowAway ==
    ASSUME Tracked, NEW d \in Docs, d # "response", NEW snap, NEW R, \A s \in R : Request(s),
           Show(d, snap, R),
           "response" \in Docs => cache'["response"][None] = cache["response"][None]
    PROVE  Tracked'
<1>1. page'.doc = d
  <2>1. Elsewhere \in PageType
    BY ElsewhereGood DEF PageGood
  <2> QED BY <2>1 DEF Show, NewPage, PageType
<1>2. \A s \in Orphaned(R, OfPage) : ~Opening(s) /\ ~Query(s)
  BY OrphanedMembers DEF OfPage, Opening, Query
<1> DEFINE q == Sent("scores", d, None, TRUE, Number(Orphaned(R, OfPage)))
<1>3. net' = Orphaned(R, OfPage) \cup {q} /\ q.kind = "scores" /\ q.doc = d
  BY DEF Show, Send, Sent, Number
<1> HIDE DEF q
<1> QED BY <1>1, <1>2, <1>3, AwayTracked DEF Opening, Query

\* On the way to a document, at once or after a request.
LEMMA GoTracked ==
    ASSUME IInv, Tracked, NEW d \in Docs, NEW R, R \subseteq net, Go(d, R),
           \A s \in net \ R : ~Query(s), cache' = cache, stored' = stored
    PROVE  Tracked'
<1> DEFINE moving == Orphaned(R, {"open"})
<1>0. \A s \in R : Request(s)
  BY TrackedFacts
<1>1. \A s \in moving : /\ ~Opening(s)
                        /\ Query(s) => s \in R
                        /\ OfResponse(s) => s \in R
  BY <1>0, OrphanedMembers DEF Opening, Query, OfResponse
<1>2. \A s \in R : Query(s) => s \in moving
  BY <1>0, OrphanedMembers DEF Query
<1>3. \A s \in moving : Request(s)
  <2>1. \A s \in R : Good(s, page.doc, exists, held)
    BY DEF IInv, NetGood
  <2> QED BY <2>1, OrphanedGood DEF Good
<1>4. strayed' = IF page.doc = d \/ \E r \in net : r.kind = "save" /\ r.doc = d
                 THEN strayed \cup {d} ELSE strayed \ {d}
  BY DEF Go
<1>5. CASE page.doc # d /\ cache[d][None] # None
  <2>1. Show(d, cache[d][None], moving)
    BY <1>5 DEF Go
  <2>2. d # "response"
    BY <1>5 DEF Tracked, Placed
  <2> HIDE DEF moving
  <2> QED BY <1>3, <2>1, <2>2, ShowAway
<1>6. CASE page.doc = d
  <2>1. net' = moving /\ UNCHANGED <<page, sidebar>>
    BY <1>6 DEF Go
  <2> HIDE DEF moving
  <2> QED BY <1>1, <1>2, <1>4, <1>6, <2>1, StayTracked
<1>7. CASE page.doc # d /\ cache[d][None] = None
  <2>1. net' = Send(moving, "open", d, None, TRUE) /\ UNCHANGED <<page, sidebar>>
    BY <1>7 DEF Go
  <2> HIDE DEF moving
  <2> DEFINE q == Sent("open", d, None, TRUE, Number(moving))
  <2>2. net' = moving \cup {q} /\ q.kind = "open" /\ q.doc = d /\ q.status = "sent"
    BY <2>1 DEF Send, Sent, Number
  <2> HIDE DEF q
  <2>3. ~Query(q) /\ ~OfResponse(q) /\ (Opening(q) => d = "response")
    BY <2>2 DEF Query, OfResponse, Opening
  <2>4. CASE d # "response"
    BY <1>1, <1>2, <1>4, <2>1, <2>2, <2>3, <2>4, StayTracked
  <2>5. CASE d = "response"
    <3>1. Placed'
      BY <1>1, <1>7, <2>1, <2>2, <2>3, <2>5 DEF Tracked, Placed
    <3>2. OpensFresh'
      BY <1>1, <1>4, <2>2, <2>3, <2>5 DEF OpensFresh, OfResponse
    <3>3. PageTracked'
      BY <1>7, <2>1, <2>5 DEF PageTracked
    <3> QED BY <3>1, <3>2, <3>3 DEF Tracked
  <2> QED BY <2>4, <2>5
<1> QED BY <1>5, <1>6, <1>7

\* The page of a document is loaded.
LEMMA OpenedTracked == ASSUME IInv, Tracked, NEW r \in net, Opened(r) PROVE Tracked'
<1>0. /\ r.kind = "open" /\ r.status = "ok" /\ r.doc \in Docs /\ UNCHANGED <<stored, strayed>>
      /\ r.live \in BOOLEAN
  BY TrackedFacts DEF Opened, Answered, server, history
<1>1. "response" \in Docs => cache'["response"][None] = cache["response"][None]
  BY <1>0 DEF Opened, Remember, IInv, CacheGood
<1>2. CASE ~r.live
  <2>1. net' = net \ {r} /\ UNCHANGED <<page, sidebar>>
    BY <1>2 DEF Opened
  <2>2. ~Query(r)
    BY <1>0 DEF Query
  <2> QED BY <1>0, <1>1, <2>1, <2>2, StayTracked
<1>3. CASE r.live
  <2>1. Show(r.doc, r.reply, net \ {r}) /\ \A s \in net \ {r} : Request(s)
    BY <1>3, TrackedFacts DEF Opened
  <2>2. CASE r.doc # "response"
    BY <1>0, <1>1, <2>1, <2>2, ShowAway
  <2>3. CASE r.doc = "response"
    <3>0. Opening(r)
      BY <1>0, <1>3, <2>3 DEF Opening
    <3>1. page'.doc = "response" /\ page'.questions = Display(r.reply)
      <4>1. Elsewhere \in PageType
        BY ElsewhereGood DEF PageGood
      <4> QED BY <2>1, <2>3, <4>1 DEF Show, NewPage, PageType
    <3>2. \A s \in Orphaned(net \ {r}, OfPage) :
             ~Opening(s) /\ ~Query(s) /\ (OfResponse(s) => \E t \in net : OfResponse(t))
      BY <2>1, OrphanedMembers DEF OfPage, Opening, Query, OfResponse
    <3> DEFINE q == Sent("scores", r.doc, None, TRUE, Number(Orphaned(net \ {r}, OfPage)))
    <3>3. /\ net' = Orphaned(net \ {r}, OfPage) \cup {q}
          /\ q.kind = "scores" /\ q.doc = "response" /\ q.live = TRUE /\ q.status = "sent"
      BY <2>1, <2>3 DEF Show, Send, Sent, Number
    <3> HIDE DEF q
    <3>4. Query(q) /\ ~Opening(q) /\ ~OfResponse(q)
      BY <3>3 DEF Query, Opening, OfResponse
    <3>5. Placed'
      BY <1>1, <3>1, <3>2, <3>3, <3>4 DEF Tracked, Placed
    <3>6. OpensFresh'
      BY <3>2, <3>3, <3>4 DEF OpensFresh
    <3>7. PageTracked'
      <4> SUFFICES ASSUME "response" \notin strayed PROVE PageTracked'
        BY <1>0 DEF PageTracked
      <4>1. r.reply.cells = stored["response"] /\ \A s \in net : ~OfResponse(s)
        BY <1>0, <3>0 DEF Tracked, OpensFresh
      <4>2. \A x \in Questions : page'.questions[x].value = stored'["response"][x].value
        BY <1>0, <3>1, <4>1 DEF Display
      <4>3. \A s \in net' : ~OfResponse(s) /\ (Query(s) => s = q)
        BY <3>2, <3>3, <3>4, <4>1
      <4>4. \A x \in Questions : QuestionTracked(x)'
        BY <3>3, <3>4, <4>2, <4>3 DEF QuestionTracked
      <4> QED BY <4>3, <4>4 DEF PageTracked
    <3> QED BY <3>5, <3>6, <3>7 DEF Tracked
  <2> QED BY <2>2, <2>3
<1> QED BY <1>0, <1>2, <1>3

\* A score is posted.
LEMMA PostTracked ==
    ASSUME IInv, Tracked, NEW d \in Docs, NEW q \in Questions, NEW a, NEW notes, NEW live \in BOOLEAN,
           live => d = page.doc, Post(d, q, a, notes, live),
           page'.doc = page.doc, UNCHANGED <<sidebar, cache, stored>>,
           live => page'.questions[q].loading \/ page.doc # "response",
           \A x \in Questions : page'.questions[x] = page.questions[x] \/ (live /\ x = q)
    PROVE  Tracked'
<1> DEFINE arg == [question |-> q, value |-> a, notes |-> notes]
           s == Sent("save", d, arg, live, Number(net))
<1>1. /\ net' = net \cup {s} /\ s.kind = "save" /\ s.doc = d /\ s.arg.question = q
      /\ s.live = live /\ s.status = "sent"
  BY DEF Post, Send, Sent, Number
<1>2. strayed' = IF live /\ ~\E r \in net : r.kind = "save" /\ r.doc = d /\ r.arg.question = q
                 THEN strayed ELSE strayed \cup {d}
  BY DEF Post
<1> HIDE DEF arg, s
<1>3. ~Opening(s) /\ ~Query(s) /\ (OfResponse(s) <=> d = "response")
  BY <1>1 DEF Opening, Query, OfResponse
<1>4. CASE d # "response"
  <2>1. page.doc = "response" => \A x \in Questions : page'.questions[x] = page.questions[x]
    BY <1>4
  <2> QED BY <1>1, <1>2, <1>3, <1>4, <2>1, StayTracked
<1>5. CASE d = "response"
  <2>1. Placed'
    BY <1>1, <1>3 DEF Tracked, Placed
  <2>2. CASE ~(live /\ ~\E r \in net : r.kind = "save" /\ r.doc = d /\ r.arg.question = q)
    BY <1>2, <1>5, <2>1, <2>2 DEF Tracked, OpensFresh, PageTracked
  <2>3. CASE live /\ ~\E r \in net : r.kind = "save" /\ r.doc = d /\ r.arg.question = q
    <3>1. page.doc = "response" /\ strayed' = strayed /\ page'.questions[q].loading
      BY <1>2, <1>5, <2>3
    <3>2. OpensFresh'
      BY <1>1, <1>3, <3>1 DEF Tracked, Placed, OpensFresh
    <3>3. ASSUME "response" \notin strayed PROVE PageTracked'
      <4>1. \A t \in net : OfResponse(t) =>
               SaveTracked(t) /\ t.arg.question # q /\ t.arg.question \in Questions
        BY <1>5, <2>3, <3>1, <3>3, TrackedFacts DEF Tracked, PageTracked, OfResponse
      <4>2. \A t \in net' : OfResponse(t) => SaveTracked(t)'
        <5> SUFFICES ASSUME NEW t \in net', OfResponse(t) PROVE SaveTracked(t)'
          OBVIOUS
        <5>1. CASE t = s
          BY <1>1, <2>3, <3>1, <5>1 DEF SaveTracked
        <5>2. CASE t # s
          BY <1>1, <4>1, <5>2 DEF SaveTracked
        <5> QED BY <5>1, <5>2
      <4>3. \A t, u \in net' :
               OfResponse(t) /\ OfResponse(u) /\ t.arg.question = u.arg.question => t = u
        BY <1>1, <3>1, <3>3, <4>1 DEF Tracked, PageTracked
      <4>4. \A t, u \in net' : Query(t) /\ Query(u) => t = u
        BY <1>1, <1>3, <3>1, <3>3 DEF Tracked, PageTracked
      <4>5. ASSUME NEW x \in Questions, ~page'.questions[x].loading PROVE QuestionTracked(x)'
        <5>1. page'.questions[x] = page.questions[x]
          BY <3>1, <4>5
        <5>2. QuestionTracked(x)
          BY <3>1, <3>3, <4>5, <5>1 DEF Tracked, PageTracked
        <5> QED BY <1>1, <1>3, <5>1, <5>2 DEF QuestionTracked
      <4> QED BY <4>2, <4>3, <4>4, <4>5 DEF PageTracked
    <3>4. "response" \in strayed => PageTracked'
      BY <3>1 DEF PageTracked
    <3> QED BY <2>1, <3>2, <3>3, <3>4 DEF Tracked
  <2> QED BY <2>2, <2>3
<1> QED BY <1>4, <1>5

\* A save is answered.
LEMMA SavedTracked == ASSUME IInv, Tracked, NEW r \in net, Saved(r) PROVE Tracked'
<1>0. /\ r.kind = "save" /\ r.status = "ok" /\ r.doc \in Docs /\ UNCHANGED <<stored, cache, sidebar>>
      /\ r.live \in BOOLEAN /\ r.arg.question \in Questions /\ r.arg.value \in Values
      /\ (r.live => r.doc = page.doc) /\ page \in PageType /\ ~Query(r) /\ ~Opening(r)
  BY TrackedFacts DEF Saved, Answered, server, Query, Opening
<1>1. CASE ~r.live
  <2>1. net' = net \ {r} /\ UNCHANGED <<page, strayed>>
    BY <1>1 DEF Saved
  <2> QED BY <1>0, <2>1, StayTracked
<1>2. CASE r.live
  <2> DEFINE s == Sent("scores", page.doc, None, TRUE, Number(net \ {r}))
  <2>1. /\ net' = (net \ {r}) \cup {s} /\ s.kind = "scores" /\ s.doc = page.doc
        /\ s.live = TRUE /\ s.status = "sent"
    BY <1>2 DEF Saved, UpdateScores, Send, Sent, Number
  <2>2. strayed' = IF \E t \in net \ {r} : t.kind = "scores" /\ t.live
                   THEN strayed \cup {page.doc} ELSE strayed
    BY <1>2 DEF Saved, UpdateScores
  <2> HIDE DEF s
  <2>3. ~Opening(s) /\ Query(s) /\ ~OfResponse(s)
    BY <2>1 DEF Opening, Query, OfResponse
  <2>4. CASE r.doc # "response"
    <3>1. page'.doc = page.doc
      <4>1. CASE r.doc = "analysis"
        BY <1>2, <4>1 DEF Saved
      <4>2. CASE r.doc # "analysis"
        BY <1>0, <1>2, <4>2, SavedPage
      <4> QED BY <4>1, <4>2
    <3> QED BY <1>0, <1>2, <2>1, <2>2, <2>3, <2>4, <3>1, StayTracked
  <2>5. CASE r.doc = "response"
    <3>1. /\ page.doc = "response" /\ page'.doc = "response" /\ OfResponse(r)
          /\ page'.questions[r.arg.question].value = r.arg.value
          /\ \A x \in Questions : x # r.arg.question => page'.questions[x] = page.questions[x]
      BY <1>0, <1>2, <2>5, SavedPage DEF OfResponse
    <3>2. Placed'
      BY <1>0, <2>1, <2>3, <3>1 DEF Tracked, Placed
    <3>3. OpensFresh'
      BY <1>0, <2>1, <2>3, <3>1 DEF Tracked, Placed, OpensFresh
    <3>4. ASSUME "response" \notin strayed' PROVE PageTracked'
      <4>1. "response" \notin strayed /\ \A t \in net \ {r} : ~Query(t)
        BY <2>2, <3>1, <3>4 DEF Query
      <4>2. stored["response"][r.arg.question].value = r.arg.value
        BY <1>0, <3>1, <4>1 DEF Tracked, PageTracked, SaveTracked
      <4>3. \A t \in net \ {r} : OfResponse(t) =>
               SaveTracked(t) /\ t.arg.question # r.arg.question /\ t.arg.question \in Questions
        BY <3>1, <4>1, TrackedFacts DEF Tracked, PageTracked, OfResponse
      <4>4. \A t \in net' : OfResponse(t) => SaveTracked(t)'
        BY <1>0, <2>1, <2>3, <3>1, <4>3 DEF SaveTracked
      <4>5. \A t, u \in net' :
               OfResponse(t) /\ OfResponse(u) /\ t.arg.question = u.arg.question => t = u
        BY <2>1, <2>3, <3>1, <4>1 DEF Tracked, PageTracked
      <4>6. \A t, u \in net' : Query(t) /\ Query(u) => t = u
        BY <2>1, <4>1
      <4>7. ASSUME NEW x \in Questions, ~page'.questions[x].loading PROVE QuestionTracked(x)'
        <5>1. page'.questions[x].value = stored'["response"][x].value
          <6>1. CASE x = r.arg.question
            BY <1>0, <3>1, <4>2, <6>1
          <6>2. CASE x # r.arg.question
            BY <1>0, <3>1, <4>1, <4>7, <6>2 DEF Tracked, PageTracked, QuestionTracked
          <6> QED BY <6>1, <6>2
        <5> QED BY <2>1, <2>3, <4>1, <5>1 DEF QuestionTracked
      <4> QED BY <4>4, <4>5, <4>6, <4>7 DEF PageTracked
    <3>5. "response" \in strayed' => PageTracked'
      BY DEF PageTracked
    <3> QED BY <3>2, <3>3, <3>4, <3>5 DEF Tracked
  <2> QED BY <2>4, <2>5
<1> QED BY <1>0, <1>1, <1>2

\* The sidebar's query is answered.
LEMMA ScoredTracked == ASSUME IInv, Tracked, NEW r \in net, Scored(r) PROVE Tracked'
<1>0. /\ r.kind = "scores" /\ r.status \in {"ok", "failed"} /\ net' = net \ {r}
      /\ UNCHANGED <<stored, cache, page>>
      /\ strayed' = IF r.status = "failed" THEN strayed \cup {r.doc} ELSE strayed
      /\ sidebar' = IF r.live /\ r.status = "ok"
                    THEN [q \in Questions |-> r.reply.cells[q].value] ELSE sidebar
  BY DEF Scored, Answered, Refused, server
<1>1. CASE page.doc # "response"
  BY <1>0, <1>1, StayTracked
<1>2. CASE ~r.live
  BY <1>0, <1>2, StayTracked DEF Query
<1>3. CASE page.doc = "response" /\ r.live
  <2>1. Query(r) /\ r.doc = "response"
    BY <1>0, <1>3 DEF Query, Tracked, Placed
  <2>2. Placed'
    BY <1>0 DEF Tracked, Placed
  <2>3. OpensFresh'
    BY <1>0 DEF Tracked, OpensFresh
  <2>4. ASSUME "response" \notin strayed' PROVE PageTracked'
    <3>1. /\ "response" \notin strayed /\ r.status = "ok"
          /\ sidebar' = [q \in Questions |-> r.reply.cells[q].value]
      BY <1>0, <1>3, <2>1, <2>4
    <3>2. \A t \in net' : OfResponse(t) => SaveTracked(t)'
      BY <1>0, <1>3, <3>1 DEF Tracked, PageTracked, SaveTracked
    <3>3. ASSUME NEW x \in Questions, ~page'.questions[x].loading PROVE QuestionTracked(x)'
      <4>1. QuestionTracked(x)
        BY <1>0, <1>3, <3>1, <3>3 DEF Tracked, PageTracked
      <4> QED BY <1>0, <2>1, <3>1, <4>1 DEF QuestionTracked
    <3> QED BY <1>0, <1>3, <3>1, <3>2, <3>3 DEF Tracked, PageTracked
  <2>5. "response" \in strayed' => PageTracked'
    BY DEF PageTracked
  <2> QED BY <2>2, <2>3, <2>4, <2>5 DEF Tracked
<1> QED BY <1>1, <1>2, <1>3

\* The server answers a request, or the answer is lost.
LEMMA AnsweredTracked ==
    ASSUME IInv, Tracked, NEW r \in net, NEW a, r.status = "sent",
           a.kind = r.kind, a.doc = r.doc, a.arg = r.arg, a.live = r.live,
           net' = (net \ {r}) \cup {a}, UNCHANGED <<cache, page, sidebar, strayed>>,
           \A x \in Questions :
               \/ stored'["response"][x] = stored["response"][x]
               \/ OfResponse(r) /\ x = r.arg.question,
           ~OfResponse(r) => stored'["response"] = stored["response"],
           a.status = "ok" /\ OfResponse(r) =>
               stored'["response"][r.arg.question].value = r.arg.value,
           a.status = "ok" /\ r.doc = "response" /\ r.kind \in {"open", "scores"} =>
               a.reply.cells = stored["response"]
    PROVE  Tracked'
<1>0. /\ Opening(a) <=> Opening(r)
      /\ Query(a) <=> Query(r)
      /\ OfResponse(a) <=> OfResponse(r)
  BY DEF Opening, Query, OfResponse
<1>1. Placed'
  BY <1>0 DEF Tracked, Placed
<1>2. OpensFresh'
  <2> SUFFICES ASSUME "response" \notin strayed, NEW o \in net', Opening(o)
               PROVE  /\ \A s \in net' : ~OfResponse(s)
                      /\ o.status = "ok" => o.reply.cells = stored'["response"]
    BY DEF OpensFresh
  <2>1. \A s \in net : ~OfResponse(s)
    BY <1>0 DEF Tracked, OpensFresh
  <2>2. stored'["response"] = stored["response"]
    BY <2>1
  <2>3. CASE o = a
    BY <1>0, <2>1, <2>2, <2>3 DEF Opening
  <2>4. CASE o # a
    BY <1>0, <2>1, <2>2, <2>4 DEF Tracked, OpensFresh
  <2> QED BY <2>3, <2>4
<1>3. ASSUME page.doc = "response", "response" \notin strayed PROVE PageTracked'
  <2>1. \A s, t \in net' :
           OfResponse(s) /\ OfResponse(t) /\ s.arg.question = t.arg.question => s = t
    BY <1>0, <1>3 DEF Tracked, PageTracked
  <2>2. \A s, t \in net' : Query(s) /\ Query(t) => s = t
    BY <1>0, <1>3 DEF Tracked, PageTracked
  <2>3. ASSUME NEW s \in net', OfResponse(s) PROVE SaveTracked(s)'
    <3>1. CASE s = a
      <4>1. SaveTracked(r)
        BY <1>0, <1>3, <2>3, <3>1 DEF Tracked, PageTracked
      <4> QED BY <1>0, <2>3, <3>1, <4>1 DEF SaveTracked
    <3>2. CASE s # a
      <4>1. SaveTracked(s) /\ s \in net /\ s # r /\ s.arg.question \in Questions
        BY <1>3, <2>3, <3>2, TrackedFacts DEF Tracked, PageTracked, OfResponse
      <4>2. stored'["response"][s.arg.question] = stored["response"][s.arg.question]
        BY <1>3, <2>3, <4>1 DEF Tracked, PageTracked
      <4> QED BY <4>1, <4>2 DEF SaveTracked
    <3> QED BY <3>1, <3>2
  <2>4. ASSUME NEW x \in Questions, ~page'.questions[x].loading PROVE QuestionTracked(x)'
    <3>1. QuestionTracked(x)
      BY <1>3, <2>4 DEF Tracked, PageTracked
    <3>2. stored'["response"][x] = stored["response"][x]
      BY <1>3, <2>4 DEF Tracked, PageTracked, SaveTracked
    <3>3. ASSUME NEW s \in net', Query(s), s.status = "ok"
          PROVE  s.reply.cells[x].value = stored'["response"][x].value
      <4>1. CASE s = a
        BY <1>0, <1>3, <3>2, <3>3, <4>1 DEF Query, Tracked, Placed
      <4>2. CASE s # a
        BY <3>1, <3>2, <3>3, <4>2 DEF QuestionTracked
      <4> QED BY <4>1, <4>2
    <3>4. (\A s \in net' : ~Query(s)) => \A s \in net : ~Query(s)
      BY <1>0
    <3> QED BY <3>1, <3>2, <3>3, <3>4 DEF QuestionTracked
  <2> QED BY <2>1, <2>2, <2>3, <2>4 DEF PageTracked
<1>4. ~(page.doc = "response" /\ "response" \notin strayed) => PageTracked'
  BY DEF PageTracked
<1> QED BY <1>1, <1>2, <1>3, <1>4 DEF Tracked

\* What a request does to the stored answers of the response.
LEMMA EffectStored ==
    ASSUME IInv, NEW r \in net, Effect(r)
    PROVE  /\ \A x \in Questions :
                 \/ stored'["response"][x] = stored["response"][x]
                 \/ OfResponse(r) /\ x = r.arg.question
           /\ ~OfResponse(r) => stored'["response"] = stored["response"]
           /\ OfResponse(r) => stored'["response"][r.arg.question].value = r.arg.value
<1>0. /\ r.doc \in Docs /\ (r.kind = "save" => r.arg.question \in Questions)
      /\ stored \in [Docs -> [Questions -> Cells]]
  BY TrackedFacts DEF IInv, StoreGood
<1>1. CASE r.kind = "save"
  <2>1. stored' = [stored EXCEPT ![r.doc][r.arg.question] =
                      [value |-> r.arg.value, notes |-> r.arg.notes]]
    BY <1>1 DEF Effect
  <2>2. CASE r.doc = "response"
    BY <1>0, <1>1, <2>1, <2>2 DEF OfResponse
  <2>3. CASE r.doc # "response"
    BY <1>0, <2>1, <2>3 DEF OfResponse
  <2> QED BY <2>2, <2>3
<1>2. CASE r.kind # "save"
  BY <1>2 DEF Effect, server, OfResponse
<1> QED BY <1>1, <1>2

LEMMA ServedTracked ==
    ASSUME IInv, Tracked, NEW r \in net, Serve(r) \/ Fail(r)
    PROVE  Tracked'
<1>0. /\ r \in [kind: Kinds, doc: Docs, arg: {r.arg}, live: BOOLEAN,
                status: {"sent", "ok", "failed"}, reply: {r.reply}, n: {r.n}]
  BY TrackedFacts DEF Request
<1>1. /\ r.status = "sent" /\ UNCHANGED <<cache, page, sidebar, strayed>>
  BY DEF Serve, Fail, client, history
<1>2. CASE Serve(r)
  <2> DEFINE reply == IF r.kind \in {"open", "filter", "scores"} THEN Snapshot(r.doc) ELSE None
             a == [r EXCEPT !.status = "ok", !.reply = reply]
  <2>1. net' = (net \ {r}) \cup {a} /\ Effect(r)
    BY <1>2 DEF Serve, Answer
  <2> HIDE DEF reply
  <2>2. /\ a.kind = r.kind /\ a.doc = r.doc /\ a.arg = r.arg /\ a.live = r.live
        /\ a.status = "ok" /\ a.reply = reply
    BY <1>0
  <2> HIDE DEF a
  <2>3. r.doc = "response" /\ r.kind \in {"open", "scores"} => reply.cells = stored["response"]
    BY DEF reply, Snapshot
  <2> QED BY <1>1, <2>1, <2>2, <2>3, EffectStored, AnsweredTracked
<1>3. CASE Fail(r)
  <2> DEFINE a == [r EXCEPT !.status = "failed", !.reply = None]
  <2>1. net' = (net \ {r}) \cup {a} /\ (Effect(r) \/ UNCHANGED server)
    BY <1>3 DEF Fail, Answer
  <2>2. /\ a.kind = r.kind /\ a.doc = r.doc /\ a.arg = r.arg /\ a.live = r.live
        /\ a.status = "failed"
    BY <1>0
  <2> HIDE DEF a
  <2>3. CASE Effect(r)
    BY <1>1, <2>1, <2>2, <2>3, EffectStored, AnsweredTracked
  <2>4. CASE UNCHANGED server
    <3>1. stored' = stored
      BY <2>4 DEF server
    <3> QED BY <1>1, <2>1, <2>2, <3>1, AnsweredTracked
  <2> QED BY <2>1, <2>3, <2>4
<1> QED BY <1>2, <1>3

LEMMA UserTracked == ASSUME IInv, Tracked, User PROVE Tracked'
<1>0. /\ page \in PageType /\ page.questions \in [Questions -> Shown] /\ None # "response"
      /\ page.doc \in Docs \cup {None} /\ None \in Filters /\ exists \subseteq Docs
      /\ \A s \in net : Request(s)
  BY TrackedFacts DEF IInv, StoreGood
<1>1. ASSUME NEW d \in Docs, Visit(d) PROVE Tracked'
  BY <1>1, GoTracked DEF Visit, server
<1>2. ASSUME NEW d \in Docs, Create(d) PROVE Tracked'
  <2> DEFINE s == Sent("create", d, [step |-> 1], TRUE, Number(Orphaned(net, OfPage)))
  <2>1. net' = Orphaned(net, OfPage) \cup {s} /\ s.kind = "create"
    BY <1>2 DEF Create, Send, Sent, Number
  <2> HIDE DEF s
  <2>2. page'.doc # "response" /\ cache' = cache
    BY <1>0, <1>2, ElsewhereGood DEF Create
  <2>3. \A t \in Orphaned(net, OfPage) : ~Opening(t) /\ ~Query(t)
    BY <1>0, OrphanedMembers DEF OfPage, Opening, Query
  <2> QED BY <2>1, <2>2, <2>3, AwayTracked DEF Opening, Query
<1>o. \A t \in Orphaned(net, {"save"}) :
         /\ Opening(t) \/ Query(t) => t \in net
         /\ OfResponse(t) => \E u \in net : OfResponse(u)
  BY <1>0, OrphanedMembers DEF Opening, Query, OfResponse
<1>3. ASSUME NEW f \in Filters, UpdateTeamRole(f) PROVE Tracked'
  <2>1. /\ page.doc = "consensus" /\ UNCHANGED <<stored, cache, sidebar, strayed>>
    BY <1>3 DEF UpdateTeamRole, server, history
  <2>2. CASE cache[page.doc][f] # None
    <3>1. Replace(cache[page.doc][f], net)
      BY <1>3, <2>2 DEF UpdateTeamRole
    <3>2. page'.doc = page.doc /\ (net' = net \/ net' = Orphaned(net, {"save"}))
      BY <1>0, <3>1 DEF Replace, PageType
    <3> QED BY <1>o, <2>1, <3>2, StayTracked
  <2>3. CASE cache[page.doc][f] = None
    <3> DEFINE s == Sent("filter", page.doc, [role |-> f], TRUE, Number(net))
    <3>1. page' = page /\ net' = net \cup {s} /\ s.kind = "filter"
      BY <1>3, <2>3 DEF UpdateTeamRole, Send, Sent, Number
    <3> HIDE DEF s
    <3>2. ~Opening(s) /\ ~Query(s) /\ ~OfResponse(s)
      BY <3>1 DEF Opening, Query, OfResponse
    <3> QED BY <2>1, <3>1, <3>2, StayTracked
  <2> QED BY <2>2, <2>3
<1>4. ASSUME NEW mode \in {"category", "variance"}, ChangeViewMode(mode) PROVE Tracked'
  <2>1. /\ page.doc = "consensus" /\ UNCHANGED <<stored, cache, sidebar, strayed>>
        /\ page'.doc = page.doc /\ (net' = net \/ net' = Orphaned(net, {"save"}))
    BY <1>0, <1>4 DEF ChangeViewMode, server, history, PageType
  <2> QED BY <1>o, <2>1, StayTracked
<1>5. ASSUME NEW q \in Questions, WriteEvidence(q) PROVE Tracked'
  <2>1. /\ page.doc = "consensus" /\ UNCHANGED <<stored, cache, sidebar, strayed, net>>
        /\ page'.doc = page.doc
    BY <1>0, <1>5 DEF WriteEvidence, server, history, PageType
  <2> QED BY <2>1, StayTracked
<1>6. ASSUME NEW q \in Questions, SkipQuestion(q) PROVE Tracked'
  <2>1. /\ page.doc \in Docs /\ Post(page.doc, q, None, page.questions[q].notes, TRUE)
        /\ UNCHANGED <<sidebar, cache, stored>>
        /\ page' = [page EXCEPT !.questions[q].loading = TRUE]
    BY <1>0, <1>6 DEF SkipQuestion, server
  <2>2. /\ page'.doc = page.doc /\ page'.questions[q].loading
        /\ \A x \in Questions : x # q => page'.questions[x] = page.questions[x]
    BY <1>0, <2>1, SpinType
  <2> QED BY <2>1, <2>2, PostTracked
<1>7. ASSUME NEW q \in Questions, NEW a \in Answers, AssignAnswer(q, a) PROVE Tracked'
  <2>1. /\ page.doc \in Docs /\ Post(page.doc, q, a, page.questions[q].notes, TRUE)
        /\ UNCHANGED <<sidebar, cache, stored>>
    BY <1>0, <1>7, ConstantsOK DEF AssignAnswer, server, ConstantsOK, AllDocs
  <2>2. /\ page'.doc = page.doc /\ page'.questions[q].loading
        /\ \A x \in Questions : x # q => page'.questions[x] = page.questions[x]
    BY <1>0, <1>7, AssignedPage
  <2> QED BY <2>1, <2>2, PostTracked
<1>8. ASSUME NEW q \in Questions, NEW a \in Answers, SaveScore(q, a) PROVE Tracked'
  <2>1. /\ page.doc \in Docs /\ page.doc # "response"
        /\ Post(page.doc, q, a, page.questions[q].notes, TRUE)
        /\ UNCHANGED <<sidebar, cache, stored>> /\ a \in Values
        /\ page' = [page EXCEPT !.questions[q].value = a]
    BY <1>0, <1>8, ConstantsOK DEF SaveScore, server, ConstantsOK, AllDocs, Values
  <2>2. /\ page'.doc = page.doc
        /\ \A x \in Questions : x # q => page'.questions[x] = page.questions[x]
    BY <1>0, <2>1, WriteType
  <2> QED BY <2>1, <2>2, PostTracked
<1>9. ASSUME NEW m \in retry, RetrySave(m) PROVE Tracked'
  <2> DEFINE q == m.arg.question
             notes == IF m.live THEN page.questions[q].notes ELSE m.arg.notes
  <2>1. /\ m.doc \in Docs /\ m.live \in BOOLEAN /\ q \in Questions
        /\ (m.live => m.doc = page.doc)
    BY DEF IInv, RetriesGood, RetryGood, ArgGood
  <2>2. /\ page' = IF m.live THEN [page EXCEPT !.questions[q].loading = TRUE] ELSE page
        /\ Post(m.doc, q, m.arg.value, notes, m.live)
        /\ UNCHANGED <<sidebar, cache, stored>>
    BY <1>9 DEF RetrySave, server
  <2> HIDE DEF q, notes
  <2>3. CASE m.live
    <3>1. page' = [page EXCEPT !.questions[q].loading = TRUE]
      BY <2>2, <2>3
    <3>2. /\ page'.doc = page.doc /\ page'.questions[q].loading
          /\ \A x \in Questions : x # q => page'.questions[x] = page.questions[x]
      BY <1>0, <2>1, <3>1, SpinType
    <3> QED BY <2>1, <2>2, <2>3, <3>2, PostTracked
  <2>4. CASE ~m.live
    BY <2>1, <2>2, <2>4, PostTracked
  <2> QED BY <2>1, <2>3, <2>4
<1>10. ASSUME NEW m \in retry, CancelRetry(m) PROVE Tracked'
  BY <1>10, StayTracked DEF CancelRetry, server, history
<1>11. CASE SubmitResponse
  <2> DEFINE s == Sent("submit", page.doc, None, TRUE, Number(net))
  <2>1. /\ UNCHANGED <<stored, cache, page, sidebar, strayed>>
        /\ net' = net \cup {s} /\ s.kind = "submit"
    BY <1>11 DEF SubmitResponse, server, client, history, Send, Sent, Number
  <2> HIDE DEF s
  <2>2. ~Opening(s) /\ ~Query(s) /\ ~OfResponse(s)
    BY <2>1 DEF Opening, Query, OfResponse
  <2> QED BY <2>1, <2>2, StayTracked
<1> QED
  BY <1>1, <1>2, <1>3, <1>4, <1>5, <1>6, <1>7, <1>8, <1>9, <1>10, <1>11 DEF User

LEMMA NetTracked ==
    ASSUME IInv, Tracked, NEW r \in net, Callback(r) \/ Serve(r) \/ Fail(r)
    PROVE  Tracked'
<1>0. /\ page \in PageType /\ None # "response" /\ r.doc \in Docs /\ r.live \in BOOLEAN
      /\ \A s \in net : Request(s)
  BY TrackedFacts
\* A request is answered, and the page and its documents stay as they are.
<1>q. ASSUME ~Query(r), net' = net \ {r}, UNCHANGED <<stored, cache, page, sidebar, strayed>>
      PROVE  Tracked'
  BY <1>q, StayTracked
<1>1. CASE Opened(r)
  BY <1>1, OpenedTracked
<1>2. CASE Filtered(r)
  <2>1. /\ r.kind = "filter" /\ r.doc = "consensus" /\ (r.live => page.doc = "consensus")
        /\ UNCHANGED <<stored, sidebar, strayed>> /\ ~Query(r)
    BY <1>2, TrackedFacts DEF Filtered, Answered, server, history, Query
  <2>2. "response" \in Docs => cache'["response"][None] = cache["response"][None]
    BY <1>0, <1>2, <2>1 DEF Filtered, Remember, IInv, CacheGood
  <2>3. CASE r.live
    <3>1. Replace(r.reply, net \ {r})
      BY <1>2, <2>3 DEF Filtered
    <3>2. page'.doc = page.doc /\ (net' = net \ {r} \/ net' = Orphaned(net \ {r}, {"save"}))
      BY <1>0, <3>1 DEF Replace, PageType
    <3>3. \A t \in Orphaned(net \ {r}, {"save"}) :
             /\ Opening(t) \/ Query(t) => t \in net
             /\ OfResponse(t) => \E u \in net : OfResponse(u)
      BY <1>0, OrphanedMembers DEF Opening, Query, OfResponse
    <3> QED BY <2>1, <2>2, <2>3, <3>2, <3>3, StayTracked
  <2>4. CASE ~r.live
    BY <1>2, <2>1, <2>2, <2>4, StayTracked DEF Filtered
  <2> QED BY <1>0, <2>3, <2>4
<1>3. CASE Saved(r)
  BY <1>3, SavedTracked
<1>4. CASE SaveFailed(r)
  BY <1>4, <1>q DEF SaveFailed, Refused, server, history, Query
<1>5. CASE Scored(r)
  BY <1>5, ScoredTracked
<1>6. ASSUME Leave(net \ {r}), cache' = cache PROVE Tracked'
  <2>1. page'.doc # "response"
    BY <1>0, <1>6, ElsewhereGood DEF Leave
  <2>2. \A t \in Orphaned(net \ {r}, OfPage) : ~Opening(t) /\ ~Query(t)
    BY <1>0, OrphanedMembers DEF OfPage, Opening, Query
  <2> QED BY <1>6, <2>1, <2>2, AwayTracked DEF Leave
<1>7. CASE Submitted(r)
  BY <1>6, <1>7 DEF Submitted
<1>8. CASE Created(r)
  <2>1. r.kind = "create" /\ UNCHANGED <<stored, cache>> /\ ~Query(r)
    BY <1>8 DEF Created, Answered, server, Query
  <2>2. CASE r.arg.step < Steps(r.doc)
    <3> DEFINE s == Sent("create", r.doc, [step |-> r.arg.step + 1], r.live, Number(net \ {r}))
    <3>1. /\ net' = (net \ {r}) \cup {s} /\ s.kind = "create"
          /\ UNCHANGED <<page, sidebar, strayed>>
      BY <1>8, <2>2 DEF Created, history, Send, Sent, Number
    <3> HIDE DEF s
    <3>2. ~Opening(s) /\ ~Query(s) /\ ~OfResponse(s)
      BY <3>1 DEF Opening, Query, OfResponse
    <3> QED BY <2>1, <3>1, <3>2, StayTracked
  <2>3. CASE ~(r.arg.step < Steps(r.doc))
    <3>1. Go(r.doc, net \ {r})
      BY <1>8, <2>3 DEF Created
    <3> QED BY <1>0, <2>1, <3>1, GoTracked
  <2> QED BY <2>2, <2>3
<1>9. CASE CreateFailed(r)
  <2>1. r.kind = "create" /\ ~Query(r)
    BY <1>9 DEF CreateFailed, Refused, Query
  <2> QED BY <1>6, <1>9, <1>q, <2>1 DEF CreateFailed, server, history
<1>10. CASE GiveUp(r)
  BY <1>10, <1>q DEF GiveUp, Refused, server, client, history, Query
<1>11. CASE Serve(r) \/ Fail(r)
  BY <1>11, ServedTracked
<1> QED
  BY <1>1, <1>2, <1>3, <1>4, <1>5, <1>7, <1>8, <1>9, <1>10, <1>11 DEF Callback

LEMMA NextTracked == IInv /\ Tracked /\ [Next]_vars => Tracked'
<1>1. IInv /\ Tracked /\ UNCHANGED vars => Tracked'
  <2> SUFFICES ASSUME IInv, Tracked, UNCHANGED vars PROVE Tracked'
    OBVIOUS
  <2>1. UNCHANGED <<stored, cache, page, sidebar, net, strayed>>
    BY DEF vars, server, client, history
  <2> QED BY <2>1, StayTracked
<1> QED BY <1>1, UserTracked, NetTracked DEF Next

LEMMA InitTracked == Init => Tracked
<1> SUFFICES ASSUME Init PROVE Tracked
  OBVIOUS
<1>1. page.doc # "response" /\ net = {}
  BY ElsewhereGood, ConstantsOK DEF Init, ConstantsOK, AllDocs
<1>2. "response" \in Docs => cache["response"][None] = None
  BY DEF Init, Filters
<1> QED BY <1>1, <1>2 DEF Tracked, Placed, OpensFresh, PageTracked

\* Once a response's saves and queries are answered, its page, its sidebar and
\* the database agree, unless its requests overlapped or a query failed.
THEOREM QuietIsStored == Spec => []QuietMeansStored
<1>1. Tracked => QuietMeansStored
  BY DEF Tracked, Placed, PageTracked, QuietMeansStored, QuestionTracked, Query
<1> QED BY <1>1, InitIInv, NextIInv, InitTracked, NextTracked, PTL DEF Spec
=============================================================================
