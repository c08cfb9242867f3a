----------------------------- MODULE AnswerPages -----------------------------
(***************************************************************************)
(* The browser pages on which answers are given: a participant's response, *)
(* the consensus of an assessment and the consensus of an analysis, each   *)
(* with the sidebar that lists the saved answers.                          *)
(*                                                                         *)
(* A page works on question objects loaded once; every click sends a       *)
(* request and goes on, and the answers come back in any order, also after *)
(* the page was left or its objects were replaced (such a request is no    *)
(* longer "live": what its callbacks write is on no screen, and the events *)
(* they emit reach nobody).  Two things outlive every page: the singleton  *)
(* ConsensusService, whose context decides where its calls go, and the     *)
(* $http cache, which answers every later load of a consensus with the     *)
(* first one.                                                              *)
(***************************************************************************)
EXTENDS Naturals, FiniteSets

CONSTANTS
    Questions,
    Answers,         \* values an answer may have
    Roles,           \* team roles the consensus can be filtered by
    Docs,            \* subset of {"response", "consensus", "analysis"}
    Existing,        \* those of Docs created before
    MaxRequests,     \* bound: requests under way at a time
    MaxActs,         \* bound: clicks that send something to the server
    MaxFaults,       \* bound: requests that fail
    None

AllDocs == {"response", "consensus", "analysis"}

ASSUME ConstantsOK ==
    /\ Docs \subseteq AllDocs /\ Existing \subseteq Docs
    /\ MaxRequests \in Nat /\ MaxActs \in Nat /\ MaxFaults \in Nat
    /\ None \notin Answers /\ None \notin Roles /\ None \notin AllDocs

VARIABLES
    exists,      \* documents with a row in responses
    stored,      \* document -> question -> its row of scores
    submitted,   \* documents whose submitted_at is set
    context,     \* ConsensusService.context
    cache,       \* document -> role -> the consensus $http cached for it
    page,        \* the page on screen
    sidebar,     \* question -> value, as the sidebar lists them
    net,         \* requests sent and not yet answered
    retry,       \* save_retry dialogs on screen
    acts, faults,
    held,        \* history: values the server has held
    strayed,     \* history: documents whose requests overlapped since opened
    astray       \* history: a create was answered after its page was left

server  == <<exists, stored, submitted, held>>
client  == <<context, cache, page, sidebar, retry>>
history == <<strayed, astray>>
vars    == <<server, client, net, acts, faults, history>>

Values  == Answers \cup {None}
Filters == Roles \cup {None}
Blank   == [value |-> None, notes |-> FALSE]
Cells   == [value: Values, notes: BOOLEAN]
Shown   == [value: Values, notes: BOOLEAN, loading: BOOLEAN]

Context(d) == IF d = "analysis" THEN "analysis" ELSE "assessment"

\* What a GET of a document answers.
Snapshot(d) == [cells |-> stored[d], completed |-> d \in submitted]

Display(snap) ==
    [q \in Questions |-> [value |-> snap.cells[q].value,
                          notes |-> snap.cells[q].notes, loading |-> FALSE]]

(* No document's page is open: an index, a report or the create page.      *)
Elsewhere == [doc |-> None, questions |-> Display([cells |-> [q \in Questions |-> Blank]]),
              mode |-> "category", fresh |-> None, submittable |-> FALSE]

NewPage(d, snap) ==
    [Elsewhere EXCEPT !.doc = d, !.questions = Display(snap),
                      !.submittable = d = "response" \/ ~snap.completed]

---------------------------------------------------------------------------
(* Requests.                                                               *)

\* The set with one more request; n tells equal ones apart.
Send(requests, kind, d, arg, live) ==
    requests \cup
      {[kind |-> kind, doc |-> d, arg |-> arg, live |-> live,
        status |-> "sent", reply |-> None,
        n |-> CHOOSE n \in 1..(Cardinality(requests) + 1) : \A r \in requests : r.n # n]}

\* Requests whose callbacks find their objects gone.
OfPage == {"open", "filter", "save", "scores", "create"}

Orphaned(requests, kinds) ==
    {IF r.kind \in kinds THEN [r EXCEPT !.live = FALSE] ELSE r : r \in requests}

Answered(kind) == {r \in net : r.kind = kind /\ r.status = "ok"}
Refused(kind)  == {r \in net : r.kind = kind /\ r.status = "failed"}

\* The user's hands: an open dialog covers the page.
Act == /\ retry = {} /\ acts < MaxActs /\ acts' = acts + 1
       /\ Cardinality(net) < MaxRequests

---------------------------------------------------------------------------
(* Opening a page.  Its route loads the document first (resolve) and the   *)
(* old page stays until that is answered; a consensus loaded before comes  *)
(* from the cache.  Each controller of the page sets the service's context *)
(* and the sidebar queries the scores.                                     *)

\* Mutant: the page relies on the context another page has set.
ShowUnset(d, snap, requests) ==
    /\ page' = NewPage(d, snap)
    /\ context' = IF context = None THEN Context(d) ELSE context
    /\ sidebar' = [q \in Questions |-> None]
    /\ net' = Send(Orphaned(requests, OfPage), "scores", d, None, TRUE)
    /\ retry' = {[m EXCEPT !.live = FALSE] : m \in retry}

Show(d, snap, requests) ==
    /\ page' = NewPage(d, snap)
    /\ context' = Context(d)
    /\ sidebar' = [q \in Questions |-> None]
    /\ net' = Send(Orphaned(requests, OfPage), "scores", d, None, TRUE)
    /\ retry' = {[m EXCEPT !.live = FALSE] : m \in retry}

\* $http caches the GETs of a consensus, for as long as the browser tab lives.
Remember(d, filter, snap) ==
    cache' = IF d = "response" THEN cache ELSE [cache EXCEPT ![d][filter] = snap]

\* A newer transition gives up an older one; to the page on screen there is none.
Go(d, requests) ==
    LET moving == Orphaned(requests, {"open"})
    IN  /\ IF page.doc # d /\ cache[d][None] # None
           THEN Show(d, cache[d][None], moving)
           ELSE /\ net' = IF page.doc = d THEN moving
                          ELSE Send(moving, "open", d, None, TRUE)
                /\ UNCHANGED <<page, sidebar, retry>>
        /\ strayed' = IF page.doc = d \/ \E r \in net : r.kind = "save" /\ r.doc = d
                      THEN strayed \cup {d} ELSE strayed \ {d}

Visit(d) ==
    /\ Act
    /\ d \in exists \ {page.doc}
    /\ Go(d, net)
    /\ cache[d][None] = None => UNCHANGED context
    /\ UNCHANGED <<server, cache, faults, astray>>

Opened(r) ==
    /\ r \in Answered("open")
    /\ Remember(r.doc, None, r.reply)
    /\ IF r.live THEN Show(r.doc, r.reply, net \ {r})
       ELSE net' = net \ {r} /\ UNCHANGED <<context, page, sidebar, retry>>
    /\ UNCHANGED <<server, acts, faults, history>>

---------------------------------------------------------------------------
(* The consensus of an assessment, filtered by role and sorted by category *)
(* or by variance.  A new load replaces the objects of the category view;  *)
(* the variance view keeps the objects it was sorted from.                 *)

Replace(snap, requests) ==
    IF page.mode = "category"
    THEN /\ page' = [page EXCEPT !.questions = Display(snap)]
         /\ net' = Orphaned(requests, {"save"})
    ELSE /\ page' = [page EXCEPT !.fresh = snap]
         /\ net' = requests

UpdateTeamRole(f) ==
    /\ Act
    /\ page.doc = "consensus"
    /\ LET known == cache[page.doc][f]
       IN  IF known # None THEN Replace(known, net)
           ELSE page' = page /\ net' = Send(net, "filter", page.doc, [role |-> f], TRUE)
    /\ UNCHANGED <<server, context, cache, sidebar, retry, faults, history>>

Filtered(r) ==
    /\ r \in Answered("filter")
    /\ Remember(r.doc, r.arg.role, r.reply)
    /\ IF r.live THEN Replace(r.reply, net \ {r})
       ELSE net' = net \ {r} /\ UNCHANGED page
    /\ UNCHANGED <<server, context, sidebar, retry, acts, faults, history>>

ChangeViewMode(mode) ==
    /\ retry = {}
    /\ page.doc = "consensus" /\ page.mode # mode
    /\ page' = [page EXCEPT !.mode = mode, !.fresh = None,
                   !.questions = IF page.fresh = None THEN @ ELSE Display(page.fresh)]
    /\ net' = IF page.fresh = None THEN net ELSE Orphaned(net, {"save"})
    /\ UNCHANGED <<server, context, cache, sidebar, retry, acts, faults, history>>

---------------------------------------------------------------------------
(* Answering.                                                              *)

\* Only a consensus asks for evidence: elsewhere the notes are left out.
WriteEvidence(q) ==
    /\ retry = {}
    /\ page.doc = "consensus"
    /\ page' = [page EXCEPT !.questions[q].notes = ~@]
    /\ UNCHANGED <<server, context, cache, sidebar, retry, net, acts, faults, history>>

\* ResponseHelper.assignAnswerToQuestion: post the score, do not wait.
Post(d, q, a, notes, live) ==
    /\ net' = Send(net, "save", d, [question |-> q, value |-> a, notes |-> notes], live)
    /\ strayed' = IF live /\ ~\E r \in net : r.kind = "save" /\ r.doc = d /\ r.arg.question = q
                  THEN strayed ELSE strayed \cup {d}

\* A member's answer is shown at once, a consensus answer when it is saved;
\* a consensus answer without evidence is refused.
AssignAnswer(q, a) ==
    /\ Act
    /\ page.doc \in {"response", "consensus"}
    /\ page.doc = "consensus" => page.questions[q].notes
    /\ page' = [page EXCEPT !.questions[q].loading = TRUE,
                   !.questions[q].value = IF page.doc = "response" THEN a ELSE @]
    /\ Post(page.doc, q, a, page.questions[q].notes, TRUE)
    /\ UNCHANGED <<server, context, cache, sidebar, retry, faults, astray>>

SkipQuestion(q) ==
    /\ Act
    /\ page.doc = "response"
    /\ page' = [page EXCEPT !.questions[q].loading = TRUE]
    /\ Post(page.doc, q, None, page.questions[q].notes, TRUE)
    /\ UNCHANGED <<server, context, cache, sidebar, retry, faults, astray>>

\* An analysis answer is chosen on the page, then saved by a button.
SaveScore(q, a) ==
    /\ Act
    /\ page.doc = "analysis"
    /\ page' = [page EXCEPT !.questions[q].value = a]
    /\ Post(page.doc, q, a, page.questions[q].notes, TRUE)
    /\ UNCHANGED <<server, context, cache, sidebar, retry, faults, astray>>

\* Mutant: nobody listens to response_updated.
UpdateScoresNever(requests) ==
    /\ net' = requests
    /\ UNCHANGED strayed

\* The event response_updated: the sidebar on screen queries the scores.
UpdateScores(requests) ==
    /\ net' = Send(requests, "scores", page.doc, None, TRUE)
    /\ strayed' = IF \E r \in requests : r.kind = "scores" /\ r.live
                  THEN strayed \cup {page.doc} ELSE strayed

Saved(r) ==
    /\ r \in Answered("save")
    /\ IF r.live
       THEN /\ UpdateScores(net \ {r})
            /\ page' = IF r.doc = "analysis" THEN page
                       ELSE [page EXCEPT !.questions[r.arg.question].value = r.arg.value,
                                         !.questions[r.arg.question].loading = FALSE]
       ELSE net' = net \ {r} /\ UNCHANGED <<page, strayed>>
    /\ UNCHANGED <<server, context, cache, sidebar, retry, acts, faults, astray>>

\* Mutant: the failure takes the spinner away.
SaveFailedQuietly(r) ==
    /\ r \in Refused("save")
    /\ net' = net \ {r}
    /\ page' = IF r.live THEN [page EXCEPT !.questions[r.arg.question].loading = FALSE] ELSE page
    /\ UNCHANGED <<server, context, cache, sidebar, retry, acts, faults, history>>

\* Saving again is offered in a dialog, but not on an analysis.
SaveFailed(r) ==
    /\ r \in Refused("save")
    /\ net' = net \ {r}
    /\ retry' = IF r.doc = "analysis" THEN retry
                ELSE retry \cup {[doc |-> r.doc, arg |-> r.arg, live |-> r.live]}
    /\ UNCHANGED <<server, context, cache, page, sidebar, acts, faults, history>>

CancelRetry(m) ==
    /\ m \in retry
    /\ retry' = retry \ {m}
    /\ UNCHANGED <<server, context, cache, page, sidebar, net, acts, faults, history>>

RetrySave(m) ==
    LET q == m.arg.question
        notes == IF m.live THEN page.questions[q].notes ELSE m.arg.notes
    IN  /\ m \in retry
        /\ acts < MaxActs /\ acts' = acts + 1
        /\ retry' = retry \ {m}
        /\ page' = IF m.live THEN [page EXCEPT !.questions[q].loading = TRUE] ELSE page
        /\ Post(m.doc, q, m.arg.value, notes, m.live)
        /\ UNCHANGED <<server, context, cache, sidebar, faults, astray>>

\* The sidebar takes the answer of any of its queries.
Scored(r) ==
    /\ r \in Answered("scores") \cup Refused("scores")
    /\ net' = net \ {r}
    /\ sidebar' = IF r.live /\ r.status = "ok"
                  THEN [q \in Questions |-> r.reply.cells[q].value] ELSE sidebar
    /\ strayed' = IF r.status = "failed" THEN strayed \cup {r.doc} ELSE strayed
    /\ UNCHANGED <<server, context, cache, page, retry, acts, faults, astray>>

---------------------------------------------------------------------------
(* Submitting, and creating a document before its page can be opened.      *)

Leave(requests) ==
    /\ page' = Elsewhere
    /\ sidebar' = [q \in Questions |-> None]
    /\ net' = Orphaned(requests, OfPage)
    /\ retry' = {[m EXCEPT !.live = FALSE] : m \in retry}

SubmitResponse ==
    /\ Act
    /\ page.submittable
    /\ net' = Send(net, "submit", page.doc, None, TRUE)
    /\ UNCHANGED <<server, client, faults, history>>

\* Wherever the user is by now, the answer takes him to a report or an index.
Submitted(r) ==
    /\ r \in Answered("submit")
    /\ Leave(net \ {r})
    /\ UNCHANGED <<server, context, cache, acts, faults, history>>

\* The create routes: a response reads its assessment first, an analysis
\* gets its response with empty scores before its consensus.
Steps(d) == IF d = "consensus" THEN 1 ELSE 2

Create(d) ==
    /\ Act
    /\ page' = Elsewhere
    /\ sidebar' = [q \in Questions |-> None]
    /\ context' = IF d = "response" THEN context ELSE Context(d)
    /\ net' = Send(Orphaned(net, OfPage), "create", d, [step |-> 1], TRUE)
    /\ UNCHANGED <<server, cache, retry, faults, history>>

Created(r) ==
    /\ r \in Answered("create")
    /\ IF r.arg.step < Steps(r.doc)
       THEN /\ net' = Send(net \ {r}, "create", r.doc, [step |-> r.arg.step + 1], r.live)
            /\ UNCHANGED <<context, page, sidebar, retry, history>>
       ELSE /\ Go(r.doc, net \ {r})
            /\ context' = IF r.doc = "response" THEN context ELSE Context(r.doc)
            /\ astray' = (astray \/ ~r.live)
    /\ UNCHANGED <<server, cache, acts, faults>>

\* A response that cannot be created sends its user to the assessments.
CreateFailed(r) ==
    /\ r \in Refused("create")
    /\ IF r.doc = "response" /\ r.arg.step = 2
       THEN Leave(net \ {r})
       ELSE net' = net \ {r} /\ UNCHANGED <<page, sidebar, retry>>
    /\ UNCHANGED <<server, context, cache, acts, faults, history>>

\* A load or a submission that fails has no handler.
GiveUp(r) ==
    /\ r \in Refused("open") \cup Refused("filter") \cup Refused("submit")
    /\ net' = net \ {r}
    /\ UNCHANGED <<server, client, acts, faults, history>>

---------------------------------------------------------------------------
(* The server.  It saves scores of a submitted document like any others.   *)

Effect(r) ==
    CASE r.kind = "save" ->
           /\ stored' = [stored EXCEPT ![r.doc][r.arg.question] =
                           [value |-> r.arg.value, notes |-> r.arg.notes]]
           /\ held' = [held EXCEPT ![r.doc][r.arg.question] = @ \cup {r.arg.value}]
           /\ UNCHANGED <<exists, submitted>>
      [] r.kind = "submit" ->
           /\ submitted' = submitted \cup {r.doc}
           /\ UNCHANGED <<exists, stored, held>>
      [] r.kind = "create" ->
           /\ exists' = IF r.doc = "response" /\ r.arg.step = 1 THEN exists ELSE exists \cup {r.doc}
           /\ UNCHANGED <<stored, submitted, held>>
      [] OTHER -> UNCHANGED server

Answer(r, status, reply) ==
    net' = (net \ {r}) \cup {[r EXCEPT !.status = status, !.reply = reply]}

Serve(r) ==
    /\ r.status = "sent"
    /\ Effect(r)
    /\ Answer(r, "ok", IF r.kind \in {"open", "filter", "scores"} THEN Snapshot(r.doc) ELSE None)
    /\ UNCHANGED <<client, acts, faults, history>>

\* The request never arrives, or its answer is lost.
Fail(r) ==
    /\ r.status = "sent"
    /\ faults < MaxFaults /\ faults' = faults + 1
    /\ Effect(r) \/ UNCHANGED server
    /\ Answer(r, "failed", None)
    /\ UNCHANGED <<client, acts, history>>

---------------------------------------------------------------------------

Init ==
    /\ exists = Existing
    /\ stored = [d \in Docs |-> [q \in Questions |-> Blank]]
    /\ submitted = {}
    /\ held = [d \in Docs |-> [q \in Questions |-> {None}]]
    /\ context = None
    /\ cache = [d \in Docs |-> [f \in Filters |-> None]]
    /\ page = Elsewhere
    /\ sidebar = [q \in Questions |-> None]
    /\ net = {} /\ retry = {}
    /\ acts = 0 /\ faults = 0
    /\ strayed = {} /\ astray = FALSE

User ==
    \/ \E d \in Docs : Visit(d) \/ Create(d)
    \/ \E f \in Filters : UpdateTeamRole(f)
    \/ \E mode \in {"category", "variance"} : ChangeViewMode(mode)
    \/ \E q \in Questions : WriteEvidence(q) \/ SkipQuestion(q)
    \/ \E q \in Questions, a \in Answers : AssignAnswer(q, a) \/ SaveScore(q, a)
    \/ \E m \in retry : RetrySave(m) \/ CancelRetry(m)
    \/ SubmitResponse

Callback(r) ==
    \/ Opened(r) \/ Filtered(r) \/ Saved(r) \/ SaveFailed(r) \/ Scored(r)
    \/ Submitted(r) \/ Created(r) \/ CreateFailed(r) \/ GiveUp(r)

Next == User \/ \E r \in net : Callback(r) \/ Serve(r) \/ Fail(r)

Spec == Init /\ [][Next]_vars

---------------------------------------------------------------------------
(* Properties.                                                             *)

\* Every variable has its type.
TypeOK ==
    /\ exists \subseteq Docs /\ submitted \subseteq exists
    /\ stored \in [Docs -> [Questions -> Cells]]
    /\ held \in [Docs -> [Questions -> SUBSET Values]]
    /\ context \in {None, "assessment", "analysis"}
    /\ page.doc \in Docs \cup {None}
    /\ page.questions \in [Questions -> Shown]
    /\ sidebar \in [Questions -> Values]
    /\ \A r \in net : r.doc \in Docs /\ r.live \in BOOLEAN
    /\ strayed \subseteq Docs /\ astray \in BOOLEAN

\* An answer shown without its spinner is one the server has held: whatever
\* was clicked meanwhile, refused, retried or answered out of order, a page
\* never shows an answer as saved that was never saved.
ShownWasHeld ==
    page.doc \in {"response", "consensus"} =>
        \A q \in Questions :
            page.questions[q].loading \/ page.questions[q].value \in held[page.doc][q]

\* Once a response's saves and queries are answered, its page, its sidebar and
\* the database agree, unless two of its requests were under way at once or a
\* query failed: then the answers may have been applied in the wrong order.
QuietMeansStored ==
    (/\ page.doc = "response" /\ "response" \notin strayed
     /\ ~\E r \in net : r.doc = "response" /\ r.kind \in {"save", "scores"}
     /\ \A q \in Questions : ~page.questions[q].loading)
    => \A q \in Questions :
          /\ page.questions[q].value = stored["response"][q].value
          /\ sidebar[q] = stored["response"][q].value

\* The shared service works for the page on screen: only a create that is
\* answered after its user went elsewhere turns its context under that page.
ContextFollowsPage ==
    page.doc # None /\ ~astray => context = Context(page.doc)
=============================================================================
