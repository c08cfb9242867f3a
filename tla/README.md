# A verification development of pdredesign-server

pdredesign-server lets school districts assess themselves. A *tool* is an
assessment, an inventory, or an analysis made from an inventory; people take
part in it as facilitators and participants, are invited by mail, answer
questions, and agree on a consensus. The server is a Rails 4.2 application
served by Puma (two processes of up to two threads, `config/puma.rb`), with
Sidekiq workers (two threads, `Procfile`) that send the mail, and an Angular
client.

## Inventory

| Component | State | Operations | Hard behaviour | What makes it correct |
|---|---|---|---|---|
| Tool membership (`tool_members_controller.rb`, `tool_member.rb`) | `tool_members`, `access_requests` | create, destroy, request, grant, deny | a grant is two calls of the browser; handlers overlap; callbacks of the tool write the same table | no tool without members, facilitators come from facilitators, promotions are announced |
| Inventories and analyses (`inventory.rb`, `analysis.rb`) | owner, deadline, members | create, update | `after_save` callbacks write the members of two tools | the owner and the members of an analysis are members of the inventory |
| Invitations (`*_invitations_controller.rb`, `member_from_invite.rb`) | invitation rows | create, redeem | several steps that each may find a row | who is invited gets the role, if it is one |
| Notification workers (`app/workers`) | `invited_at`, `reminded_at`, `messages`, the queue | assign, invite and remind jobs | two threads, exceptions half-way, retries from the start, participants that come and go | the mark follows the mail, everybody is mailed in the end, few duplicates |
| Assessment permissions (`lib/assessments/permission.rb`) | three join tables, `participants`, `access_requests`, `user_invitations` | request, grant, deny, update, invite, join, leave | no transaction: partial grants, overlapping updates, unique indexes where there are any | an update replaces the level, a request ends with all it asked for, who is told of a level has it |
| Responses, scores, consensus | `responses`, `scores`, `meeting_date` | create, score, submit | creation from two browsers, side effects of `before_save` | what was answered is stored, and what is shown was stored |
| Links and index (`lib/link`, `index.json.jbuilder`) | a cache of cards, keyed by `updated_at` | render, touch | a change that touches nothing is never seen | a cached card is the present one, its links open |
| Product and data entries | `product_entries`, `data_entries`, `deleted_at` | create, update, delete, restore | authorization twice, soft deletion | only a restoration touches a deleted entry |
| Accounts and sessions (`sessions_controller.rb`, `user_controller.rb`) | the cookie, passwords, reset tokens | sign in and out, register, reset, redeem | a new password ends the session, a redemption signs in first | see the browser's session |
| Status, reports, priorities, learning questions, tools, messages, organizations, districts | single rows | create, read, update, delete | zero participants or questions | |
| Browser: answer and consensus pages | question objects, `ConsensusService`, the `$http` cache | answer, skip, retry, submit, filter | answers of requests late, out of order, for a page that is gone | nothing is shown as saved that never was |
| Browser: setting tools up | one `CreateService` for all assign pages | create, edit, assign, move a deadline | a late answer speaks to another page | a tool is assigned only when confirmed, its district is one its page offered |
| Browser: members and permissions | lists loaded once, two services | add, invite, remove, save all, grant | parallel writes from a stale list, another facilitator | the list follows, nobody else changes |
| Browser: entry tables | the table's objects, edited in place | edit, tick, save, delete, restore | cancelled edits, overlapping loads | the table shows the rows, a save saves its own edits |
| Browser: session and routes | the user in memory and in `localStorage` | every form, every route | late syncs, 401s, other tabs, overtaken transitions | tab and server agree on who is signed in |
| Browser: index pages | cards, dialogs | follow a link, ask for access | a card older than the tool | see the links |
| Browser: reports, priorities and the rest | none between requests | show, post one form | none | |

The components meet in the database (controllers, callbacks and workers write
the same rows), in the Sidekiq queue (controllers enqueue, workers read the
database *later*), and over HTTP: a page sends requests and goes on, and their
answers come in any order, to whatever page is on the screen by then.

## Modules

### The server

`ToolMembership` is the core. `roles[t][u]` is the row of `tool_members` of user
`u` in tool `t`, `{}` for none; `owner`, `expired`, `requests` and `invitations`
are the other tables; `candidate` is what a browser holds between the two calls
of a grant; `reply` records the last request: who made it, its status, the jobs
it enqueued, and the tools whose save ran to its end. Each controller action is
one action: `CreateMember` is `ToolMembersController#create` with the save of
the tool and its callbacks (`AfterSave`: the owner first, then the members of
the inventory, in the order the models declare them). The two invitation
controllers, `find_or_create_by` and `set_permission` included, are `Invite`. An
invitation whose role is a word of no meaning is stored like any other and makes
no member, except of a network partner, who becomes a facilitator all the same.

`MembershipRace` is the same `#create`, `#destroy` and `#update` for one
inventory, cut at every SELECT and commit, run by several threads on rows with
ids. As long as no two handlers have overlapped (`overlapped`) it implements
`ToolMembership` (`ImplementsAtomic`, by a refinement mapping that shows a request
at its last commit): that is the justification for the atomic actions of the
core. What handlers that do overlap leave behind is `RowsBounded`.

`InvitationDelivery` is the abstract promise of the notification workers: a
user is delivered a mail, then marked (`invited_at`), and the mark goes with the
participant. `ToolNotifications` has the queue, the threads and the jobs: `Start` loads the
participants, `Mail` delivers, `Mark` writes `invited_at` (or `reminded_at`,
which nobody reads and which is left out), `Raise` is an exception of the mail
server or the database, after which Sidekiq repeats the whole job. `WebStep` is
what the controllers do meanwhile. The constant `Assessment` tells the two kinds
of participants apart: `Participant` removes the invitation of the user it
removes, `ToolMember` does not. It implements `InvitationDelivery`
(`ImplementsDelivery`).

`AssessmentPermissions` is who may do what in one assessment: `rows[l][u]` counts
the rows of user `u` in the join table of level `l` (they have no unique index),
`participants`, `invitations`, `accounts` and `requests` are the other tables.
Neither `Assessments::Permission` nor any controller that calls it opens a
transaction, so a thread serves a request statement by statement:
`thread[th].stage` is the statement to come, `AfterUpdate`, `AfterAnswer` and
`AfterInvite` say what follows what in each handler, and `Break` ends a request
anywhere with what it has committed so far. `NextPermission`, `Revoke`,
`AddLevel` and `Notify` are `#update`, `FindRequest`, `GrantRole` and `Resolve` are
`#accept`, `#deny` and the link of a mail (`AccessController`), `Store` and `Tell` a
request for access, `ValidateInvitation` to `QueueInvitation` an invitation with
`InsertFromInvite`, `Enroll` and `Leave` the participants.

`ToolIndex` is the card of one tool on an index page, for one user. `tool` and
`user` are what the database says of the two, `Facilitator`, `Participant`,
`Partner` and their kin are the classes of `lib/link`, one operator each, and
`Card` is what `index.json.jbuilder` renders. `cache` is the card stored under
the present `updated_at`: an action that touches the assessment
(`flush_cached_version`) empties it, one that only writes rows of access does
not (`Unflushed`). `Visit`, `Click`, `gotoLocation` and the dialogs are the
controllers of the index pages.

### The browser

The other five modules are one browser tab each, with `net`, the set of its
requests that were sent and not yet answered. `Serve` is the server, at any time
later; `Fail` a request that is lost on its way, or one whose
answer is lost after the server stored what it asked for; one more action per
callback takes an answer. A page that is left, or whose objects are replaced, leaves its
requests behind with nobody to hear them (`live`, `heard`). The variables under
*history* have no counterpart in the code: they are what the properties need to
name an exception, and no guard of an action reads them.

* `AnswerPages`: a response, the consensus of an assessment and that of an
  analysis. `page.questions` are the objects a page was opened with,
  `sidebar` the list beside them, `context` the state of the singleton
  `ConsensusService`, `cache` the cache of `$http`, which answers a second GET
  of a consensus for ever. `AssignAnswer`, `SkipQuestion` and `SaveScore` post a score, `Saved`
  and `SaveFailed` are the callbacks of `ResponseHelper`, `retry` its dialogs.
* `ToolSetup`: creating a tool, its assign page, the dialog that moves a
  deadline. `service` is the district `CreateService` keeps for all pages; its
  scope is that of the page last opened, which is why `Saved` reports to the
  page on screen. Each click creates a tool of its own. An analysis has no
  district of its own but that of its inventory (`DistrictOf`). Every save of an
  assign page, of whichever of its forms, writes the deadline and, but for an
  analysis, the district along with it; a tool in none of the user's districts
  is shown, and then saved, in the first of them (`extractCurrentDistrict`). The
  dialog that moves a deadline posts back the whole tool, with the district the
  dashboard was loaded with. A fault loses a request, or its answer.
* `MemberDialogs`: the list of participants of a tool and the dialogs over it,
  those of assessments (`permissions/`, one request for all levels) and those of
  the other tools (`tool_members/`, one request for every member of the list).
  `OtherFacilitator` and `AskAccess` are other people. `NewRoles` is what each
  request makes of somebody's roles on the server; `Level` and `Invited` make a
  facilitator of a network partner, whatever was posted. `Fail` loses a request
  that changed nothing (`Unserved`), or the answer of one that was stored, as by
  a handler that raises when it comes to the mail (`Unanswered`). `Targets` is
  the tool the second call of a grant goes to: on the pages of an assessment it
  may be the assessment, another tool, or none.
* `InventoryEntries`: the table of products or of data, the dialog that edits
  the table's own object (`own`) until the table is loaded again, and the
  server, whose rows are live or deleted.
* `BrowserSession`: `session` is whose cookie it is for the server, `tab` what
  the tab believes, on which page it is and which state it is on the way to. The
  route files are operators that list their states, those with
  `authenticate: true`, and those that load something first. Identity-changing
  forms and their answers are the actions; `OtherTab` and `Expire` change the
  session behind the tab's back.

`MC*` modules give TLC its constants, symmetries and views. Operators commented
*Variant* or *Mutant* are mutated forms of a definition, with a bug somebody might
write; each checked property is known to fail for at least one.

## Runs

| Run | Question | Bounds |
|---|---|---|
| `membership_members` | creates, updates, role changes, removals, invitations | 2 users, both invitable and one a network partner, an inventory, an analysis; every kind of role array the validator tells apart |
| `membership_requests` | access requests and two-call grants, among role changes and invitations: where do facilitators come from? | 2 users, an inventory, 1 request pending |
| `race_handlers` | how many rows do overlapping handlers give a user? do those that do not overlap add up to the atomic actions? | 2 users, 2 threads, 3 inserted rows, arrays of one role |
| `notifications_assessment` | overlap, failure, retry for an assessment; how often is somebody mailed or reminded? | 2 users, 2 threads, 3 jobs, 1 failure, 2 attempts |
| `notifications_members` | tool members: is everybody invited in the end? | 2 users, 2 threads, 2 jobs, 1 failure, 2 attempts, fairness |
| `answers_pages` | is an answer shown as saved one that was? do page, sidebar and rows agree at rest? does the shared service follow the page? | 1 question, 1 answer (or skipped), 1 role to filter by, all 3 documents, 2 requests under way, 4 clicks, 1 failure |
| `setup_tools` | do the shared service and its late answers touch the right tool and page? | 2 assessments, 1 inventory, 1 analysis; 3 districts, 2 of them the user's, and 2 dates; up to 2 of the tools made by others; 2 clicks, 1 lost request or answer |
| `member_dialogs` | do list and server agree after the user's own changes? whom does a save change? | 1 assessment, 1 other tool, 2 users, one a network partner, 2 clicks, 1 change by others, 1 lost request or answer |
| `entries_table` | what does an entry's dialog save, and does the table show it? what touches a deleted entry? | 2 entries, one of them to come, 2 values, 1 upset (another member, a lost request, or haste) |
| `session_tab` | who is signed in, for the tab and for the server? | 1 member, 1 newcomer, 10 routes of every kind, 1 upset (other tab, expiry, loss), acting once while requests are under way |
| `permissions_requests` | handlers that overlap or break: is anybody left without a level, or told of one not given? does a request for access end whole? | 3 users (the owner, a member, a newcomer who is a network partner), 2 threads, 3 requests, a break after any statement, updates of one and of two users |
| `index_cards` | are cached cards up to date, and do their links open? | none, but one request for access at a time |

Two users are enough for a facilitator who acts and another person acted on, in
either order; each property speaks of one step and at most two people, and the
proofs below carry most of them to any number. Two
threads are what races need: with two, a user does get two rows, and the bound of
`RowsBounded` is met; that it holds of any number of threads is proved. Three jobs and one
failure make one more run than `DuplicatesBounded` allows mails.

In the browser an interleaving needs two requests under way and a third action:
that is what the bounds on requests, on clicks and on haste leave. Two tools of one
kind are there where a late answer may reach the page of another (`setup_tools`);
one tool of either kind where it is the kinds that differ (`member_dialogs`).
One question is enough because the code treats questions alike and nothing
connects two of them but the load that replaces all; one answer besides
skipping tells a stored from an unstored, a new from an old value. The routes of
`session_tab` are one of each kind the code tells apart: open, guarded, loading,
guarded and loading, and those with forms of their own.

The views of the membership runs and of `race_handlers` leave out
`reply`, which no action reads. `CHECK_DEADLOCK FALSE` is there because
the systems really may stop: all requests of a bound are served, facilitators can give up their roles until nobody
may act, a queue with all bounds used up is empty, and a browser whose user has
no clicks left rests. The other runs check deadlock.

### What the exceptions of the properties say

Several properties hold with exceptions that the code forces, and name them, so
that the rest is checked:

* `QuietMeansStored`: two saves of one question, or two queries of the sidebar,
  may be answered in the other order (`strayed`); nothing numbers them.
* `ContextFollowsPage`: a consensus that is created, and answered after the user
  went to another document, leaves the service with the other context (`astray`).
* `ReportsOwnSaves`: two saves that overlap, or one that outlives its page
  (`mixed`), since a save only flips the spinner of the page on screen.
* `ListShowsOwnChanges`: nothing loads the list after the permissions of an
  inventory were saved or a request was granted, nor after a change that was
  stored and whose answer was lost, or said that something failed (`behind`).
* `GrantArrives`, `MembersWereChosen`: the second call of a grant takes its tool
  from the address bar of the moment (`moved`).
* `GrantArrives`: when the answer of the first call is lost there is no second,
  and the request is gone (`lost`).
* `OnlyTickedChange`: every save of the levels of an assessment makes
  facilitators of the network partners among its participants.
* `ListFollows`, `SavesOnlyEdits`: a dialog dismissed with the escape key leaves
  its edits in the table (`apart`).
* `SeenIsServed`: a redemption that is refused after its user was signed in, and
  requests that cross (`apart`).
* `NobodyStripped`: an update whose second statement failed, or named a level
  `add_level` does not know (`stripped`). The select of the dialog offers
  *participant*, and `add_level` answers `false` to it after the old level is gone.
* `CacheIsCurrent`: rows of access (levels, requests, removed participants) do
  not touch the assessment, and the card of before stays (`silent`).

### Fairness

Only `FairSpec` of `ToolNotifications` assumes any: weak fairness of the steps of
each Sidekiq thread, which is to say that the process runs. Users and
failures are under no obligation. `EveryParticipantInvited` further needs fewer
failures than a job has attempts (`MaxFaults < MaxAttempts` in its
configuration): Sidekiq buries a job after that, and nothing in the code picks
it up. A hard kill of the Sidekiq process, which loses the job it had
fetched, is not modelled. Nothing the browser waits for must arrive, so no
liveness is stated of it.

## Where the code and its own words differ

The models contain these behaviours, and no property claims the contrary:

* An owner whom `#create` made a participant can be removed by `#destroy`, whose
  check wants an owner who is a facilitator; and the only facilitator can demote
  themself, after which nobody can manage the tool.
* An access request refused because the user has the role already stays in the
  table, and the card says *Access Pending* from then on.
* A removed tool member keeps the invitation, which blocks the next one.
* Two overlapping requests can store two rows for one user, in spite of
  `idx_tool_members_unique`: the index has a column that is always NULL.
* A participant whose request for access asks for that role has a row already,
  which `grant_participant` does not find, because it looks for one invited at
  this moment: the unique index refuses another, and the request stays, with the
  roles before it granted once more at each attempt.
* A retried reminder goes to the first participants again
  (`reminder_notification_worker.rb:35` has a TODO for it).
* The dialog that submits a consensus says that scores cannot be edited
  afterwards; neither the pages nor the server keep anybody from it.
* Participants of an inventory may update its entries for
  `product_entry_authorizer.rb` and its spec, but `#update` also asks for the
  right to update the inventory, which they do not have.
* Deleted entries are meant to be restored: there are an ability and its adjective
  for it (`config/initializers/authority.rb:35` and `:51`), associations that are
  declared for "the restoring behaviour" (`product_entry.rb:16`), a route, an
  action, and a link *Move to main inventory* (`inventory_product_entries.html:27`).
  But `restorable_by?` passes a hash to `owner?`, which expects a user
  (`product_entry_authorizer.rb:19`, `data_entry_authorizer.rb:19`), and every
  request raises. `Restore` follows the code; `OnlyRestoringRevives` leaves
  restorations out and would hold as well if they worked.
* An invitation to an inventory or an analysis may name any role at all
  (`inventory_invitation.rb:24` asks for its presence only): it is stored, and
  its user is no member.
* An assign page that is saved moves a tool that is in none of the user's
  districts to the first of them, which its select then shows; nobody chose it.
* A grant whose answer is lost, or whose second call fails, destroys the request
  for access and makes nobody a member; there is nothing left to grant again.
* Every save of the levels of an assessment makes the network partners among its
  participants facilitators, ticked or not
  (`assessments_permissions_controller.rb:46`).
* On the assign page of an assessment the service that makes members is told to
  work on an assessment (`CreateParticipantsCtrl.js:26`); a grant for another
  tool that is still under way then writes a row of `tool_members` that no page of
  the assessment reads.
* A network partner who asks for access to an assessment posts a list in a list
  (`AccessService.js:20`), which is never accepted.

## Proofs

`ToolMembershipProofs` proves, for every set of users and analyses and every set
of role arrays:

* `TypeCorrect`: `Spec => []TypeOK`. Inductive by itself.
* `ToolsNeverOrphaned`: only `DestroyMember` empties a row. The facilitator who
  does it has a row in the tool and may not remove the own one, because it holds
  the facilitator role: so that row is left. Type correctness is the only
  strengthening needed; every other action is shown to keep rows non-empty.
* `CallbacksAlwaysSettle`: from lemmas about the callbacks as operators on the
  table: adding the owner gives the owner a row, the synchronisation then covers
  every member of the analysis and changes no row of it.
* `FacilitatorsHaveProvenance`: one lemma for each operator that writes roles,
  saying which facilitators it can add, and one case for each action.

`ToolNotificationsProofs` proves, for any users, threads, jobs and failures:

* `TypeCorrect`, with the count of attempts within its bound;
* `WorkersImplementDelivery`: `Spec => ImplementsDelivery`. The mapping needs the
  invariant `MailedBeforeMark` (a thread about to mark somebody has mailed
  them); with it each step maps to a step of `InvitationDelivery` or to a stutter;
* `AssessmentJobsStartOnParticipants`, from the invariant that the invitations
  of an assessment belong to participants;
* `DuplicatesStayBounded`. The number of mails alone is not inductive: a thread
  that has loaded the participants will still mail everybody on its list.
  `MailsCounted` bounds the mails of a user together with the threads that have
  the user still ahead, and, until somebody marks the user, by the failures and the
  threads between mail and mark, because an exception there makes one of the
  other; `RemindersCounted` counts the reminders in the queue as well, so that a
  retry, which puts its job back, is paid for by the failure that caused it.

`PagesProofs` holds the proofs about three modules, whose top-level names are
distinct for that reason (`IndexInit`, `SessionInit`, `SessionTypeOK`...). About `ToolIndex` it
proves `IndexTypeCorrect`, `CacheStaysCurrent` and `LinksAlwaysOpen`. `CacheIsCurrent` is inductive by itself: an action either
touches the assessment, and the cache is empty, or leaves what a card shows
alone, or sets `silent`. `LinksOpen` then needs no induction: the lemma
`CardOpens` shows it of every card that could be rendered, by the classes of
links, and a cached one is such a card.

Two more theorems of `ToolMembershipProofs` are action properties that need only
`TypeOK`: `PromotionsAlwaysAnnounced`, with a lemma for each operator that
writes a table (the callbacks leave rows that are there as they are and make
nobody but the owner a facilitator), and `InvitedAlwaysGetsRole`: `MemberFromInviteRow`
shows that `set_permission` makes up for the `create_member` that found a row, and
that an invitation which permits no role leaves the row as it was;
`AfterSaveOthers`, that the save of the analysis then adds a role to nobody but
the owner.

`MembershipRaceProofs` proves, for any threads and rows, `TypeCorrect` and
`RowsStayBounded`. A count of rows alone is not inductive: a thread that has
validated a row will insert it whatever others did meanwhile. `RowsAndInserts`
counts both: the rows of a user and the threads on the way to insert one for
that user are together no more than the threads. A thread joins them only when it found
no row, and then the other threads are all there are.

`HandlersImplementAtomic` is the other half, for any number of threads: as long as
no two handlers have overlapped, every step is one of `ToolMembership` or a
stutter. `OneAtATime` says that until then one thread at most is busy. `Solo` is
the invariant for that thread: a user has one row, and what the only request has loaded, found
missing, validated or been authorized by is still so until its own write. The
lemmas about `RolesIn` say what putting, changing or dropping a row does to the
members of the tool; the `Atomic...` lemmas state each action of
`ToolMembership` in terms of those members (`Held`). Every SELECT and the commit
of the row are then stutters (`Before` undoes the row until the answer), and the
step that answers is `CreateMember`, `DestroyMember` or `UpdateTool`. The one
assumption is that a client can post every set of legal roles (`EverySetPosted`).

About `ToolSetup`, `PagesProofs` proves the four properties its run checks, from an invariant in
five parts, one for each way a late answer could go wrong: `Lifecycle` (a tool is
created by one request, and all others are about tools that exist), `Offers`
(the shared service, the dashboard and every save or change of a deadline under way
hold a district that a page of their own tool was loaded with or had selected), `Confirms`, `Dated`, and `Reports` (as long as
nothing was mixed there is one save at most, and it is the page's own).

`AnswerPagesProofs` proves `ShownWasAlwaysHeld` and `ContextAlwaysFollowsPage`.
What the server has ever held (`held`) only grows, so each value on its way to
the page is shown to be in it: in a request that was answered, in the cache of
`$http`, in the query a page was opened with. Requests and retries that are
still heard belong to the document on screen (`Live`), which keeps a late
refusal from putting a value back on another page.

`QuietIsStored` needs the order of answers too. `Tracked` follows each question of
the response until it `strayed`: a save under way turns the spinner of its own
question and no other save does (`Placed`), a load of the page is overtaken by
no save (`OpensFresh`), and a question without a spinner shows the stored value,
which its place in the sidebar shows as well unless the one query under way will
bring it (`PageTracked`).

`MemberDialogsProofs` proves the five properties of `MemberDialogs`. Three parts of
the invariant stand beside the types. `Promises`: a grant that was served and not
yet followed by its second call is still heard on the page it was given on, or
the second call is under way, unless its answer was `lost`. `Chosen`: every list and every request, wherever
it is, names only people who were chosen for its tool, because a whole list is
posted back by the permissions of other tools. `Followed`: as long as the page
could know (`~behind`), the answer of a served write will have the list loaded,
or every list on its way shows the participants there are and the page shows
them or waits for one of those. Lemmas say once what forgetting, sending and
answering do to the set of requests (`From`, `Still`), so that each
action is one step of three parts. `OnlyTickedChanges` needs of it only that
whoever is posted as loaded keeps the roles (`PostedAsLoaded`).

About `BrowserSession`, `PagesProofs` proves `SessionTypeCorrect`,
`SeenAlwaysServed`, `GuardedPagesAlwaysHaveUser` and `SignsInAlwaysOnRequest`, all
four properties of its run. `SeenIsServed` speaks of a tab at rest; what holds
before that is `Sees`: the tab shows nobody or the user of the session, or a
request is under way whose answer corrects it (`Corrects`). That a correction is
right when it arrives needs `Says` (an answer under way speaks of the session as
it still is) and `Alone` (a request that changes the session is the only one
under way, or the two have come `apart`). `Settled` is what the forms need: who
is nobody in the tab has no profile to save and no wrong password sent from the
settings. `SignedOff` is why no sync signs anybody back in: with nobody in the
tab, a sync that leads to no page meets an empty session. Every operator that
makes a tab has a lemma that says what it keeps (`Overtaken`, `Entered`, `Went`,
`Opening`, `Sending`...: which requests stay, which are new, whether the place is guarded),
so that a step is a chain of them; `Answered` sums the answers up, and the two
action properties are read off it. The lemma `FreshNumber` finds the number of
a request among one more than there are requests under way.

`InventoryEntriesProofs` proves the properties of `InventoryEntries`. The
dialog, the table, tables on their way, saves on their way and the database
each hold a version of an entry, so the invariant compares them pairwise, as
long as nothing was `apart`: a table may differ from the rows only while a request that
was done waits for its answer or a load is on its way (`Loads`, `Shown`), and
the dialog or a save only in fields that were edited (`Edits`, `Saves`), or in
those another save of the same dialog has written since (`Carried`). `Roots`
says besides that nobody knows an entry the database never had, so that the one
it creates next is new to everybody. `OnlyRestoringEverRevives` needs the types alone:
each other step changes the row of one entry at most, one that is not deleted.

`AssessmentPermissionsProofs` proves, for any users, threads, levels and requests:

* `TypeCorrect`, with `InPlace`: each handler keeps to its own stages, and from a
  certain stage on it has a user;
* `NobodyEverStripped`, inductive with the type invariant: a step either takes
  no level away and was not about to add one, or is the `Revoke` that leaves its
  thread at `add`, or the end of that thread, which adds or is excepted. Other
  threads at `add` for the same user only help;
* `OnlyHoldersAlwaysTold` and `RequestsAlwaysEndWhole`, from an invariant of each
  thread about what it has promised: while it grants a request, every role of
  that request is held already or still to be granted (`Granting`), and what it
  is about to tell is held (`Telling`). Another thread cannot break it, because
  `held` only grows, ids of requests are given once (`Fresh`), and a request
  never changes but by disappearing (`Grows`).

Type invariants that are proved inductive for all constants are not all run as
well: those of `MembershipRace`, `ToolSetup`, `AnswerPages` and
`AssessmentPermissions` are theorems only.

The proofs assume what each module assumes of its constants (finite sets where
the code counts, threads and workers among them, model values that differ) and
nothing else; the one about where jobs start is about assessments
(`Assessment`), by its statement, and the one about the atomic actions of the
handlers about behaviours in which none have overlapped, by its property.

Left to TLC is liveness (`EveryParticipantInvited`), which is beyond the provers.
Every other property of a run is a theorem.

## Not modelled

Rendering, mail texts, the
profile a new invitee gets, share tokens, rails_admin, import and
export are left out: they keep no state these properties depend on. So are
status texts, reports and priorities, which are computed from the rest or
replaced as a whole, and the pages of the browser that show one answer or post one form.

Of parts that are modelled: the response that is destroyed with a participant;
the district and team role an invitation sets; dates in the past; numbers computed from scores; the parts
of a product beyond one value and its connections; the CSV export, which raises
for a product connected to a deleted one; profiles and avatars. Each browser
module has one tab of one user, and the rest of the world as one or two changes
by others: two browsers on one tool meet on the server, in `MembershipRace` and
`AssessmentPermissions`.

## Plan

1. Done: the core, its races, the notification workers, the permissions of
   assessments, the index, the five browser modules, and the proofs above.
2. Priorities; accounts with reset tokens
   read by a late job.
