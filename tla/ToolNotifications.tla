-------------------------- MODULE ToolNotifications --------------------------
(***************************************************************************)
(* The invitation and reminder mails of one tool (an assessment, an        *)
(* inventory or an analysis), sent by Sidekiq workers while facilitators   *)
(* assign the tool, invite, remove and remind its participants.            *)
(*                                                                         *)
(* A job is taken from the queue, works through the participants it loaded *)
(* at its start, and mails each before it writes the participant's row: an *)
(* exception anywhere sends the whole job back, to run again from the      *)
(* start.  Two workers run at a time (Procfile: sidekiq -c 2).             *)
(***************************************************************************)
EXTENDS Naturals, Sequences, FiniteSets

CONSTANTS
    Users,
    Workers,             \* the threads of one Sidekiq process
    Initial,             \* participants of the tool at the beginning
    Invitable,           \* users whose e-mail address somebody may invite
    Completed,           \* participants whose response is submitted (assessments)
    Assessment,          \* the tool is an assessment: its participants are rows
                         \* of participants, not of tool_members
    MaxJobs,             \* bound: jobs facilitators enqueue
    MaxFaults,           \* bound: exceptions raised by mail server or database
    MaxAttempts,         \* bound: runs of one job before Sidekiq buries it
    NoOne

ASSUME ConstantsOK ==
    /\ IsFiniteSet(Workers)
    /\ Initial \subseteq Users
    /\ Invitable \subseteq Users
    /\ Completed \subseteq Users
    /\ Assessment \in BOOLEAN
    /\ MaxJobs \in Nat /\ MaxFaults \in Nat /\ MaxAttempts \in Nat \ {0}
    /\ NoOne \notin Users

VARIABLES
    participants,   \* users with a participant row
    invited,        \* participants whose invited_at is set
    left,           \* users removed; bound: nobody is added a second time
    invitations,    \* users with an invitation row
    assigned,       \* assigned_at is set
    messages,       \* rows of messages, by category
    queue,          \* the Sidekiq queue, first in first out
    worker,         \* worker -> stage, job, participants to do, the one at hand
    mails,          \* user -> invitation mails delivered
    reminders,      \* user -> reminder mails delivered
    enqueued,       \* jobs enqueued so far
    faults          \* exceptions so far

tool  == <<participants, invited, left, invitations, assigned>>
sent  == <<mails, reminders, messages>>
vars  == <<tool, sent, queue, worker, enqueued, faults>>

Assign   == "assign"      \* All*ParticipantsNotificationWorker
Invite   == "invite"      \* *InvitationNotificationWorker
Reminder == "reminder"    \* ReminderNotificationWorker
Kinds    == {Assign, Invite, Reminder}

Job  == [kind: Kinds, user: Users \cup {NoOne}, attempt: 1..MaxAttempts]
Idle == [stage |-> "idle"]
Busy == [stage: {"mailing", "marking"}, job: Job, todo: SUBSET Users,
         user: Users \cup {NoOne}]

TypeOK ==
    /\ participants \subseteq Users
    /\ invited \subseteq Users
    /\ left \subseteq Users
    /\ invitations \subseteq Users
    /\ assigned \in BOOLEAN
    /\ messages \in [{"welcome", "reminder"} -> Nat]
    /\ queue \in Seq(Job)
    /\ worker \in [Workers -> Busy \cup {Idle}]
    /\ mails \in [Users -> Nat]
    /\ reminders \in [Users -> Nat]
    /\ enqueued \in 0..MaxJobs
    /\ faults \in 0..MaxFaults

Init ==
    /\ participants = Initial
    /\ invited = {} /\ left = {} /\ invitations = {}
    /\ assigned = FALSE
    /\ messages = [c \in {"welcome", "reminder"} |-> 0]
    /\ queue = <<>>
    /\ worker = [w \in Workers |-> Idle]
    /\ mails = [u \in Users |-> 0]
    /\ reminders = [u \in Users |-> 0]
    /\ enqueued = 0 /\ faults = 0

-----------------------------------------------------------------------------
(* What facilitators do                                                    *)

Enqueue(kind, u) ==
    /\ enqueued < MaxJobs
    /\ enqueued' = enqueued + 1
    /\ queue' = Append(queue, [kind |-> kind, user |-> u, attempt |-> 1])

\* #update with assign: before_save sets assigned_at, after_save adds the
\* welcome message when the tool has no message of any category.  An assigned
\* assessment without participants does not validate.
AssignTool ==
    /\ ~(Assessment /\ assigned /\ participants = {})
    /\ assigned' = TRUE
    /\ messages' = IF \A c \in DOMAIN messages : messages[c] = 0
                   THEN [messages EXCEPT !["welcome"] = 1] ELSE messages
    /\ Enqueue(Assign, NoOne)
    /\ UNCHANGED <<participants, invited, left, invitations, worker, mails, reminders, faults>>

\* An invitation with send_invite: the user becomes a participant (or is one).
InviteUser(u) ==
    /\ u \in Invitable \ (invitations \cup left)
    /\ invitations' = invitations \cup {u}
    /\ participants' = participants \cup {u}
    /\ Enqueue(Invite, u)
    /\ UNCHANGED <<invited, left, assigned, sent, worker, faults>>

Remind ==
    /\ Enqueue(Reminder, NoOne)
    /\ UNCHANGED <<tool, sent, worker, faults>>

\* InvitationsController#redeem destroys the invitation, whose job may still
\* be in the queue.
RedeemInvitation(u) ==
    /\ u \in invitations
    /\ invitations' = invitations \ {u}
    /\ UNCHANGED <<participants, invited, left, assigned, sent, queue, worker, enqueued, faults>>

\* ParticipantsController#create may mail at once, and does not set invited_at;
\* ToolMembersController#create sends no invitation.
AddParticipant(u, send) ==
    /\ u \in Users \ (participants \cup left)
    /\ send => Assessment
    /\ participants' = participants \cup {u}
    /\ mails' = IF send THEN [mails EXCEPT ![u] = @ + 1] ELSE mails
    /\ UNCHANGED <<invited, left, invitations, assigned, messages, reminders,
                   queue, worker, enqueued, faults>>

\* Variant: the participant goes and the invitation stays.
RemoveParticipantOnly(u) ==
    /\ u \in participants
    /\ participants' = participants \ {u}
    /\ invited' = invited \ {u}
    /\ left' = left \cup {u}
    /\ UNCHANGED <<invitations, assigned, sent, queue, worker, enqueued, faults>>

\* Participant has before_destroy :remove_invitation, ToolMember has not.
RemoveParticipant(u) ==
    /\ u \in participants
    /\ participants' = participants \ {u}
    /\ invited' = invited \ {u}
    /\ left' = left \cup {u}
    /\ invitations' = IF Assessment THEN invitations \ {u} ELSE invitations
    /\ UNCHANGED <<assigned, sent, queue, worker, enqueued, faults>>

-----------------------------------------------------------------------------
(* What a worker does                                                      *)

\* Variant: without the test of invited_at.
TargetsAgain(job) ==
    CASE job.kind = Assign   -> participants
      [] job.kind = Invite   -> {job.user}
      [] job.kind = Reminder -> participants

\* The participants a job works through, as loaded when it starts.
Targets(job) ==
    CASE job.kind = Assign   -> participants \ invited
      [] job.kind = Invite   -> {job.user}
      [] job.kind = Reminder -> participants

\* Variant: one run too many.
RetriedOnceMore(q, job) ==
    IF job.attempt <= MaxAttempts
    THEN Append(q, [job EXCEPT !.attempt = job.attempt + 1]) ELSE q

\* Variant: the worker rescues the exception, so the job counts as done.
Rescued(q, job) == q

\* The retry runs the job again from its start, after the others; a job that
\* has used up its attempts is buried.
Retried(q, job) ==
    IF job.attempt < MaxAttempts
    THEN Append(q, [job EXCEPT !.attempt = job.attempt + 1]) ELSE q

\* find raises for an invitation that is gone.
Findable(job) == job.kind = Invite => job.user \in invitations

Start(w) ==
    /\ worker[w] = Idle /\ queue # <<>>
    /\ LET job == Head(queue)
       IN  /\ Findable(job)
           /\ queue' = Tail(queue)
           /\ worker' = [worker EXCEPT ![w] =
                 [stage |-> "mailing", job |-> job, todo |-> Targets(job), user |-> NoOne]]
           /\ messages' = IF job.kind = Reminder
                          THEN [messages EXCEPT !["reminder"] = @ + 1] ELSE messages
    /\ UNCHANGED <<tool, mails, reminders, enqueued, faults>>

StartFails(w) ==
    /\ worker[w] = Idle /\ queue # <<>>
    /\ ~Findable(Head(queue))
    /\ queue' = Retried(Tail(queue), Head(queue))
    /\ UNCHANGED <<tool, sent, worker, enqueued, faults>>

\* Variant: the mail is built and not delivered.
MailUndelivered(w, u) ==
    /\ worker[w] # Idle /\ worker[w].stage = "mailing" /\ u \in worker[w].todo
    /\ worker' = [worker EXCEPT ![w].todo = @ \ {u}, ![w].user = u, ![w].stage = "marking"]
    /\ UNCHANGED <<tool, sent, queue, enqueued, faults>>

\* A participant with a submitted response is not reminded.
Skips(job, u) == job.kind = Reminder /\ u \in Completed

Skip(w, u) ==
    /\ worker[w] # Idle /\ worker[w].stage = "mailing" /\ u \in worker[w].todo
    /\ Skips(worker[w].job, u)
    /\ worker' = [worker EXCEPT ![w].todo = @ \ {u}]
    /\ UNCHANGED <<tool, sent, queue, enqueued, faults>>

\* deliver_now
Mail(w, u) ==
    /\ worker[w] # Idle /\ worker[w].stage = "mailing" /\ u \in worker[w].todo
    /\ ~Skips(worker[w].job, u)
    /\ worker' = [worker EXCEPT ![w].todo = @ \ {u}, ![w].user = u, ![w].stage = "marking"]
    /\ IF worker[w].job.kind = Reminder
       THEN reminders' = [reminders EXCEPT ![u] = @ + 1] /\ mails' = mails
       ELSE mails' = [mails EXCEPT ![u] = @ + 1] /\ reminders' = reminders
    /\ UNCHANGED <<tool, messages, queue, enqueued, faults>>

\* participant.update(invited_at: ...): an update of a row that is gone does
\* nothing, but the invitation workers look the row up and fail on nil.
MarkFinds(w) == worker[w].job.kind = Invite => worker[w].user \in participants

\* Variant: the invitation workers add the row they do not find.
MarkCreates(w) ==
    /\ worker[w] # Idle /\ worker[w].stage = "marking" /\ MarkFinds(w)
    /\ invited' = IF worker[w].job.kind # Reminder
                  THEN invited \cup {worker[w].user} ELSE invited
    /\ worker' = [worker EXCEPT ![w].stage = "mailing", ![w].user = NoOne]
    /\ UNCHANGED <<participants, left, invitations, assigned, sent, queue, enqueued, faults>>

Mark(w) ==
    /\ worker[w] # Idle /\ worker[w].stage = "marking" /\ MarkFinds(w)
    /\ invited' = IF worker[w].job.kind # Reminder
                  THEN invited \cup ({worker[w].user} \cap participants) ELSE invited
    /\ worker' = [worker EXCEPT ![w].stage = "mailing", ![w].user = NoOne]
    /\ UNCHANGED <<participants, left, invitations, assigned, sent, queue, enqueued, faults>>

Finish(w) ==
    /\ worker[w] # Idle /\ worker[w].stage = "mailing" /\ worker[w].todo = {}
    /\ worker' = [worker EXCEPT ![w] = Idle]
    /\ UNCHANGED <<tool, sent, queue, enqueued, faults>>

GiveBack(w) ==
    /\ queue' = Retried(queue, worker[w].job)
    /\ worker' = [worker EXCEPT ![w] = Idle]

MarkFails(w) ==
    /\ worker[w] # Idle /\ worker[w].stage = "marking" /\ ~MarkFinds(w)
    /\ GiveBack(w)
    /\ UNCHANGED <<tool, sent, enqueued, faults>>

\* The mail server refuses the mail, or the database the update after it.
Raise(w) ==
    /\ faults < MaxFaults
    /\ worker[w] # Idle
    /\ worker[w].stage = "marking" \/ worker[w].todo # {}
    /\ faults' = faults + 1
    /\ GiveBack(w)
    /\ UNCHANGED <<tool, sent, enqueued>>

-----------------------------------------------------------------------------
WorkerStep(w) ==
    \/ Start(w) \/ StartFails(w)
    \/ \E u \in Users : Skip(w, u) \/ Mail(w, u)
    \/ Mark(w) \/ MarkFails(w)
    \/ Finish(w)

WebStep ==
    \/ AssignTool \/ Remind
    \/ \E u \in Users :
        \/ InviteUser(u) \/ RedeemInvitation(u)
        \/ \E send \in BOOLEAN : AddParticipant(u, send)
        \/ RemoveParticipant(u)

Next == WebStep \/ \E w \in Workers : WorkerStep(w) \/ Raise(w)

Spec == Init /\ [][Next]_vars

\* The Sidekiq process keeps running its threads; nothing obliges facilitators
\* to act, nor the mail server to fail.
FairSpec == Spec /\ \A w \in Workers : WF_vars(WorkerStep(w))

-----------------------------------------------------------------------------
(* The workers implement InvitationDelivery.                               *)
Delivered == {u \in Users : mails[u] > 0}

Delivery == INSTANCE InvitationDelivery WITH delivered <- Delivered, marked <- invited

\* invited_at is never set before the mail went out, however jobs overlap,
\* fail and repeat, and only the removal of the participant unsets it.
ImplementsDelivery == Delivery!DeliverySpec

\* Everybody who is a participant when the tool is assigned is invited in the
\* end, or is removed: the whole job is repeated when it fails half-way.  (A
\* job whose attempts are used up is lost, so the runs keep MaxFaults below
\* MaxAttempts.)
Pending(u) ==
    /\ u \in participants \ invited
    /\ \E i \in DOMAIN queue : queue[i].kind = Assign

EveryParticipantInvited ==
    \A u \in Users : Pending(u) ~> (u \in invited \/ u \notin participants)

\* A participant who was never invited by e-mail address gets one assignment
\* mail per job that loaded the participants before the first mark: one for
\* each thread, and one for each failure between a mail and its mark.  (The
\* mail ParticipantsController#create sends comes on top.)  However often the
\* tool is assigned, a job that starts after the mark skips the participant.
\* Nothing guards against reminding again what was reminded: a request reminds
\* once, and once more for each failure of its job.
DuplicatesBounded ==
    /\ \A u \in Users \ Invitable :
          mails[u] <= Cardinality(Workers) + faults + (IF u \in Initial THEN 0 ELSE 1)
    /\ \A u \in Users : reminders[u] <= enqueued + faults

\* A job that starts works on participants of an assessment only: one who is
\* removed takes the invitation along, and its job, enqueued before, finds
\* nothing.  (For tool_members this does not hold.)
StartsOnParticipants ==
    [][\A w \in Workers :
          worker[w] = Idle /\ worker'[w] # Idle => worker'[w].todo \subseteq participants]_vars
=============================================================================
