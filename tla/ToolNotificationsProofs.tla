----------------------- MODULE ToolNotificationsProofs -----------------------
(***************************************************************************)
(* Proofs about ToolNotifications: type correctness, that the workers      *)
(* implement InvitationDelivery, that the jobs of an assessment start on   *)
(* its participants only, and that the mails a participant gets twice are  *)
(* bounded by the threads and the failures.                                *)
(***************************************************************************)
EXTENDS ToolNotifications, FiniteSetTheorems, TLAPS

\* A worker that is about to write invited_at has sent the mail.
MailedBeforeMark ==
    \A w \in Workers :
        worker[w].stage = "marking" /\ worker[w].job.kind # Reminder
            => mails[worker[w].user] > 0

\* An invitation to an assessment belongs to a participant.
InvitationsOfParticipants == Assessment => invitations \subseteq participants

-----------------------------------------------------------------------------
(* The queue                                                               *)

LEMMA EnqueuedType ==
    ASSUME TypeOK, NEW kind \in Kinds, NEW u \in Users \cup {NoOne}, Enqueue(kind, u)
    PROVE  queue' \in Seq(Job) /\ enqueued' \in 0..MaxJobs
<1>1. [kind |-> kind, user |-> u, attempt |-> 1] \in Job
  BY ConstantsOK DEF Job
<1>2. queue' \in Seq(Job)
  BY <1>1 DEF TypeOK, Enqueue
<1>3. enqueued' \in 0..MaxJobs
  BY ConstantsOK DEF TypeOK, Enqueue
<1> QED BY <1>2, <1>3

\* A job that is repeated is a job: its attempts are counted up to the bound.
LEMMA RetriedType ==
    ASSUME NEW q \in Seq(Job), NEW job \in Job
    PROVE  Retried(q, job) \in Seq(Job)
<1>1. CASE job.attempt < MaxAttempts
  <2>1. job.attempt + 1 \in 1..MaxAttempts
    BY <1>1, ConstantsOK DEF Job
  <2>2. [job EXCEPT !.attempt = job.attempt + 1] \in Job
    BY <2>1 DEF Job
  <2> QED BY <2>2, <1>1 DEF Retried
<1>2. CASE ~(job.attempt < MaxAttempts)
  BY <1>2 DEF Retried
<1> QED BY <1>1, <1>2

LEMMA HeadType ==
    ASSUME TypeOK, queue # <<>>
    PROVE  Head(queue) \in Job /\ Tail(queue) \in Seq(Job)
BY DEF TypeOK

\* What a worker that is not idle holds.
LEMMA BusyType ==
    ASSUME TypeOK, NEW w \in Workers, worker[w] # Idle
    PROVE  /\ worker[w] \in Busy
           /\ worker[w].stage \in {"mailing", "marking"}
           /\ worker[w].job \in Job /\ worker[w].job.kind \in Kinds
           /\ worker[w].todo \in SUBSET Users
           /\ worker[w].user \in Users \cup {NoOne}
BY DEF TypeOK, Busy, Job

\* The participants a job loads are users.
LEMMA TargetsType ==
    ASSUME TypeOK, queue # <<>>, Findable(Head(queue))
    PROVE  Targets(Head(queue)) \in SUBSET Users
<1>1. Head(queue) \in Job
  BY HeadType
<1>2. Head(queue).kind \in Kinds
  BY <1>1 DEF Job
<1> QED BY <1>2 DEF TypeOK, Targets, Findable, Kinds, Assign, Invite, Reminder

-----------------------------------------------------------------------------
(* Type correctness                                                        *)

LEMMA InitType == Init => TypeOK
<1> SUFFICES ASSUME Init PROVE TypeOK
  OBVIOUS
<1>1. queue \in Seq(Job)
  BY DEF Init
<1>2. worker \in [Workers -> Busy \cup {Idle}]
  BY DEF Init
<1>3. messages \in [{"welcome", "reminder"} -> Nat]
  BY DEF Init
<1>4. mails \in [Users -> Nat] /\ reminders \in [Users -> Nat]
  BY DEF Init
<1>5. enqueued \in 0..MaxJobs /\ faults \in 0..MaxFaults
  BY ConstantsOK DEF Init
<1>6. /\ participants \subseteq Users /\ invited \subseteq Users
      /\ left \subseteq Users /\ invitations \subseteq Users /\ assigned \in BOOLEAN
  BY ConstantsOK DEF Init
<1> QED BY <1>1, <1>2, <1>3, <1>4, <1>5, <1>6 DEF TypeOK

LEMMA WebStepType ==
    ASSUME TypeOK, WebStep
    PROVE  TypeOK'
<1>1. CASE AssignTool
  <2>1. queue' \in Seq(Job) /\ enqueued' \in 0..MaxJobs
    BY <1>1, EnqueuedType DEF AssignTool, Kinds
  <2>2. messages' \in [{"welcome", "reminder"} -> Nat]
    BY <1>1 DEF TypeOK, AssignTool
  <2> QED BY <1>1, <2>1, <2>2 DEF TypeOK, AssignTool
<1>2. CASE Remind
  <2>1. queue' \in Seq(Job) /\ enqueued' \in 0..MaxJobs
    BY <1>2, EnqueuedType DEF Remind, Kinds
  <2> QED BY <1>2, <2>1 DEF TypeOK, Remind, tool, sent
<1>3. ASSUME NEW u \in Users, InviteUser(u) PROVE TypeOK'
  <2>1. queue' \in Seq(Job) /\ enqueued' \in 0..MaxJobs
    BY <1>3, EnqueuedType DEF InviteUser, Kinds
  <2> QED BY <1>3, <2>1 DEF TypeOK, InviteUser, sent
<1>4. ASSUME NEW u \in Users, RedeemInvitation(u) PROVE TypeOK'
  BY <1>4 DEF TypeOK, RedeemInvitation, sent
<1>5. ASSUME NEW u \in Users, NEW send \in BOOLEAN, AddParticipant(u, send) PROVE TypeOK'
  BY <1>5 DEF TypeOK, AddParticipant
<1>6. ASSUME NEW u \in Users, RemoveParticipant(u) PROVE TypeOK'
  BY <1>6 DEF TypeOK, RemoveParticipant, sent
<1> QED BY <1>1, <1>2, <1>3, <1>4, <1>5, <1>6 DEF WebStep

LEMMA GiveBackType ==
    ASSUME TypeOK, NEW w \in Workers, worker[w] # Idle, GiveBack(w)
    PROVE  queue' \in Seq(Job) /\ worker' \in [Workers -> Busy \cup {Idle}]
<1>1. worker[w].job \in Job
  BY BusyType
<1>2. queue' \in Seq(Job)
  BY <1>1, RetriedType DEF TypeOK, GiveBack
<1> QED BY <1>2 DEF TypeOK, GiveBack

LEMMA SkipType ==
    ASSUME TypeOK, NEW w \in Workers, NEW u \in Users, Skip(w, u)
    PROVE  TypeOK'
<1>1. worker[w] \in Busy
  BY BusyType DEF Skip
<1>2. [worker[w] EXCEPT !.todo = @ \ {u}] \in Busy
  BY <1>1 DEF Busy
<1>3. worker' = [worker EXCEPT ![w] = [worker[w] EXCEPT !.todo = @ \ {u}]]
  BY <1>1 DEF Skip, TypeOK, Busy
<1>4. worker' \in [Workers -> Busy \cup {Idle}]
  BY <1>2, <1>3 DEF TypeOK
<1> QED BY <1>4 DEF Skip, TypeOK, tool, sent

LEMMA MailType ==
    ASSUME TypeOK, NEW w \in Workers, NEW u \in Users, Mail(w, u)
    PROVE  TypeOK'
<1>1. worker[w] \in Busy
  BY BusyType DEF Mail
<1>2. [worker[w] EXCEPT !.todo = @ \ {u}, !.user = u, !.stage = "marking"] \in Busy
  BY <1>1 DEF Busy
<1>3. worker' = [worker EXCEPT ![w] =
          [worker[w] EXCEPT !.todo = @ \ {u}, !.user = u, !.stage = "marking"]]
  BY <1>1 DEF Mail, TypeOK, Busy
<1>4. worker' \in [Workers -> Busy \cup {Idle}]
  BY <1>2, <1>3 DEF TypeOK
<1>5. mails' \in [Users -> Nat] /\ reminders' \in [Users -> Nat]
  <2>1. CASE mails' = mails /\ reminders' = [reminders EXCEPT ![u] = @ + 1]
    BY <2>1 DEF TypeOK
  <2>2. CASE reminders' = reminders /\ mails' = [mails EXCEPT ![u] = @ + 1]
    BY <2>2 DEF TypeOK
  <2> QED BY <2>1, <2>2 DEF Mail
<1> QED BY <1>4, <1>5 DEF Mail, TypeOK, tool

LEMMA WorkerStepType ==
    ASSUME TypeOK, NEW w \in Workers, WorkerStep(w) \/ Raise(w)
    PROVE  TypeOK'
<1>1. CASE Start(w)
  <2> DEFINE started == [stage |-> "mailing", job |-> Head(queue),
                         todo |-> Targets(Head(queue)), user |-> NoOne]
  <2>1. Head(queue) \in Job /\ Tail(queue) \in Seq(Job)
    BY <1>1, HeadType DEF Start
  <2>2. Targets(Head(queue)) \in SUBSET Users
    BY <1>1, TargetsType DEF Start
  <2>3. started \in Busy
    BY <2>1, <2>2 DEF Busy
  <2>4. worker' = [worker EXCEPT ![w] = started]
    BY <1>1 DEF Start
  <2>5. worker' \in [Workers -> Busy \cup {Idle}]
    BY <2>3, <2>4 DEF TypeOK
  <2>6. messages' \in [{"welcome", "reminder"} -> Nat]
    BY <1>1 DEF Start, TypeOK
  <2> QED BY <1>1, <2>1, <2>5, <2>6 DEF Start, TypeOK, tool
<1>2. CASE StartFails(w)
  <2>1. Head(queue) \in Job /\ Tail(queue) \in Seq(Job)
    BY <1>2, HeadType DEF StartFails
  <2>2. queue' \in Seq(Job)
    BY <1>2, <2>1, RetriedType DEF StartFails
  <2> QED BY <1>2, <2>2 DEF StartFails, TypeOK, tool, sent
<1>3. ASSUME NEW u \in Users, Skip(w, u) \/ Mail(w, u) PROVE TypeOK'
  BY <1>3, SkipType, MailType
<1>4. CASE Mark(w)
  <2>1. worker[w] \in Busy
    BY <1>4, BusyType DEF Mark
  <2>2. [worker[w] EXCEPT !.stage = "mailing", !.user = NoOne] \in Busy
    BY <2>1 DEF Busy
  <2>3. worker' = [worker EXCEPT ![w] = [worker[w] EXCEPT !.stage = "mailing", !.user = NoOne]]
    BY <1>4, <2>1 DEF Mark, TypeOK, Busy
  <2>4. worker' \in [Workers -> Busy \cup {Idle}]
    BY <2>2, <2>3 DEF TypeOK
  <2>5. invited' \subseteq Users
    BY <1>4 DEF Mark, TypeOK
  <2> QED BY <1>4, <2>4, <2>5 DEF Mark, TypeOK, sent
<1>5. CASE MarkFails(w)
  <2>1. queue' \in Seq(Job) /\ worker' \in [Workers -> Busy \cup {Idle}]
    BY <1>5, GiveBackType DEF MarkFails
  <2> QED BY <1>5, <2>1 DEF MarkFails, TypeOK, tool, sent
<1>6. CASE Finish(w)
  BY <1>6 DEF Finish, TypeOK, tool, sent
<1>7. CASE Raise(w)
  <2>1. queue' \in Seq(Job) /\ worker' \in [Workers -> Busy \cup {Idle}]
    BY <1>7, GiveBackType DEF Raise
  <2>2. faults' \in 0..MaxFaults
    BY <1>7, ConstantsOK DEF Raise, TypeOK
  <2> QED BY <1>7, <2>1, <2>2 DEF Raise, TypeOK, tool, sent
<1> QED BY <1>1, <1>2, <1>3, <1>4, <1>5, <1>6, <1>7 DEF WorkerStep

LEMMA NextType == ASSUME TypeOK, [Next]_vars PROVE TypeOK'
<1>1. CASE WebStep
  BY <1>1, WebStepType
<1>2. ASSUME NEW w \in Workers, WorkerStep(w) \/ Raise(w) PROVE TypeOK'
  BY <1>2, WorkerStepType
<1>3. CASE UNCHANGED vars
  BY <1>3 DEF vars, tool, sent, TypeOK
<1> QED BY <1>1, <1>2, <1>3 DEF Next

\* Every reachable state has the types the code gives it: in particular no
\* job runs more often than Sidekiq retries it.
THEOREM TypeCorrect == Spec => []TypeOK
<1>1. Init => TypeOK
  BY InitType
<1>2. TypeOK /\ [Next]_vars => TypeOK'
  BY NextType
<1> QED BY <1>1, <1>2, PTL DEF Spec

-----------------------------------------------------------------------------
(* The mark follows the mail                                               *)

LEMMA GiveBackIdles ==
    ASSUME TypeOK, NEW w \in Workers, GiveBack(w)
    PROVE  /\ worker'[w] = Idle
           /\ \A v \in Workers \ {w} : worker'[v] = worker[v]
BY DEF TypeOK, GiveBack

\* A step that leaves mails alone and sends no worker to the mark.
LEMMA MailedStays ==
    ASSUME MailedBeforeMark, NEW w \in Workers,
           mails' = mails,
           \A v \in Workers \ {w} : worker'[v] = worker[v],
           worker'[w].stage # "marking" \/ worker'[w] = worker[w]
    PROVE  MailedBeforeMark'
BY DEF MailedBeforeMark

LEMMA InitMailed == Init => MailedBeforeMark
BY DEF Init, MailedBeforeMark, Idle

LEMMA WebStepMailed ==
    ASSUME TypeOK, MailedBeforeMark, WebStep
    PROVE  MailedBeforeMark'
<1>1. worker' = worker
  BY DEF WebStep, AssignTool, Remind, InviteUser, RedeemInvitation, AddParticipant,
         RemoveParticipant
<1>2. mails' = mails \/ \E u \in Users, send \in BOOLEAN : AddParticipant(u, send)
  BY DEF WebStep, AssignTool, Remind, InviteUser, RedeemInvitation, RemoveParticipant, sent
<1>3. \A v \in Users \cup {NoOne} : mails[v] > 0 => mails'[v] > 0
  <2>1. CASE mails' = mails
    BY <2>1
  <2>2. ASSUME NEW u \in Users, NEW send \in BOOLEAN, AddParticipant(u, send),
               NEW v \in Users \cup {NoOne}, mails[v] > 0
        PROVE  mails'[v] > 0
    <3>1. CASE mails' = mails
      BY <2>2, <3>1
    <3>2. CASE mails' = [mails EXCEPT ![u] = @ + 1]
      BY <2>2, <3>2 DEF TypeOK
    <3> QED BY <2>2, <3>1, <3>2 DEF AddParticipant
  <2> QED BY <1>2, <2>1, <2>2
<1>4. \A w \in Workers : worker[w].stage = "marking" => worker[w].user \in Users \cup {NoOne}
  BY BusyType DEF Idle
<1> QED BY <1>1, <1>3, <1>4 DEF MailedBeforeMark

LEMMA MailMailed ==
    ASSUME TypeOK, MailedBeforeMark, NEW w \in Workers, NEW u \in Users, Mail(w, u)
    PROVE  MailedBeforeMark'
<1>1. worker[w] \in Busy
  BY BusyType DEF Mail
<1>2. worker'[w] = [worker[w] EXCEPT !.todo = @ \ {u}, !.user = u, !.stage = "marking"]
  BY <1>1 DEF Mail, TypeOK, Busy
<1>3. worker'[w].user = u /\ worker'[w].job = worker[w].job
  BY <1>1, <1>2 DEF Busy
<1>4. \A v \in Workers \ {w} : worker'[v] = worker[v]
  BY DEF Mail, TypeOK
<1>5. CASE worker[w].job.kind = Reminder
  <2>1. mails' = mails
    BY <1>5 DEF Mail
  <2> QED BY <1>3, <1>4, <1>5, <2>1 DEF MailedBeforeMark
<1>6. CASE worker[w].job.kind # Reminder
  <2>1. mails' = [mails EXCEPT ![u] = @ + 1]
    BY <1>6 DEF Mail
  <2>2. mails'[u] > 0
    BY <2>1 DEF TypeOK
  <2>3. \A x : mails[x] > 0 => mails'[x] > 0
    BY <2>1, <2>2 DEF TypeOK
  <2> QED BY <1>3, <1>4, <2>2, <2>3 DEF MailedBeforeMark
<1> QED BY <1>5, <1>6

LEMMA WorkerStepMailed ==
    ASSUME TypeOK, MailedBeforeMark, NEW w \in Workers, WorkerStep(w) \/ Raise(w)
    PROVE  MailedBeforeMark'
<1>1. CASE Start(w)
  <2>1. worker'[w].stage = "mailing" /\ \A v \in Workers \ {w} : worker'[v] = worker[v]
    BY <1>1 DEF Start, TypeOK
  <2> QED BY <1>1, <2>1, MailedStays DEF Start
<1>2. CASE StartFails(w)
  BY <1>2 DEF StartFails, sent, MailedBeforeMark
<1>3. ASSUME NEW u \in Users, Skip(w, u) PROVE MailedBeforeMark'
  <2>1. worker[w] \in Busy /\ worker[w].stage = "mailing"
    BY <1>3, BusyType DEF Skip
  <2>2. worker'[w].stage = "mailing" /\ \A v \in Workers \ {w} : worker'[v] = worker[v]
    BY <1>3, <2>1 DEF Skip, TypeOK, Busy
  <2> QED BY <1>3, <2>2, MailedStays DEF Skip, sent
<1>4. ASSUME NEW u \in Users, Mail(w, u) PROVE MailedBeforeMark'
  BY <1>4, MailMailed
<1>5. CASE Mark(w)
  <2>1. worker[w] \in Busy
    BY <1>5, BusyType DEF Mark
  <2>2. worker'[w].stage = "mailing" /\ \A v \in Workers \ {w} : worker'[v] = worker[v]
    BY <1>5, <2>1 DEF Mark, TypeOK, Busy
  <2> QED BY <1>5, <2>2, MailedStays DEF Mark, sent
<1>6. CASE MarkFails(w) \/ Raise(w)
  <2>1. mails' = mails /\ GiveBack(w)
    BY <1>6 DEF MarkFails, Raise, sent
  <2>2. worker'[w].stage # "marking"
    BY <2>1, GiveBackIdles DEF Idle
  <2> QED BY <2>1, <2>2, GiveBackIdles, MailedStays
<1>7. CASE Finish(w)
  <2>1. worker'[w] = Idle /\ \A v \in Workers \ {w} : worker'[v] = worker[v]
    BY <1>7 DEF Finish, TypeOK
  <2>2. worker'[w].stage # "marking"
    BY <2>1 DEF Idle
  <2> QED BY <1>7, <2>1, <2>2, MailedStays DEF Finish, sent
<1> QED BY <1>1, <1>2, <1>3, <1>4, <1>5, <1>6, <1>7 DEF WorkerStep

LEMMA NextMailed ==
    ASSUME TypeOK, MailedBeforeMark, [Next]_vars
    PROVE  MailedBeforeMark'
<1>1. CASE WebStep
  BY <1>1, WebStepMailed
<1>2. ASSUME NEW w \in Workers, WorkerStep(w) \/ Raise(w) PROVE MailedBeforeMark'
  BY <1>2, WorkerStepMailed
<1>3. CASE UNCHANGED vars
  BY <1>3 DEF vars, sent, MailedBeforeMark
<1> QED BY <1>1, <1>2, <1>3 DEF Next

-----------------------------------------------------------------------------
(* The refinement                                                          *)

Stutters == participants' = participants /\ mails' = mails /\ invited' = invited

LEMMA StutterRefines ==
    ASSUME Stutters
    PROVE  UNCHANGED Delivery!delivery
BY DEF Stutters, Delivery!delivery, Delivered

LEMMA WebStepRefines ==
    ASSUME TypeOK, WebStep
    PROVE  [Delivery!DeliveryNext]_(Delivery!delivery)
<1>1. CASE AssignTool \/ Remind \/ \E u \in Users : RedeemInvitation(u)
  <2>1. Stutters
    BY <1>1 DEF AssignTool, Remind, RedeemInvitation, tool, sent, Stutters
  <2> QED BY <2>1, StutterRefines
<1>2. ASSUME NEW u \in Users, InviteUser(u)
      PROVE  [Delivery!DeliveryNext]_(Delivery!delivery)
  <2>1. invited' = invited /\ Delivered' = Delivered
    BY <1>2 DEF InviteUser, sent, Delivered
  <2>2. CASE u \in participants
    <3>1. Stutters
      BY <1>2, <2>2 DEF InviteUser, sent, Stutters
    <3> QED BY <3>1, StutterRefines
  <2>3. CASE u \notin participants
    <3>1. Delivery!Join(u)
      BY <1>2, <2>1, <2>3 DEF InviteUser, Delivery!Join
    <3> QED BY <3>1 DEF Delivery!DeliveryNext
  <2> QED BY <2>2, <2>3
<1>3. ASSUME NEW u \in Users, NEW send \in BOOLEAN, AddParticipant(u, send)
      PROVE  [Delivery!DeliveryNext]_(Delivery!delivery)
  <2>1. Delivered' \in {Delivered, Delivered \cup {u}}
    <3>1. CASE mails' = mails
      BY <3>1 DEF Delivered
    <3>2. CASE mails' = [mails EXCEPT ![u] = @ + 1]
      BY <3>2 DEF Delivered, TypeOK
    <3> QED BY <1>3, <3>1, <3>2 DEF AddParticipant
  <2>2. Delivery!Join(u)
    BY <1>3, <2>1 DEF AddParticipant, Delivery!Join
  <2> QED BY <2>2 DEF Delivery!DeliveryNext
<1>4. ASSUME NEW u \in Users, RemoveParticipant(u)
      PROVE  [Delivery!DeliveryNext]_(Delivery!delivery)
  <2>1. Delivered' = Delivered
    BY <1>4 DEF RemoveParticipant, sent, Delivered
  <2>2. Delivery!Leave(u)
    BY <1>4, <2>1 DEF RemoveParticipant, Delivery!Leave
  <2> QED BY <2>2 DEF Delivery!DeliveryNext
<1> QED BY <1>1, <1>2, <1>3, <1>4 DEF WebStep

LEMMA MailRefines ==
    ASSUME TypeOK, NEW w \in Workers, NEW u \in Users, Mail(w, u)
    PROVE  [Delivery!DeliveryNext]_(Delivery!delivery)
<1>1. CASE mails' = mails
  <2>1. Stutters
    BY <1>1 DEF Mail, tool, Stutters
  <2> QED BY <2>1, StutterRefines
<1>2. CASE mails' = [mails EXCEPT ![u] = @ + 1]
  <2>1. Delivered' = Delivered \cup {u}
    BY <1>2 DEF TypeOK, Delivered
  <2>2. Delivery!Deliver(u)
    BY <2>1 DEF Mail, tool, Delivery!Deliver
  <2> QED BY <2>2 DEF Delivery!DeliveryNext
<1> QED BY <1>1, <1>2 DEF Mail

LEMMA MarkRefines ==
    ASSUME TypeOK, MailedBeforeMark, NEW w \in Workers, Mark(w)
    PROVE  [Delivery!DeliveryNext]_(Delivery!delivery)
<1> DEFINE u == worker[w].user
<1>1. Delivered' = Delivered
  BY DEF Mark, sent, Delivered
<1>2. CASE worker[w].job.kind # Reminder /\ u \in participants
  <2>1. u \in Delivered
    BY <1>2 DEF Mark, MailedBeforeMark, TypeOK, Delivered
  <2>2. invited' = invited \cup {u}
    BY <1>2 DEF Mark
  <2>3. Delivery!Mark(u)
    BY <1>1, <1>2, <2>1, <2>2 DEF Mark, Delivery!Mark
  <2> QED BY <1>2, <2>3 DEF TypeOK, Delivery!DeliveryNext
<1>3. CASE ~(worker[w].job.kind # Reminder /\ u \in participants)
  <2>1. Stutters
    BY <1>3 DEF Mark, sent, Stutters
  <2> QED BY <2>1, StutterRefines
<1> QED BY <1>2, <1>3

LEMMA NextRefines ==
    ASSUME TypeOK, MailedBeforeMark, [Next]_vars
    PROVE  [Delivery!DeliveryNext]_(Delivery!delivery)
<1>1. CASE WebStep
  BY <1>1, WebStepRefines
<1>2. ASSUME NEW w \in Workers, WorkerStep(w) \/ Raise(w)
      PROVE  [Delivery!DeliveryNext]_(Delivery!delivery)
  <2>1. ASSUME NEW u \in Users, Mail(w, u)
        PROVE  [Delivery!DeliveryNext]_(Delivery!delivery)
    BY <2>1, MailRefines
  <2>2. CASE Mark(w)
    BY <2>2, MarkRefines
  <2>3. CASE \/ Start(w) \/ StartFails(w) \/ (\E u \in Users : Skip(w, u))
             \/ MarkFails(w) \/ Finish(w) \/ Raise(w)
    <3>1. Stutters
      BY <2>3 DEF Start, StartFails, Skip, MarkFails, Finish, Raise, tool, sent, Stutters
    <3> QED BY <3>1, StutterRefines
  <2> QED BY <1>2, <2>1, <2>2, <2>3 DEF WorkerStep
<1>3. CASE UNCHANGED vars
  <2>1. Stutters
    BY <1>3 DEF vars, tool, sent, Stutters
  <2> QED BY <2>1, StutterRefines
<1> QED BY <1>1, <1>2, <1>3 DEF Next

LEMMA InitRefines == Init => Delivery!DeliveryInit
<1> SUFFICES ASSUME Init PROVE Delivery!DeliveryInit
  OBVIOUS
<1>1. Delivered = {}
  BY DEF Init, Delivered
<1> QED BY <1>1, ConstantsOK DEF Init, Delivery!DeliveryInit

\* Sidekiq's at-least-once runs implement the delivery: however jobs overlap,
\* fail and repeat, invited_at is set after the mail, and for participants only.
THEOREM WorkersImplementDelivery == Spec => ImplementsDelivery
<1>1. Init => TypeOK /\ MailedBeforeMark /\ Delivery!DeliveryInit
  BY InitType, InitMailed, InitRefines
<1>2. TypeOK /\ MailedBeforeMark /\ [Next]_vars => (TypeOK /\ MailedBeforeMark)'
  BY NextType, NextMailed
<1>3. TypeOK /\ MailedBeforeMark /\ [Next]_vars
        => [Delivery!DeliveryNext]_(Delivery!delivery)
  BY NextRefines
<1> QED BY <1>1, <1>2, <1>3, PTL DEF Spec, ImplementsDelivery, Delivery!DeliverySpec

-----------------------------------------------------------------------------
(* Jobs of an assessment                                                   *)

LEMMA InvitationsStay ==
    ASSUME TypeOK, InvitationsOfParticipants, [Next]_vars
    PROVE  InvitationsOfParticipants'
<1>1. CASE WebStep
  BY <1>1 DEF WebStep, AssignTool, Remind, InviteUser, RedeemInvitation, AddParticipant,
              RemoveParticipant, tool, InvitationsOfParticipants
<1>2. ASSUME NEW w \in Workers, WorkerStep(w) \/ Raise(w) PROVE InvitationsOfParticipants'
  BY <1>2 DEF WorkerStep, Start, StartFails, Skip, Mail, Mark, MarkFails, Finish, Raise,
              tool, InvitationsOfParticipants
<1>3. CASE UNCHANGED vars
  BY <1>3 DEF vars, tool, InvitationsOfParticipants
<1> QED BY <1>1, <1>2, <1>3 DEF Next

LEMMA StartLoadsParticipants ==
    ASSUME TypeOK, InvitationsOfParticipants, Assessment, NEW w \in Workers, Start(w)
    PROVE  Targets(Head(queue)) \subseteq participants
<1>1. Head(queue).kind \in Kinds /\ Findable(Head(queue))
  BY HeadType DEF Start, Job
<1> QED BY <1>1 DEF Targets, Findable, InvitationsOfParticipants, Kinds, Assign, Invite, Reminder

LEMMA OnlyStartLeavesIdle ==
    ASSUME TypeOK, [Next]_vars, NEW w \in Workers, worker[w] = Idle, worker'[w] # Idle
    PROVE  Start(w)
<1>1. CASE WebStep \/ UNCHANGED vars
  <2>1. worker' = worker
    BY <1>1 DEF WebStep, AssignTool, Remind, InviteUser, RedeemInvitation, AddParticipant,
                RemoveParticipant, vars
  <2> QED BY <2>1
<1>2. ASSUME NEW v \in Workers, WorkerStep(v) \/ Raise(v) PROVE Start(w)
  <2>1. v = w
    BY <1>2 DEF WorkerStep, Start, StartFails, Skip, Mail, Mark, MarkFails, Finish, Raise,
                GiveBack, TypeOK
  <2> QED BY <1>2, <2>1 DEF WorkerStep, StartFails, Skip, Mail, Mark, MarkFails, Finish, Raise
<1> QED BY <1>1, <1>2 DEF Next

\* An assessment's jobs work on its participants only: Participant removes the
\* invitation of the user it removes.
THEOREM AssessmentJobsStartOnParticipants == Assessment /\ Spec => StartsOnParticipants
<1> SUFFICES ASSUME Assessment PROVE Spec => StartsOnParticipants
  OBVIOUS
<1>1. Init => TypeOK /\ InvitationsOfParticipants
  BY InitType DEF Init, InvitationsOfParticipants
<1>2. TypeOK /\ InvitationsOfParticipants /\ [Next]_vars
        => (TypeOK /\ InvitationsOfParticipants)'
  BY NextType, InvitationsStay
<1> DEFINE Starts == \A w \in Workers :
        worker[w] = Idle /\ worker'[w] # Idle => worker'[w].todo \subseteq participants
<1>3. ASSUME TypeOK, InvitationsOfParticipants, [Next]_vars
      PROVE  Starts
  <2> SUFFICES ASSUME NEW w \in Workers, worker[w] = Idle, worker'[w] # Idle
               PROVE  worker'[w].todo \subseteq participants
    OBVIOUS
  <2>1. Start(w)
    BY <1>3, OnlyStartLeavesIdle
  <2>2. worker'[w].todo = Targets(Head(queue))
    BY <1>3, <2>1 DEF Start, TypeOK
  <2> QED BY <1>3, <2>1, <2>2, StartLoadsParticipants
<1>4. TypeOK /\ InvitationsOfParticipants /\ [Next]_vars => [Starts]_vars
  BY <1>3
<1> QED BY <1>1, <1>2, <1>4, PTL DEF Spec, StartsOnParticipants

-----------------------------------------------------------------------------
(* How often a participant is mailed                                       *)
(*                                                                         *)
(* A worker can still mail a participant that is in its todo, and has just *)
(* mailed the one it is about to mark.  While a participant is neither     *)
(* marked nor gone, each assignment mail is one of a worker at the mark or *)
(* of a failure; from then on no job loads the participant, and the mails  *)
(* to come are those of the workers that still have it in their todo.      *)

Busied(w, kind) == worker[w] # Idle /\ worker[w].job.kind = kind

\* The workers that are still to mail u, and those that have just done so.
Ahead(u, kind)  == {w \in Workers : Busied(w, kind) /\ u \in worker[w].todo}
AtMark(u, kind) == {w \in Workers : Busied(w, kind) /\ worker[w].stage = "marking"
                                        /\ worker[w].user = u}

QueuedReminders == {i \in DOMAIN queue : queue[i].kind = Reminder}

Slack(u) == IF u \in Initial THEN 0 ELSE 1

\* The job of an invitation is for the user invited, and mails nobody else.
JobFits(job) == job.kind = Invite => job.user \in Invitable
InvitesFit ==
    /\ \A i \in DOMAIN queue : JobFits(queue[i])
    /\ \A w \in Workers : Busied(w, Invite) =>
          /\ worker[w].job.user \in Invitable
          /\ worker[w].todo \subseteq {worker[w].job.user}
          /\ worker[w].stage = "marking" => worker[w].user = worker[w].job.user

\* Nobody is both in and out, nor ever forgotten.
Remembered ==
    /\ Initial \subseteq participants \cup left
    /\ participants \cap left = {}
    /\ invited \subseteq participants

\* A worker of the other jobs mails those who are or were participants, each once a run.
HeldRemembered ==
    \A w \in Workers : worker[w] # Idle /\ worker[w].job.kind # Invite =>
        /\ worker[w].todo \subseteq participants \cup left
        /\ worker[w].stage = "marking" =>
              worker[w].user \in (participants \cup left) \ worker[w].todo

MailsCounted ==
    \A u \in Users \ Invitable :
        /\ u \notin participants \cup left => mails[u] = 0
        /\ u \notin invited \cup left =>
              mails[u] <= Slack(u) + faults + Cardinality(AtMark(u, Assign))
        /\ mails[u] + Cardinality(Ahead(u, Assign)) <= Slack(u) + faults + Cardinality(Workers)

RemindersCounted ==
    \A u \in Users :
        reminders[u] + Cardinality(Ahead(u, Reminder)) + Cardinality(QueuedReminders)
            <= enqueued + faults

Fits == TypeOK /\ InvitesFit /\ Remembered /\ HeldRemembered

\* One element more or less.
LEMMA CountOne ==
    ASSUME NEW S, NEW x, IsFiniteSet(S)
    PROVE  /\ Cardinality(S \ {x}) \in Nat
           /\ Cardinality(S) = Cardinality(S \ {x}) + (IF x \in S THEN 1 ELSE 0)
<1>1. IsFiniteSet(S \ {x}) /\ Cardinality(S \ {x}) \in Nat /\ Cardinality(S) \in Nat
  BY FS_RemoveElement, FS_CardinalityType
<1>2. Cardinality(S \ {x}) = IF x \in S THEN Cardinality(S) - 1 ELSE Cardinality(S)
  BY FS_RemoveElement
<1> QED BY <1>1, <1>2

\* Two disjoint parts of a finite set.
LEMMA DisjointCount ==
    ASSUME NEW S, NEW T, NEW U, IsFiniteSet(U), S \subseteq U, T \subseteq U, S \cap T = {}
    PROVE  /\ Cardinality(S) \in Nat /\ Cardinality(T) \in Nat /\ Cardinality(U) \in Nat
           /\ Cardinality(S) + Cardinality(T) <= Cardinality(U)
<1>1. IsFiniteSet(S) /\ IsFiniteSet(T)
  BY FS_Subset
<1>2. Cardinality(S) \in Nat /\ Cardinality(T) \in Nat /\ Cardinality(U) \in Nat
  BY <1>1, FS_CardinalityType
<1>3. Cardinality(S \cup T) = Cardinality(S) + Cardinality(T)
  <2>1. Cardinality(S \cup T) = Cardinality(S) + Cardinality(T) - Cardinality(S \cap T)
    BY <1>1, FS_Union
  <2>2. Cardinality(S \cap T) = 0
    BY FS_EmptySet
  <2> QED BY <1>2, <2>1, <2>2
<1>4. Cardinality(S \cup T) <= Cardinality(U)
  BY FS_Subset
<1> QED BY <1>2, <1>3, <1>4

\* A step of one worker: how the counts before and after it are related.
LEMMA OneWorkerCounts ==
    ASSUME NEW w \in Workers, NEW u, NEW kind,
           \A v \in Workers \ {w} : worker'[v] = worker[v],
           \A v \in Workers \ {w} :
               Busied(v, kind) /\ worker[v].stage = "marking" => worker[v].user \notin worker[v].todo
    PROVE  \E a, m \in Nat :
               /\ a + m + 1 <= Cardinality(Workers)
               /\ Cardinality(Ahead(u, kind)) = a + (IF w \in Ahead(u, kind) THEN 1 ELSE 0)
               /\ Cardinality(Ahead(u, kind)') = a + (IF w \in Ahead(u, kind)' THEN 1 ELSE 0)
               /\ Cardinality(AtMark(u, kind)) = m + (IF w \in AtMark(u, kind) THEN 1 ELSE 0)
               /\ Cardinality(AtMark(u, kind)') = m + (IF w \in AtMark(u, kind)' THEN 1 ELSE 0)
<1> DEFINE A == Ahead(u, kind) \ {w}
           M == AtMark(u, kind) \ {w}
<1>1. Ahead(u, kind)' \ {w} = A /\ AtMark(u, kind)' \ {w} = M
  BY DEF Ahead, AtMark, Busied
<1>2. IsFiniteSet(Workers)
  BY ConstantsOK
<1>3. /\ Ahead(u, kind) \subseteq Workers /\ Ahead(u, kind)' \subseteq Workers
      /\ AtMark(u, kind) \subseteq Workers /\ AtMark(u, kind)' \subseteq Workers
  BY DEF Ahead, AtMark
<1>4. /\ IsFiniteSet(Ahead(u, kind)) /\ IsFiniteSet(Ahead(u, kind)')
      /\ IsFiniteSet(AtMark(u, kind)) /\ IsFiniteSet(AtMark(u, kind)')
  BY <1>2, <1>3, FS_Subset
<1>5. A \cap M = {}
  BY DEF Ahead, AtMark, Busied
<1>6. /\ IsFiniteSet(Workers \ {w})
      /\ Cardinality(Workers \ {w}) = Cardinality(Workers) - 1 /\ Cardinality(Workers) \in Nat
  BY <1>2, FS_RemoveElement, FS_CardinalityType
<1>7. /\ Cardinality(A) \in Nat /\ Cardinality(M) \in Nat
      /\ Cardinality(A) + Cardinality(M) <= Cardinality(Workers \ {w})
  BY <1>3, <1>5, <1>6, DisjointCount
<1>8. /\ Cardinality(Ahead(u, kind)) = Cardinality(A) + (IF w \in Ahead(u, kind) THEN 1 ELSE 0)
      /\ Cardinality(AtMark(u, kind)) = Cardinality(M) + (IF w \in AtMark(u, kind) THEN 1 ELSE 0)
  BY <1>4, CountOne
<1>9. /\ Cardinality(Ahead(u, kind)') = Cardinality(A) + (IF w \in Ahead(u, kind)' THEN 1 ELSE 0)
      /\ Cardinality(AtMark(u, kind)') = Cardinality(M) + (IF w \in AtMark(u, kind)' THEN 1 ELSE 0)
  BY <1>1, <1>4, CountOne
<1>10. Cardinality(A) + Cardinality(M) + 1 <= Cardinality(Workers)
  BY <1>6, <1>7
<1> HIDE DEF A, M
<1> QED BY <1>7, <1>8, <1>9, <1>10

-----------------------------------------------------------------------------
(* Reminders in the queue                                                  *)

RemindersIn(q) == {i \in DOMAIN q : q[i].kind = Reminder}

LEMMA RemindersInFinite ==
    ASSUME NEW q \in Seq(Job)
    PROVE  IsFiniteSet(RemindersIn(q)) /\ Cardinality(RemindersIn(q)) \in Nat
<1>1. RemindersIn(q) \subseteq 1..Len(q) /\ IsFiniteSet(1..Len(q))
  BY FS_Interval DEF RemindersIn
<1> QED BY <1>1, FS_Subset, FS_CardinalityType

LEMMA AppendReminders ==
    ASSUME NEW q \in Seq(Job), NEW job \in Job
    PROVE  Cardinality(RemindersIn(Append(q, job)))
               <= Cardinality(RemindersIn(q)) + (IF job.kind = Reminder THEN 1 ELSE 0)
<1>1. Append(q, job) \in Seq(Job)
  OBVIOUS
<1>2. CASE job.kind = Reminder
  <2>1. RemindersIn(Append(q, job)) \subseteq RemindersIn(q) \cup {Len(q) + 1}
    BY DEF RemindersIn
  <2> DEFINE S == RemindersIn(q)
  <2>2. IsFiniteSet(S) /\ Cardinality(S) \in Nat
    BY RemindersInFinite
  <2> HIDE DEF S
  <2>3. /\ IsFiniteSet(S \cup {Len(q) + 1})
        /\ Cardinality(S \cup {Len(q) + 1}) =
               IF Len(q) + 1 \in S THEN Cardinality(S) ELSE Cardinality(S) + 1
    BY <2>2, FS_AddElement
  <2>4. Cardinality(RemindersIn(Append(q, job))) <= Cardinality(S \cup {Len(q) + 1})
    BY <2>1, <2>3, FS_Subset DEF S
  <2>5. Cardinality(RemindersIn(Append(q, job))) \in Nat
    BY <1>1, RemindersInFinite
  <2>6. Cardinality(RemindersIn(Append(q, job))) <= Cardinality(S) + 1
    BY <2>2, <2>3, <2>4, <2>5
  <2> QED BY <1>2, <2>6 DEF S
<1>3. CASE job.kind # Reminder
  <2>1. RemindersIn(Append(q, job)) \subseteq RemindersIn(q)
    BY <1>3 DEF RemindersIn
  <2> QED BY <1>1, <1>3, <2>1, RemindersInFinite, FS_Subset
<1> QED BY <1>2, <1>3

LEMMA TailReminders ==
    ASSUME NEW q \in Seq(Job), q # <<>>
    PROVE  Cardinality(RemindersIn(Tail(q))) + (IF Head(q).kind = Reminder THEN 1 ELSE 0)
               <= Cardinality(RemindersIn(q))
<1> DEFINE S == RemindersIn(Tail(q))
           T == RemindersIn(q) \ {1}
           f == [i \in S |-> i + 1]
<1>1. Tail(q) \in Seq(Job) /\ Len(Tail(q)) = Len(q) - 1
      /\ \A i \in 1..Len(Tail(q)) : Tail(q)[i] = q[i + 1]
  OBVIOUS
<1>2. S \subseteq 1..Len(Tail(q))
  BY <1>1 DEF RemindersIn
<1>3. \A i \in S : i + 1 \in T
  BY <1>1, <1>2 DEF RemindersIn
<1>4. \A i, j \in S : f[i] = f[j] => i = j
  BY <1>1, <1>2
<1>5. f \in [S -> T]
  BY <1>3
<1>6. f \in Injection(S, T)
  BY <1>4, <1>5 DEF Injection, IsInjective
<1>7. IsFiniteSet(T) /\ Cardinality(T) \in Nat
  BY RemindersInFinite, CountOne, FS_RemoveElement
<1>8. Cardinality(S) <= Cardinality(T)
  BY <1>6, <1>7, FS_Injection
<1>9. Cardinality(RemindersIn(q)) = Cardinality(T) + (IF 1 \in RemindersIn(q) THEN 1 ELSE 0)
  BY RemindersInFinite, CountOne
<1>10. 1 \in RemindersIn(q) <=> Head(q).kind = Reminder
  BY DEF RemindersIn
<1>11. Cardinality(S) \in Nat
  BY <1>1, RemindersInFinite
<1> HIDE DEF S, T
<1> QED BY <1>7, <1>8, <1>9, <1>10, <1>11 DEF S

\* A job that is given back is in the queue once more, or buried.
LEMMA RetriedReminders ==
    ASSUME NEW q \in Seq(Job), NEW job \in Job
    PROVE  /\ Cardinality(RemindersIn(Retried(q, job))) \in Nat
           /\ Cardinality(RemindersIn(Retried(q, job)))
                  <= Cardinality(RemindersIn(q)) + (IF job.kind = Reminder THEN 1 ELSE 0)
<1> DEFINE again == [job EXCEPT !.attempt = job.attempt + 1]
<1>1. CASE job.attempt < MaxAttempts
  <2>1. job.attempt + 1 \in 1..MaxAttempts
    BY <1>1, ConstantsOK DEF Job
  <2>2. again \in Job /\ again.kind = job.kind
    BY <2>1 DEF Job
  <2>3. Retried(q, job) = Append(q, again)
    BY <1>1 DEF Retried
  <2> HIDE DEF again
  <2>4. Append(q, again) \in Seq(Job)
    BY <2>2
  <2> QED BY <2>2, <2>3, <2>4, AppendReminders, RemindersInFinite
<1>2. CASE ~(job.attempt < MaxAttempts)
  <2>1. Retried(q, job) = q
    BY <1>2 DEF Retried
  <2> QED BY <2>1, RemindersInFinite
<1> QED BY <1>1, <1>2

-----------------------------------------------------------------------------
(* Whom the jobs are for                                                   *)

AllFit(q) == \A i \in DOMAIN q : JobFits(q[i])

LEMMA AppendFits ==
    ASSUME NEW q \in Seq(Job), AllFit(q), NEW job \in Job, JobFits(job)
    PROVE  AllFit(Append(q, job))
BY DEF AllFit

LEMMA TailFits ==
    ASSUME NEW q \in Seq(Job), q # <<>>, AllFit(q)
    PROVE  AllFit(Tail(q)) /\ JobFits(Head(q))
BY DEF AllFit

LEMMA RetriedFits ==
    ASSUME NEW q \in Seq(Job), AllFit(q), NEW job \in Job, JobFits(job)
    PROVE  AllFit(Retried(q, job))
<1> DEFINE again == [job EXCEPT !.attempt = job.attempt + 1]
<1>1. CASE job.attempt < MaxAttempts
  <2>1. job.attempt + 1 \in 1..MaxAttempts
    BY <1>1, ConstantsOK DEF Job
  <2>2. again \in Job /\ again.kind = job.kind /\ again.user = job.user
    BY <2>1 DEF Job
  <2>3. Retried(q, job) = Append(q, again)
    BY <1>1 DEF Retried
  <2> HIDE DEF again
  <2> QED BY <2>2, <2>3, AppendFits DEF JobFits
<1>2. CASE ~(job.attempt < MaxAttempts)
  BY <1>2 DEF Retried
<1> QED BY <1>1, <1>2

\* What one worker does to what it holds, and that it leaves the others alone.
LEMMA StartHolds ==
    ASSUME TypeOK, NEW w \in Workers, Start(w)
    PROVE  /\ \A v \in Workers \ {w} : worker'[v] = worker[v]
           /\ worker'[w] # Idle /\ worker'[w].stage = "mailing"
           /\ worker'[w].job = Head(queue) /\ worker'[w].todo = Targets(Head(queue))
           /\ Head(queue) \in Job /\ Head(queue).kind \in Kinds
<1> DEFINE held == [stage |-> "mailing", job |-> Head(queue),
                    todo |-> Targets(Head(queue)), user |-> NoOne]
<1>1. worker' = [worker EXCEPT ![w] = held]
  BY DEF Start
<1>2. Head(queue) \in Job /\ Head(queue).kind \in Kinds
  BY HeadType DEF Start, Job
<1>3. held # Idle
  BY DEF Idle
<1>4. /\ held.stage = "mailing" /\ held.job = Head(queue)
      /\ held.todo = Targets(Head(queue))
  OBVIOUS
<1> HIDE DEF held
<1> QED BY <1>1, <1>2, <1>3, <1>4 DEF TypeOK

LEMMA BusyIsNotIdle == \A b \in Busy : b # Idle
<1>1. \A b \in Busy : DOMAIN b = {"stage", "job", "todo", "user"}
  BY DEF Busy
<1>2. DOMAIN Idle = {"stage"}
  BY DEF Idle
<1> QED BY <1>1, <1>2

LEMMA SkipHolds ==
    ASSUME TypeOK, NEW w \in Workers, NEW u \in Users, Skip(w, u)
    PROVE  /\ \A v \in Workers \ {w} : worker'[v] = worker[v]
           /\ worker'[w] # Idle /\ worker'[w].job = worker[w].job
           /\ worker'[w].todo = worker[w].todo \ {u} /\ worker'[w].stage = "mailing"
<1> DEFINE held == [worker[w] EXCEPT !.todo = @ \ {u}]
<1>1. worker[w] \in Busy
  BY BusyType DEF Skip
<1>2. worker' = [worker EXCEPT ![w] = held]
  BY <1>1 DEF Skip, TypeOK, Busy
<1>3. /\ held \in Busy /\ held.job = worker[w].job /\ held.todo = worker[w].todo \ {u}
      /\ held.stage = "mailing"
  BY <1>1 DEF Skip, Busy
<1> HIDE DEF held
<1> QED BY <1>2, <1>3, BusyIsNotIdle DEF TypeOK

LEMMA MailHolds ==
    ASSUME TypeOK, NEW w \in Workers, NEW u \in Users, Mail(w, u)
    PROVE  /\ \A v \in Workers \ {w} : worker'[v] = worker[v]
           /\ worker'[w] # Idle /\ worker'[w].job = worker[w].job
           /\ worker'[w].todo = worker[w].todo \ {u}
           /\ worker'[w].stage = "marking" /\ worker'[w].user = u
<1> DEFINE held == [worker[w] EXCEPT !.todo = @ \ {u}, !.user = u, !.stage = "marking"]
<1>1. worker[w] \in Busy
  BY BusyType DEF Mail
<1>2. worker' = [worker EXCEPT ![w] = held]
  BY <1>1 DEF Mail, TypeOK, Busy
<1>3. /\ held \in Busy /\ held.job = worker[w].job /\ held.todo = worker[w].todo \ {u}
      /\ held.stage = "marking" /\ held.user = u
  BY <1>1 DEF Mail, Busy
<1> HIDE DEF held
<1> QED BY <1>2, <1>3, BusyIsNotIdle DEF TypeOK

LEMMA MarkHolds ==
    ASSUME TypeOK, NEW w \in Workers, Mark(w)
    PROVE  /\ \A v \in Workers \ {w} : worker'[v] = worker[v]
           /\ worker'[w] # Idle /\ worker'[w].job = worker[w].job
           /\ worker'[w].todo = worker[w].todo /\ worker'[w].stage = "mailing"
<1> DEFINE held == [worker[w] EXCEPT !.stage = "mailing", !.user = NoOne]
<1>1. worker[w] \in Busy
  BY BusyType DEF Mark
<1>2. worker' = [worker EXCEPT ![w] = held]
  BY <1>1 DEF Mark, TypeOK, Busy
<1>3. /\ held \in Busy /\ held.job = worker[w].job /\ held.todo = worker[w].todo
      /\ held.stage = "mailing"
  BY <1>1 DEF Mark, Busy
<1> HIDE DEF held
<1> QED BY <1>2, <1>3, BusyIsNotIdle DEF TypeOK

\* Finishing and giving back leave the worker idle.
LEMMA Idles ==
    ASSUME TypeOK, NEW w \in Workers, Finish(w) \/ MarkFails(w) \/ Raise(w)
    PROVE  /\ \A v \in Workers \ {w} : worker'[v] = worker[v]
           /\ worker'[w] = Idle
BY GiveBackIdles DEF TypeOK, Finish, MarkFails, Raise

LEMMA InitFits == Init => Fits
<1> SUFFICES ASSUME Init PROVE Fits
  OBVIOUS
<1>1. TypeOK
  BY InitType
<1>2. InvitesFit
  BY DEF Init, InvitesFit, Busied
<1>3. Remembered
  BY DEF Init, Remembered
<1>4. HeldRemembered
  BY DEF Init, HeldRemembered
<1> QED BY <1>1, <1>2, <1>3, <1>4 DEF Fits

LEMMA WebStepFits ==
    ASSUME Fits, WebStep
    PROVE  Fits'
<1>1. TypeOK'
  BY WebStepType DEF Fits
<1>2. worker' = worker
  BY DEF WebStep, AssignTool, Remind, InviteUser, RedeemInvitation, AddParticipant,
         RemoveParticipant
<1>3. \/ queue' = queue
      \/ \E kind \in {Assign, Reminder} : Enqueue(kind, NoOne)
      \/ \E u \in Invitable : Enqueue(Invite, u)
  BY DEF WebStep, AssignTool, Remind, InviteUser, RedeemInvitation, AddParticipant,
         RemoveParticipant
<1>4. AllFit(queue')
  <2>1. queue \in Seq(Job) /\ AllFit(queue)
    BY DEF Fits, TypeOK, InvitesFit, AllFit
  <2>2. ASSUME NEW kind \in Kinds, NEW u \in Users \cup {NoOne}, Enqueue(kind, u),
               kind = Invite => u \in Invitable
        PROVE  AllFit(queue')
    <3> DEFINE job == [kind |-> kind, user |-> u, attempt |-> 1]
    <3>1. job \in Job /\ JobFits(job)
      BY <2>2, ConstantsOK DEF Job, JobFits
    <3>2. queue' = Append(queue, job)
      BY <2>2 DEF Enqueue
    <3> HIDE DEF job
    <3> QED BY <2>1, <3>1, <3>2, AppendFits
  <2> QED BY <1>3, <2>1, <2>2, ConstantsOK DEF Kinds, Assign, Invite, Reminder
<1>5. InvitesFit'
  BY <1>2, <1>4 DEF Fits, InvitesFit, AllFit, Busied
<1>6. Remembered'
  BY DEF Fits, Remembered, WebStep, AssignTool, Remind, InviteUser, RedeemInvitation,
         AddParticipant, RemoveParticipant, tool
<1>7. participants \cup left \subseteq (participants \cup left)'
  BY DEF WebStep, AssignTool, Remind, InviteUser, RedeemInvitation,
         AddParticipant, RemoveParticipant, tool
<1>8. HeldRemembered'
  BY <1>2, <1>7 DEF Fits, HeldRemembered
<1> QED BY <1>1, <1>5, <1>6, <1>8 DEF Fits

\* The queue after a worker's step.
LEMMA WorkerStepQueueFits ==
    ASSUME Fits, NEW w \in Workers, WorkerStep(w) \/ Raise(w)
    PROVE  AllFit(queue')
<1>1. queue \in Seq(Job) /\ AllFit(queue)
  BY DEF Fits, TypeOK, InvitesFit, AllFit
<1>2. CASE Start(w)
  BY <1>1, <1>2, TailFits DEF Start
<1>3. CASE StartFails(w)
  <2>1. Tail(queue) \in Seq(Job) /\ Head(queue) \in Job
    BY <1>3, HeadType DEF Fits, StartFails
  <2> QED BY <1>1, <1>3, <2>1, TailFits, RetriedFits DEF StartFails
<1>4. CASE MarkFails(w) \/ Raise(w)
  <2>1. worker[w] # Idle /\ queue' = Retried(queue, worker[w].job)
    BY <1>4 DEF MarkFails, Raise, GiveBack
  <2>2. worker[w].job \in Job /\ JobFits(worker[w].job)
    BY <2>1, BusyType DEF Fits, InvitesFit, Busied, JobFits
  <2> QED BY <1>1, <2>1, <2>2, RetriedFits
<1>5. CASE (\E u \in Users : Skip(w, u) \/ Mail(w, u)) \/ Mark(w) \/ Finish(w)
  BY <1>1, <1>5 DEF Skip, Mail, Mark, Finish
<1> QED BY <1>2, <1>3, <1>4, <1>5 DEF WorkerStep

LEMMA WorkerStepFits ==
    ASSUME Fits, NEW w \in Workers, WorkerStep(w) \/ Raise(w)
    PROVE  Fits'
<1>1. TypeOK /\ TypeOK'
  BY WorkerStepType DEF Fits
<1>2. AllFit(queue')
  BY WorkerStepQueueFits
<1>3. participants' = participants /\ left' = left
  BY DEF WorkerStep, Start, StartFails, Skip, Mail, Mark, MarkFails, Finish, Raise, tool
<1>4. Remembered'
  BY <1>3 DEF Fits, Remembered, WorkerStep, Start, StartFails, Skip, Mail, Mark, MarkFails,
              Finish, Raise, tool
<1> DEFINE Fitting(v) ==
        Busied(v, Invite) =>
            /\ worker[v].job.user \in Invitable
            /\ worker[v].todo \subseteq {worker[v].job.user}
            /\ worker[v].stage = "marking" => worker[v].user = worker[v].job.user
    Held(v) ==
        worker[v] # Idle /\ worker[v].job.kind # Invite =>
            /\ worker[v].todo \subseteq participants \cup left
            /\ worker[v].stage = "marking" =>
                  worker[v].user \in (participants \cup left) \ worker[v].todo
<1>5. \A v \in Workers : Fitting(v) /\ Held(v)
  BY DEF Fits, InvitesFit, HeldRemembered
<1>6. (\A v \in Workers \ {w} : worker'[v] = worker[v]) /\ Fitting(w)' /\ Held(w)'
  <2>1. CASE Start(w)
    <3>1. /\ \A v \in Workers \ {w} : worker'[v] = worker[v]
          /\ worker'[w] # Idle /\ worker'[w].stage = "mailing"
          /\ worker'[w].job = Head(queue) /\ worker'[w].todo = Targets(Head(queue))
          /\ Head(queue) \in Job /\ Head(queue).kind \in Kinds
      BY <1>1, <2>1, StartHolds
    <3>2. JobFits(Head(queue))
      BY <1>1, <2>1, TailFits DEF Fits, InvitesFit, AllFit, Start, TypeOK
    <3>3. CASE Head(queue).kind = Invite
      BY <1>3, <3>1, <3>2, <3>3
         DEF Busied, JobFits, Targets, Assign, Invite, Reminder
    <3>4. CASE Head(queue).kind # Invite
      <4>1. Targets(Head(queue)) \subseteq participants
        BY <3>1, <3>4 DEF Targets, Kinds, Assign, Invite, Reminder
      <4> QED BY <1>3, <3>1, <3>4, <4>1 DEF Busied
    <3> QED BY <3>3, <3>4
  <2>2. CASE StartFails(w)
    BY <1>3, <1>5, <2>2 DEF StartFails, Busied
  <2>3. ASSUME NEW u \in Users, Skip(w, u)
        PROVE  (\A v \in Workers \ {w} : worker'[v] = worker[v]) /\ Fitting(w)' /\ Held(w)'
    <3>1. worker[w] # Idle
      BY <2>3 DEF Skip
    <3> QED BY <1>1, <1>3, <1>5, <2>3, <3>1, SkipHolds DEF Busied
  <2>4. ASSUME NEW u \in Users, Mail(w, u)
        PROVE  (\A v \in Workers \ {w} : worker'[v] = worker[v]) /\ Fitting(w)' /\ Held(w)'
    <3>1. worker[w] # Idle /\ u \in worker[w].todo
      BY <2>4 DEF Mail
    <3> QED BY <1>1, <1>3, <1>5, <2>4, <3>1, MailHolds DEF Busied
  <2>5. CASE Mark(w)
    <3>1. worker[w] # Idle
      BY <2>5 DEF Mark
    <3> QED BY <1>1, <1>3, <1>5, <2>5, <3>1, MarkHolds DEF Busied
  <2>6. CASE Finish(w) \/ MarkFails(w) \/ Raise(w)
    BY <1>1, <2>6, Idles DEF Busied
  <2> QED BY <2>1, <2>2, <2>3, <2>4, <2>5, <2>6 DEF WorkerStep
<1>7. \A v \in Workers : Fitting(v)' /\ Held(v)'
  BY <1>3, <1>5, <1>6 DEF Busied
<1>8. InvitesFit' /\ HeldRemembered'
  BY <1>2, <1>7 DEF InvitesFit, HeldRemembered, AllFit
<1> QED BY <1>1, <1>4, <1>8 DEF Fits

-----------------------------------------------------------------------------
(* The counts                                                              *)

LEMMA CountTypes ==
    ASSUME NEW u, NEW kind
    PROVE  /\ Cardinality(Ahead(u, kind)) \in Nat
           /\ Cardinality(AtMark(u, kind)) \in Nat
           /\ Cardinality(Workers) \in Nat
           /\ Cardinality(Ahead(u, kind)) <= Cardinality(Workers)
<1>1. IsFiniteSet(Workers)
  BY ConstantsOK
<1>2. Ahead(u, kind) \subseteq Workers /\ AtMark(u, kind) \subseteq Workers
  BY DEF Ahead, AtMark
<1> QED BY <1>1, <1>2, FS_Subset, FS_CardinalityType

LEMMA InitCounted == Init => MailsCounted /\ RemindersCounted
<1> SUFFICES ASSUME Init PROVE MailsCounted /\ RemindersCounted
  OBVIOUS
<1>1. \A u, kind : Ahead(u, kind) = {} /\ AtMark(u, kind) = {}
  BY DEF Init, Ahead, AtMark, Busied
<1>2. QueuedReminders = {}
  BY DEF Init, QueuedReminders
<1>3. Cardinality({}) = 0 /\ Cardinality(Workers) \in Nat
  BY FS_EmptySet, FS_CardinalityType, ConstantsOK
<1>4. MailsCounted
  <2>1. \A u \in Users : mails[u] = 0 /\ faults = 0 /\ Slack(u) \in Nat
    BY DEF Init, Slack
  <2>2. \A u \in Users : Cardinality(Ahead(u, Assign)) = 0 /\ Cardinality(AtMark(u, Assign)) = 0
    BY <1>1, <1>3
  <2> QED BY <1>3, <2>1, <2>2 DEF MailsCounted
<1>5. RemindersCounted
  <2>1. \A u \in Users : reminders[u] = 0 /\ enqueued = 0 /\ faults = 0
    BY DEF Init
  <2>2. \A u \in Users : Cardinality(Ahead(u, Reminder)) = 0 /\ Cardinality(QueuedReminders) = 0
    BY <1>1, <1>2, <1>3
  <2> QED BY <2>1, <2>2 DEF RemindersCounted
<1> QED BY <1>4, <1>5

\* What facilitators do changes the mails of a participant who is added only,
\* and nobody was mailed before he was.
LEMMA WebStepMailsCounted ==
    ASSUME Fits, MailsCounted, WebStep
    PROVE  MailsCounted'
<1> SUFFICES ASSUME NEW u \in Users \ Invitable
             PROVE  /\ u \notin (participants \cup left)' => mails'[u] = 0
                    /\ u \notin (invited \cup left)' =>
                          mails'[u] <= Slack(u) + faults' + Cardinality(AtMark(u, Assign)')
                    /\ mails'[u] + Cardinality(Ahead(u, Assign)')
                          <= Slack(u) + faults' + Cardinality(Workers)
  BY DEF MailsCounted, Slack
<1>1. worker' = worker /\ faults' = faults
  BY DEF WebStep, AssignTool, Remind, InviteUser, RedeemInvitation, AddParticipant,
         RemoveParticipant
<1>2. Ahead(u, Assign)' = Ahead(u, Assign) /\ AtMark(u, Assign)' = AtMark(u, Assign)
  BY <1>1 DEF Ahead, AtMark, Busied
<1>3. /\ u \in participants \cup left => u \in (participants \cup left)'
      /\ u \in invited \cup left => u \in (invited \cup left)'
  BY DEF WebStep, AssignTool, Remind, InviteUser, RedeemInvitation, AddParticipant,
         RemoveParticipant, tool
<1>4. mails[u] \in Nat /\ faults \in Nat /\ Slack(u) \in Nat
  BY DEF Fits, TypeOK, Slack
<1>5. CASE mails'[u] = mails[u]
  BY <1>1, <1>2, <1>3, <1>5 DEF MailsCounted
<1>6. CASE mails'[u] # mails[u]
  <2>1. PICK v \in Users, send \in BOOLEAN : AddParticipant(v, send)
    BY <1>6 DEF WebStep, AssignTool, Remind, InviteUser, RedeemInvitation,
                RemoveParticipant, sent
  <2>2. v = u /\ mails'[u] = mails[u] + 1
    BY <1>6, <2>1 DEF AddParticipant, Fits, TypeOK
  <2>3. u \notin participants \cup left /\ u \in participants'
    BY <2>1, <2>2 DEF AddParticipant
  <2>4. mails[u] = 0 /\ Slack(u) = 1
    BY <2>3 DEF MailsCounted, Fits, Remembered, Slack
  <2> QED BY <1>1, <1>2, <1>4, <2>2, <2>3, <2>4, CountTypes
<1> QED BY <1>5, <1>6

\* A worker adds to the mails of a participant when it turns one that is still
\* ahead into one at the mark, or (in the first part) when it starts.
LEMMA WorkerStepMailsCounted ==
    ASSUME Fits, Fits', MailsCounted, NEW w \in Workers, WorkerStep(w) \/ Raise(w)
    PROVE  MailsCounted'
<1> SUFFICES ASSUME NEW u \in Users \ Invitable
             PROVE  /\ u \notin (participants \cup left)' => mails'[u] = 0
                    /\ u \notin (invited \cup left)' =>
                          mails'[u] <= Slack(u) + faults' + Cardinality(AtMark(u, Assign)')
                    /\ mails'[u] + Cardinality(Ahead(u, Assign)')
                          <= Slack(u) + faults' + Cardinality(Workers)
  BY DEF MailsCounted, Slack
<1> DEFINE A == Ahead(u, Assign)
           M == AtMark(u, Assign)
           Slk == Slack(u)
<1>1. TypeOK /\ mails[u] \in Nat /\ faults \in Nat /\ Slk \in Nat /\ Cardinality(Workers) \in Nat
  <2>1. TypeOK /\ mails[u] \in Nat /\ faults \in Nat /\ Slk \in Nat
    BY DEF Fits, TypeOK, Slack
  <2>2. Cardinality(Workers) \in Nat
    BY FS_CardinalityType, ConstantsOK
  <2> QED BY <2>1, <2>2
<1>2. participants' = participants /\ left' = left /\ invited \subseteq invited'
  BY DEF WorkerStep, Start, StartFails, Skip, Mail, Mark, MarkFails, Finish, Raise, tool
<1>3. /\ u \notin participants \cup left => mails[u] = 0
      /\ u \notin invited \cup left => mails[u] <= Slk + faults + Cardinality(M)
      /\ mails[u] + Cardinality(A) <= Slk + faults + Cardinality(Workers)
  BY DEF MailsCounted
<1>4. \A v \in Workers : Busied(v, Assign) /\ worker[v].stage = "marking" =>
          worker[v].user \notin worker[v].todo
  BY DEF Fits, HeldRemembered, Busied, Assign, Invite
<1>5. ASSUME \A v \in Workers \ {w} : worker'[v] = worker[v]
      PROVE  \E a, m \in Nat :
               /\ a + m + 1 <= Cardinality(Workers)
               /\ Cardinality(A) = a + (IF w \in A THEN 1 ELSE 0)
               /\ Cardinality(A') = a + (IF w \in A' THEN 1 ELSE 0)
               /\ Cardinality(M) = m + (IF w \in M THEN 1 ELSE 0)
               /\ Cardinality(M') = m + (IF w \in M' THEN 1 ELSE 0)
  BY <1>4, <1>5, OneWorkerCounts
\* A step of a worker that mails nobody: it starts nothing on one who is
\* marked or gone, and leaves the mark by marking, or by a failure.
<1>6. ASSUME \A v \in Workers \ {w} : worker'[v] = worker[v], mails' = mails,
             w \in A' => w \in A \/ (u \notin invited \cup left /\ w \notin M),
             w \in M' => w \in M,
             \/ faults' = faults /\ (w \in M => w \in M' \/ u \in (invited \cup left)')
             \/ faults' = faults + 1 /\ w \notin A' /\ w \notin M'
      PROVE  /\ u \notin (participants \cup left)' => mails'[u] = 0
             /\ u \notin (invited \cup left)' => mails'[u] <= Slk + faults' + Cardinality(M')
             /\ mails'[u] + Cardinality(A') <= Slk + faults' + Cardinality(Workers)
  <2>1. PICK a, m \in Nat :
               /\ a + m + 1 <= Cardinality(Workers)
               /\ Cardinality(A) = a + (IF w \in A THEN 1 ELSE 0)
               /\ Cardinality(A') = a + (IF w \in A' THEN 1 ELSE 0)
               /\ Cardinality(M) = m + (IF w \in M THEN 1 ELSE 0)
               /\ Cardinality(M') = m + (IF w \in M' THEN 1 ELSE 0)
    BY <1>5, <1>6
  <2> HIDE DEF A, M, Slk
  <2>2. mails'[u] = mails[u]
    BY <1>6
  <2>3. u \notin (participants \cup left)' => mails'[u] = 0
    BY <1>2, <1>3, <2>2
  <2>4. u \notin (invited \cup left)' => mails'[u] <= Slk + faults' + Cardinality(M')
    BY <1>1, <1>2, <1>3, <1>6, <2>1, <2>2
  <2>5. mails'[u] + Cardinality(A') <= Slk + faults' + Cardinality(Workers)
    <3>1. CASE w \in A' => w \in A
      BY <1>1, <1>3, <1>6, <2>1, <2>2, <3>1
    <3>2. CASE w \in A' /\ w \notin A
      BY <1>1, <1>3, <1>6, <2>1, <2>2, <3>2
    <3> QED BY <3>1, <3>2
  <2> QED BY <2>3, <2>4, <2>5
<1>7. CASE Start(w)
  <2>1. /\ \A v \in Workers \ {w} : worker'[v] = worker[v]
        /\ worker'[w] # Idle /\ worker'[w].stage = "mailing"
        /\ worker'[w].job = Head(queue) /\ worker'[w].todo = Targets(Head(queue))
    BY <1>1, <1>7, StartHolds
  <2>2. w \notin A /\ w \notin M /\ w \notin M'
    BY <1>7, <2>1 DEF Start, Ahead, AtMark, Busied
  <2>3. w \in A' => u \notin invited \cup left
    BY <2>1 DEF Ahead, Busied, Targets, Assign, Invite, Reminder, Fits, Remembered
  <2>4. faults' = faults /\ mails' = mails
    BY <1>7 DEF Start
  <2> QED BY <1>6, <2>1, <2>2, <2>3, <2>4
<1>8. CASE StartFails(w)
  <2>1. worker' = worker /\ faults' = faults /\ mails' = mails
    BY <1>8 DEF StartFails, sent
  <2>2. A' = A /\ M' = M
    BY <2>1 DEF Ahead, AtMark, Busied
  <2> QED BY <1>6, <2>1, <2>2
<1>9. ASSUME NEW v \in Users, Skip(w, v)
      PROVE  /\ u \notin (participants \cup left)' => mails'[u] = 0
             /\ u \notin (invited \cup left)' => mails'[u] <= Slk + faults' + Cardinality(M')
             /\ mails'[u] + Cardinality(A') <= Slk + faults' + Cardinality(Workers)
  <2>1. /\ \A x \in Workers \ {w} : worker'[x] = worker[x]
        /\ worker'[w].job = worker[w].job /\ worker[w].job.kind = Reminder
    BY <1>1, <1>9, SkipHolds DEF Skip, Skips
  <2>2. w \notin A /\ w \notin M /\ w \notin A' /\ w \notin M'
    BY <2>1 DEF Ahead, AtMark, Busied, Assign, Reminder
  <2>3. faults' = faults /\ mails' = mails
    BY <1>9 DEF Skip, sent
  <2> QED BY <1>6, <2>1, <2>2, <2>3
<1>10. ASSUME NEW v \in Users, Mail(w, v)
       PROVE  /\ u \notin (participants \cup left)' => mails'[u] = 0
              /\ u \notin (invited \cup left)' => mails'[u] <= Slk + faults' + Cardinality(M')
              /\ mails'[u] + Cardinality(A') <= Slk + faults' + Cardinality(Workers)
  <2>1. /\ \A x \in Workers \ {w} : worker'[x] = worker[x]
        /\ worker'[w] # Idle /\ worker'[w].job = worker[w].job
        /\ worker'[w].todo = worker[w].todo \ {v}
        /\ worker'[w].stage = "marking" /\ worker'[w].user = v
    BY <1>1, <1>10, MailHolds
  <2>2. /\ worker[w] # Idle /\ worker[w].stage = "mailing" /\ v \in worker[w].todo
        /\ faults' = faults /\ worker[w].job.kind \in Kinds
    BY <1>1, <1>10, BusyType DEF Mail
  <2>3. w \notin M /\ (w \in A' <=> w \in A /\ u # v)
    BY <2>1, <2>2 DEF Ahead, AtMark, Busied
  <2>4. CASE worker[w].job.kind = Assign /\ v = u
    <3>1. mails'[u] = mails[u] + 1
      BY <1>1, <1>10, <2>4 DEF Mail, TypeOK, Assign, Reminder
    <3>2. w \in A /\ w \notin A' /\ w \in M'
      BY <2>1, <2>2, <2>4 DEF Ahead, AtMark, Busied
    <3>3. u \in participants \cup left
      BY <2>2, <2>4 DEF Fits, HeldRemembered, Assign, Invite
    <3>4. PICK a, m \in Nat :
               /\ a + m + 1 <= Cardinality(Workers)
               /\ Cardinality(A) = a + (IF w \in A THEN 1 ELSE 0)
               /\ Cardinality(A') = a + (IF w \in A' THEN 1 ELSE 0)
               /\ Cardinality(M) = m + (IF w \in M THEN 1 ELSE 0)
               /\ Cardinality(M') = m + (IF w \in M' THEN 1 ELSE 0)
      BY <1>5, <2>1
    <3> HIDE DEF A, M, Slk
    <3>5. u \notin (invited \cup left)' => mails'[u] <= Slk + faults' + Cardinality(M')
      BY <1>1, <1>2, <1>3, <2>2, <2>3, <3>1, <3>2, <3>4
    <3>6. mails'[u] + Cardinality(A') <= Slk + faults' + Cardinality(Workers)
      BY <1>1, <1>3, <2>2, <3>1, <3>2, <3>4
    <3> QED BY <1>2, <3>3, <3>5, <3>6
  <2>5. CASE ~(worker[w].job.kind = Assign /\ v = u)
    <3>1. mails'[u] = mails[u]
      <4>1. CASE worker[w].job.kind = Reminder
        BY <1>10, <4>1 DEF Mail
      <4>2. CASE worker[w].job.kind # Reminder
        <5>1. v # u
          BY <2>2, <2>5, <4>2 DEF Fits, InvitesFit, Busied, Kinds, Assign, Invite, Reminder
        <5> QED BY <1>1, <1>10, <4>2, <5>1 DEF Mail, TypeOK
      <4> QED BY <4>1, <4>2
    <3>2. w \notin M'
      BY <2>1, <2>5 DEF AtMark, Busied
    <3>3. PICK a, m \in Nat :
               /\ a + m + 1 <= Cardinality(Workers)
               /\ Cardinality(A) = a + (IF w \in A THEN 1 ELSE 0)
               /\ Cardinality(A') = a + (IF w \in A' THEN 1 ELSE 0)
               /\ Cardinality(M) = m + (IF w \in M THEN 1 ELSE 0)
               /\ Cardinality(M') = m + (IF w \in M' THEN 1 ELSE 0)
      BY <1>5, <2>1
    <3> HIDE DEF A, M, Slk
    <3> QED BY <1>1, <1>2, <1>3, <2>2, <2>3, <3>1, <3>2, <3>3
  <2> QED BY <2>4, <2>5
<1>11. CASE Mark(w)
  <2>1. /\ \A v \in Workers \ {w} : worker'[v] = worker[v]
        /\ worker'[w].job = worker[w].job /\ worker'[w].todo = worker[w].todo
        /\ worker'[w].stage = "mailing" /\ worker[w] # Idle
    BY <1>1, <1>11, MarkHolds DEF Mark
  <2>2. (w \in A' => w \in A) /\ w \notin M'
    BY <2>1 DEF Ahead, AtMark, Busied
  <2>3. w \in M => u \in (invited \cup left)'
    BY <1>2, <1>11 DEF AtMark, Busied, Mark, Fits, HeldRemembered, Assign, Invite, Reminder
  <2>4. faults' = faults /\ mails' = mails
    BY <1>11 DEF Mark, sent
  <2> QED BY <1>6, <2>1, <2>2, <2>3, <2>4
<1>12. CASE Finish(w) \/ MarkFails(w)
  <2>1. (\A v \in Workers \ {w} : worker'[v] = worker[v]) /\ worker'[w] = Idle
    BY <1>1, <1>12, Idles
  <2>2. w \notin A' /\ w \notin M' /\ w \notin M
    BY <1>12, <2>1 DEF Ahead, AtMark, Busied, Finish, MarkFails, MarkFinds, Assign, Invite
  <2>3. faults' = faults /\ mails' = mails
    BY <1>12 DEF Finish, MarkFails, sent
  <2> QED BY <1>6, <2>1, <2>2, <2>3
<1>13. CASE Raise(w)
  <2>1. (\A v \in Workers \ {w} : worker'[v] = worker[v]) /\ worker'[w] = Idle
    BY <1>1, <1>13, Idles
  <2>2. w \notin A' /\ w \notin M'
    BY <2>1 DEF Ahead, AtMark, Busied
  <2>3. faults' = faults + 1 /\ mails' = mails
    BY <1>13 DEF Raise, sent
  <2> QED BY <1>6, <2>1, <2>2, <2>3
<1> QED BY <1>7, <1>8, <1>9, <1>10, <1>11, <1>12, <1>13 DEF WorkerStep

LEMMA WebStepRemindersCounted ==
    ASSUME Fits, RemindersCounted, WebStep
    PROVE  RemindersCounted'
<1> SUFFICES ASSUME NEW u \in Users
             PROVE  reminders'[u] + Cardinality(Ahead(u, Reminder)')
                        + Cardinality(QueuedReminders') <= enqueued' + faults'
  BY DEF RemindersCounted
<1>1. worker' = worker /\ faults' = faults /\ reminders' = reminders
  BY DEF WebStep, AssignTool, Remind, InviteUser, RedeemInvitation, AddParticipant,
         RemoveParticipant, sent
<1>2. Ahead(u, Reminder)' = Ahead(u, Reminder)
  BY <1>1 DEF Ahead, Busied
<1>3. /\ reminders[u] \in Nat /\ faults \in Nat /\ enqueued \in Nat /\ queue \in Seq(Job)
      /\ Cardinality(Ahead(u, Reminder)) \in Nat
      /\ reminders[u] + Cardinality(Ahead(u, Reminder)) + Cardinality(QueuedReminders)
            <= enqueued + faults
  BY CountTypes DEF Fits, TypeOK, RemindersCounted
<1>4. QueuedReminders = RemindersIn(queue) /\ QueuedReminders' = RemindersIn(queue')
  BY DEF QueuedReminders, RemindersIn
<1>5. Cardinality(RemindersIn(queue)) \in Nat
  BY <1>3, RemindersInFinite
<1>6. CASE queue' = queue /\ enqueued' = enqueued
  BY <1>1, <1>2, <1>3, <1>4, <1>6
<1>7. CASE \E kind \in Kinds, v \in Users \cup {NoOne} : Enqueue(kind, v)
  <2>1. PICK kind \in Kinds, v \in Users \cup {NoOne} : Enqueue(kind, v)
    BY <1>7
  <2> DEFINE job == [kind |-> kind, user |-> v, attempt |-> 1]
  <2>2. queue' = Append(queue, job) /\ enqueued' = enqueued + 1 /\ job \in Job
    BY <2>1, ConstantsOK DEF Enqueue, Job
  <2> HIDE DEF job
  <2>3. Append(queue, job) \in Seq(Job)
    BY <1>3, <2>2
  <2>4. Cardinality(RemindersIn(queue')) \in Nat
    BY <2>2, <2>3, RemindersInFinite
  <2>5. Cardinality(RemindersIn(queue')) <= Cardinality(RemindersIn(queue)) + 1
    BY <1>3, <1>5, <2>2, <2>4, AppendReminders
  <2> QED BY <1>1, <1>2, <1>3, <1>4, <1>5, <2>2, <2>4, <2>5
<1>8. \/ queue' = queue /\ enqueued' = enqueued
      \/ \E kind \in Kinds, v \in Users \cup {NoOne} : Enqueue(kind, v)
  BY DEF WebStep, AssignTool, Remind, InviteUser, RedeemInvitation, AddParticipant,
         RemoveParticipant, Kinds
<1> QED BY <1>6, <1>7, <1>8

\* A job of reminders is in the queue, ahead of u in a worker, or past it.
LEMMA WorkerStepRemindersCounted ==
    ASSUME Fits, RemindersCounted, NEW w \in Workers, WorkerStep(w) \/ Raise(w)
    PROVE  RemindersCounted'
<1> SUFFICES ASSUME NEW u \in Users
             PROVE  reminders'[u] + Cardinality(Ahead(u, Reminder)')
                        + Cardinality(QueuedReminders') <= enqueued' + faults'
  BY DEF RemindersCounted
<1> DEFINE A == Ahead(u, Reminder)
           Q == Cardinality(RemindersIn(queue))
           Qn == Cardinality(RemindersIn(queue'))
<1>1. /\ TypeOK /\ TypeOK'
      /\ reminders[u] \in Nat /\ faults \in Nat /\ enqueued \in Nat
      /\ queue \in Seq(Job) /\ queue' \in Seq(Job)
  <2>1. TypeOK /\ TypeOK'
    BY WorkerStepType DEF Fits
  <2> QED BY <2>1 DEF TypeOK
<1>2. Q \in Nat /\ Qn \in Nat
  BY <1>1, RemindersInFinite
<1>3. QueuedReminders = RemindersIn(queue) /\ QueuedReminders' = RemindersIn(queue')
  BY DEF QueuedReminders, RemindersIn
<1>4. reminders[u] + Cardinality(A) + Q <= enqueued + faults
  BY <1>3 DEF RemindersCounted
<1>5. enqueued' = enqueued
  BY DEF WorkerStep, Start, StartFails, Skip, Mail, Mark, MarkFails, Finish, Raise
\* What a step moves: one from the queue to a worker, one from a worker to the
\* mails, or, with a failure, one from a worker to the queue.
<1>6. ASSUME \A v \in Workers \ {w} : worker'[v] = worker[v],
             \/ /\ reminders'[u] = reminders[u] /\ faults' = faults
                /\ \/ Qn + (IF w \in A' THEN 1 ELSE 0) <= Q /\ w \notin A
                   \/ Qn <= Q /\ (w \in A' => w \in A)
             \/ /\ reminders'[u] = reminders[u] + 1 /\ faults' = faults
                /\ Qn <= Q /\ w \in A /\ w \notin A'
             \/ /\ reminders'[u] = reminders[u] /\ faults' = faults + 1
                /\ Qn <= Q + 1 /\ w \notin A'
      PROVE  reminders'[u] + Cardinality(A') + Cardinality(QueuedReminders')
                 <= enqueued' + faults'
  <2>1. \A v \in Workers : Busied(v, Reminder) /\ worker[v].stage = "marking" =>
            worker[v].user \notin worker[v].todo
    BY DEF Fits, HeldRemembered, Busied, Reminder, Invite
  <2>2. PICK a, m \in Nat :
               /\ a + m + 1 <= Cardinality(Workers)
               /\ Cardinality(A) = a + (IF w \in A THEN 1 ELSE 0)
               /\ Cardinality(A') = a + (IF w \in A' THEN 1 ELSE 0)
               /\ Cardinality(AtMark(u, Reminder)) = m + (IF w \in AtMark(u, Reminder) THEN 1 ELSE 0)
               /\ Cardinality(AtMark(u, Reminder)')
                     = m + (IF w \in AtMark(u, Reminder)' THEN 1 ELSE 0)
    BY <1>6, <2>1, OneWorkerCounts
  <2>3. /\ Cardinality(A) = a + (IF w \in A THEN 1 ELSE 0)
        /\ Cardinality(A') = a + (IF w \in A' THEN 1 ELSE 0)
    BY <2>2
  <2>4. Cardinality(QueuedReminders') = Qn
    BY <1>3
  <2> HIDE DEF A, Q, Qn
  <2>5. CASE /\ reminders'[u] = reminders[u] /\ faults' = faults
             /\ \/ Qn + (IF w \in A' THEN 1 ELSE 0) <= Q /\ w \notin A
                \/ Qn <= Q /\ (w \in A' => w \in A)
    BY <1>1, <1>2, <1>4, <1>5, <2>3, <2>4, <2>5
  <2>6. CASE /\ reminders'[u] = reminders[u] + 1 /\ faults' = faults
             /\ Qn <= Q /\ w \in A /\ w \notin A'
    BY <1>1, <1>2, <1>4, <1>5, <2>3, <2>4, <2>6
  <2>7. CASE /\ reminders'[u] = reminders[u] /\ faults' = faults + 1
             /\ Qn <= Q + 1 /\ w \notin A'
    BY <1>1, <1>2, <1>4, <1>5, <2>3, <2>4, <2>7
  <2> QED BY <1>6, <2>5, <2>6, <2>7
<1>7. CASE Start(w)
  <2>1. /\ \A v \in Workers \ {w} : worker'[v] = worker[v]
        /\ worker'[w] # Idle /\ worker'[w].job = Head(queue)
    BY <1>1, <1>7, StartHolds
  <2>2. w \notin A /\ (w \in A' => Head(queue).kind = Reminder)
    BY <1>7, <2>1 DEF Start, Ahead, Busied
  <2>3. Qn + (IF Head(queue).kind = Reminder THEN 1 ELSE 0) <= Q
    BY <1>1, <1>7, TailReminders DEF Start
  <2>4. faults' = faults /\ reminders' = reminders
    BY <1>7 DEF Start
  <2>5. Qn + (IF w \in A' THEN 1 ELSE 0) <= Q
    <3> HIDE DEF A, Q, Qn
    <3> QED BY <1>2, <2>2, <2>3
  <2> QED BY <1>6, <2>1, <2>2, <2>4, <2>5
<1>8. CASE StartFails(w)
  <2>1. worker' = worker /\ faults' = faults /\ reminders' = reminders
    BY <1>8 DEF StartFails, sent
  <2>2. Head(queue) \in Job /\ Tail(queue) \in Seq(Job) /\ queue # <<>>
    BY <1>1, <1>8, HeadType DEF StartFails
  <2> DEFINE Qt == Cardinality(RemindersIn(Tail(queue)))
             one == IF Head(queue).kind = Reminder THEN 1 ELSE 0
  <2>3. Qn <= Qt + one
    BY <1>8, <2>2, RetriedReminders DEF StartFails
  <2>4. Qt + one <= Q
    BY <1>1, <2>2, TailReminders
  <2>5. Qt \in Nat /\ one \in Nat
    BY <2>2, RemindersInFinite
  <2>6. w \in A' => w \in A
    BY <2>1 DEF Ahead, Busied
  <2>7. Qn <= Q
    <3> HIDE DEF A, Q, Qn, Qt, one
    <3> QED BY <1>2, <2>3, <2>4, <2>5
  <2> QED BY <1>6, <2>1, <2>6, <2>7
<1>9. ASSUME NEW v \in Users, Skip(w, v)
      PROVE  reminders'[u] + Cardinality(A') + Cardinality(QueuedReminders')
                 <= enqueued' + faults'
  <2>1. /\ \A x \in Workers \ {w} : worker'[x] = worker[x]
        /\ worker'[w].job = worker[w].job /\ worker'[w].todo = worker[w].todo \ {v}
        /\ worker[w] # Idle
    BY <1>1, <1>9, SkipHolds DEF Skip
  <2>2. w \in A' => w \in A
    BY <2>1 DEF Ahead, Busied
  <2>3. faults' = faults /\ reminders' = reminders /\ Qn <= Q
    BY <1>2, <1>9 DEF Skip, sent
  <2> QED BY <1>6, <2>1, <2>2, <2>3
<1>10. ASSUME NEW v \in Users, Mail(w, v)
       PROVE  reminders'[u] + Cardinality(A') + Cardinality(QueuedReminders')
                  <= enqueued' + faults'
  <2>1. /\ \A x \in Workers \ {w} : worker'[x] = worker[x]
        /\ worker'[w] # Idle /\ worker'[w].job = worker[w].job
        /\ worker'[w].todo = worker[w].todo \ {v}
        /\ worker[w] # Idle /\ v \in worker[w].todo
    BY <1>1, <1>10, MailHolds DEF Mail
  <2>2. faults' = faults /\ Qn <= Q
    BY <1>2, <1>10 DEF Mail
  <2>3. w \in A' <=> w \in A /\ u # v
    BY <2>1 DEF Ahead, Busied
  <2>4. CASE worker[w].job.kind = Reminder /\ v = u
    <3>1. reminders'[u] = reminders[u] + 1
      BY <1>1, <1>10, <2>4 DEF Mail, TypeOK
    <3>2. w \in A /\ w \notin A'
      BY <2>1, <2>3, <2>4 DEF Ahead, Busied
    <3> QED BY <1>6, <2>1, <2>2, <3>1, <3>2
  <2>5. CASE ~(worker[w].job.kind = Reminder /\ v = u)
    <3>1. reminders'[u] = reminders[u]
      BY <1>1, <1>10, <2>5 DEF Mail, TypeOK
    <3> QED BY <1>6, <2>1, <2>2, <2>3, <3>1
  <2> QED BY <2>4, <2>5
<1>11. CASE Mark(w)
  <2>1. /\ \A v \in Workers \ {w} : worker'[v] = worker[v]
        /\ worker'[w].job = worker[w].job /\ worker'[w].todo = worker[w].todo
        /\ worker[w] # Idle
    BY <1>1, <1>11, MarkHolds DEF Mark
  <2>2. w \in A' => w \in A
    BY <2>1 DEF Ahead, Busied
  <2>3. faults' = faults /\ reminders' = reminders /\ Qn <= Q
    BY <1>2, <1>11 DEF Mark, sent
  <2> QED BY <1>6, <2>1, <2>2, <2>3
<1>12. CASE Finish(w)
  <2>1. (\A v \in Workers \ {w} : worker'[v] = worker[v]) /\ worker'[w] = Idle
    BY <1>1, <1>12, Idles
  <2>2. w \notin A'
    BY <2>1 DEF Ahead, Busied
  <2>3. faults' = faults /\ reminders' = reminders /\ Qn <= Q
    BY <1>2, <1>12 DEF Finish, sent
  <2> QED BY <1>6, <2>1, <2>2, <2>3
<1>13. CASE MarkFails(w) \/ Raise(w)
  <2>1. (\A v \in Workers \ {w} : worker'[v] = worker[v]) /\ worker'[w] = Idle
    BY <1>1, <1>13, Idles
  <2>2. w \notin A'
    BY <2>1 DEF Ahead, Busied
  <2>3. /\ worker[w] # Idle /\ queue' = Retried(queue, worker[w].job)
        /\ reminders' = reminders
    BY <1>13 DEF MarkFails, Raise, GiveBack, sent
  <2>4. worker[w].job \in Job
    BY <1>1, <2>3, BusyType
  <2>5. Qn <= Q + (IF worker[w].job.kind = Reminder THEN 1 ELSE 0)
    BY <1>1, <2>3, <2>4, RetriedReminders
  <2>6. CASE MarkFails(w)
    <3>1. faults' = faults /\ worker[w].job.kind # Reminder
      BY <2>6 DEF MarkFails, MarkFinds, Invite, Reminder
    <3>2. Qn <= Q
      <4> HIDE DEF A, Q, Qn
      <4> QED BY <1>2, <2>5, <3>1
    <3> QED BY <1>6, <2>1, <2>2, <2>3, <3>1, <3>2
  <2>7. CASE Raise(w)
    <3>1. faults' = faults + 1
      BY <2>7 DEF Raise
    <3>2. Qn <= Q + 1
      <4> HIDE DEF A, Q, Qn
      <4> QED BY <1>2, <2>5
    <3> QED BY <1>6, <2>1, <2>2, <2>3, <3>1, <3>2
  <2> QED BY <1>13, <2>6, <2>7
<1> QED BY <1>7, <1>8, <1>9, <1>10, <1>11, <1>12, <1>13 DEF WorkerStep

Counted == Fits /\ MailsCounted /\ RemindersCounted

LEMMA NextCounted ==
    ASSUME Counted, [Next]_vars
    PROVE  Counted'
<1>1. CASE WebStep
  BY <1>1, WebStepFits, WebStepMailsCounted, WebStepRemindersCounted DEF Counted
<1>2. ASSUME NEW w \in Workers, WorkerStep(w) \/ Raise(w) PROVE Counted'
  <2>1. Fits'
    BY <1>2, WorkerStepFits DEF Counted
  <2>2. MailsCounted'
    BY <1>2, <2>1, WorkerStepMailsCounted DEF Counted
  <2>3. RemindersCounted'
    BY <1>2, WorkerStepRemindersCounted DEF Counted
  <2> QED BY <2>1, <2>2, <2>3 DEF Counted
<1>3. CASE UNCHANGED vars
  <2>1. Fits'
    BY <1>3 DEF vars, tool, sent, Counted, Fits, TypeOK, InvitesFit, Remembered, HeldRemembered,
                Busied
  <2>2. \A u, kind : Ahead(u, kind)' = Ahead(u, kind) /\ AtMark(u, kind)' = AtMark(u, kind)
    BY <1>3 DEF vars, Ahead, AtMark, Busied
  <2>3. QueuedReminders' = QueuedReminders
    BY <1>3 DEF vars, QueuedReminders
  <2>4. MailsCounted'
    BY <1>3, <2>2 DEF vars, tool, sent, Counted, MailsCounted, Slack
  <2>5. RemindersCounted'
    BY <1>3, <2>2, <2>3 DEF vars, sent, Counted, RemindersCounted
  <2> QED BY <2>1, <2>4, <2>5 DEF Counted
<1> QED BY <1>1, <1>2, <1>3 DEF Next

LEMMA CountedBounds == ASSUME Counted PROVE DuplicatesBounded
<1>1. ASSUME NEW u \in Users \ Invitable
      PROVE  mails[u] <= Cardinality(Workers) + faults + (IF u \in Initial THEN 0 ELSE 1)
  <2>1. /\ mails[u] \in Nat /\ faults \in Nat
        /\ mails[u] + Cardinality(Ahead(u, Assign)) <= Slack(u) + faults + Cardinality(Workers)
    BY DEF Counted, Fits, TypeOK, MailsCounted
  <2>2. Cardinality(Ahead(u, Assign)) \in Nat /\ Cardinality(Workers) \in Nat
    BY CountTypes
  <2> QED BY <2>1, <2>2 DEF Slack
<1>2. ASSUME NEW u \in Users
      PROVE  reminders[u] <= enqueued + faults
  <2>1. /\ reminders[u] \in Nat /\ faults \in Nat /\ enqueued \in Nat /\ queue \in Seq(Job)
        /\ reminders[u] + Cardinality(Ahead(u, Reminder)) + Cardinality(QueuedReminders)
              <= enqueued + faults
    BY DEF Counted, Fits, TypeOK, RemindersCounted
  <2>2. QueuedReminders = RemindersIn(queue)
    BY DEF QueuedReminders, RemindersIn
  <2>3. Cardinality(Ahead(u, Reminder)) \in Nat /\ Cardinality(QueuedReminders) \in Nat
    BY <2>1, <2>2, CountTypes, RemindersInFinite
  <2> QED BY <2>1, <2>3
<1> QED BY <1>1, <1>2 DEF DuplicatesBounded

\* However jobs overlap, fail and repeat, a participant who was never invited
\* by e-mail address gets one assignment mail per thread and per failure at
\* most, and nobody more reminders than were asked for, and one per failure.
THEOREM DuplicatesStayBounded == Spec => []DuplicatesBounded
<1>1. Init => Counted
  BY InitFits, InitCounted DEF Counted
<1>2. Counted /\ [Next]_vars => Counted'
  BY NextCounted
<1>3. Counted => DuplicatesBounded
  BY CountedBounds
<1> QED BY <1>1, <1>2, <1>3, PTL DEF Spec
=============================================================================
