------------------------ MODULE NotificationDelivery ------------------------
(***************************************************************************)
(* Notifications from the planner to the provider: the runs and deliveries *)
(* a planner writes, the notification worker that sends a run's deliveries *)
(* one by one and commits their outcomes in one transaction, the e-mail    *)
(* reputation it feeds, administrators, the stale sweep, crashes.          *)
(*                                                                         *)
(* A provider's answer is an action of its own: everything else may happen *)
(* between two of them.  Retry delays and the sweep's 30 minutes pass at   *)
(* any moment.                                                             *)
(***************************************************************************)
EXTENDS Integers, FiniteSets

CONSTANTS Replies,        \* events that mail a commenter: run and delivery in one transaction
          Externals,      \* events for a webhook or chat: run, then delivery
          Digests,        \* events of a recipient with a digest mode: a run only
          MaxDeliveries,  \* bound: delivery rows
          ClaimLimit,     \* runs claimed per tick
          MaxAttempts,    \* maxAttempts of a reply's run
          Threshold,      \* suppressionThreshold
          MaxPlans,       \* bound: times events are planned
          MaxAdmin,       \* bound: retries and cancels by hand
          MaxCrashes      \* bound

Event == Replies \cup Externals \cup Digests

ASSUME DeliveryAssumption ==
    /\ Replies \cap Externals = {} /\ Replies \cap Digests = {}
    /\ Externals \cap Digests = {}
    /\ "nothing" \notin Event
    /\ MaxDeliveries \in Nat /\ ClaimLimit \in Nat /\ Threshold \in Nat \ {0}
    /\ MaxAttempts \in Nat \ {0}
    /\ MaxPlans \in Nat /\ MaxAdmin \in Nat /\ MaxCrashes \in Nat

Delivery == 1..MaxDeliveries

\* What a reply is planned for: that it came in approved, or that it was approved later.
Source == {"stored", "moderated"}
Nothing == "nothing"

RunStatus == {"absent", "queued", "running", "retrying", "succeeded", "failed", "cancelled"}

\* classifyChannelError: only "temporary" may be repeated; "rejected" (a
\* permanent recipient error) counts against the address, "refused" (config,
\* credentials, template) does not.
Failure == {"temporary", "rejected", "refused"}
Terminal == Failure \ {"temporary"}
Outcome == Failure \cup {"accepted", "none"}

\* create() defaults to one attempt; reply mails ask for more.
AttemptsOf(e) == IF e \in Replies THEN MaxAttempts ELSE 1

VARIABLES
    run,        \* task_runs.status of the event's run
    attempts,   \* task_runs.attempts
    decided,    \* replies and sources for which a decision not to send was recorded
    made,       \* deliveries inserted so far
    owner,      \* notification_deliveries.task_run_id
    dstat,      \* notification_deliveries.status
    batch,      \* runs the worker claimed and has not started
    seen,       \* attempts in the claimed record
    current,    \* the run being sent
    listed,     \* its deliveries, as listed when the attempt began
    outcome,    \* what the provider answered in this attempt
    feedback,   \* reputation update owed after the commit
    score, suppressed,      \* the commenter address's reputation
    up,                     \* the process runs
    plans, admin, crashes,  \* bounds
    accepted,   \* history: copies the provider took
    excused,    \* history: of these, copies the worker did not learn of or forgot
    sends,      \* history: calls of send()
    byHand,     \* history: retries by hand
    granted,    \* history: automatic retries
    bounces     \* history: permanent rejections of the address

runs     == <<run, attempts, decided>>
rows     == <<made, owner, dstat>>
worker   == <<batch, seen, current, listed, outcome>>
address  == <<feedback, score, suppressed>>
bounds   == <<plans, admin, crashes>>
provider == <<accepted, excused, sends, bounces>>
asked    == <<byHand, granted>>
vars == <<runs, rows, worker, address, up, bounds, provider, asked>>

Init ==
    /\ run = [e \in Event |-> "absent"]
    /\ attempts = [e \in Event |-> 0]
    /\ decided = {}
    /\ made = 0
    /\ owner = [d \in Delivery |-> Nothing]
    /\ dstat = [d \in Delivery |-> "queued"]
    /\ batch = {}
    /\ seen = [e \in Event |-> 0]
    /\ current = Nothing
    /\ listed = {}
    /\ outcome = [d \in Delivery |-> "none"]
    /\ feedback = "none" /\ score = 0 /\ suppressed = FALSE
    /\ up = TRUE
    /\ plans = 0 /\ admin = 0 /\ crashes = 0
    /\ accepted = [d \in Delivery |-> 0]
    /\ excused = [d \in Delivery |-> 0]
    /\ sends = [d \in Delivery |-> 0]
    /\ byHand = [e \in Event |-> 0]
    /\ granted = [e \in Event |-> 0]
    /\ bounces = 0

DeliveriesOf(e) == {d \in Delivery : owner[d] = e}

-----------------------------------------------------------------------------
(* Planning.  An event may be planned again: a comment is held back and    *)
(* approved once more, a run fails a second time.                          *)

Planning == up /\ plans < MaxPlans /\ plans' = plans + 1

AddDelivery(e) ==
    /\ made < MaxDeliveries
    /\ made' = made + 1
    /\ owner' = [owner EXCEPT ![made + 1] = e]
    /\ UNCHANGED dstat

\* create(): the idempotency key finds the event's run or inserts one.
FindOrQueue(e) == run' = [run EXCEPT ![e] = IF @ = "absent" THEN "queued" ELSE @]

\* A slip: the reply's key is not looked up.
PlanReplyTwice(e, src) ==
    /\ Planning
    /\ <<e, src>> \notin decided
    /\ ~suppressed
    /\ run' = [run EXCEPT ![e] = "queued"]
    /\ AddDelivery(e)
    /\ UNCHANGED <<attempts, decided, worker, address, up, admin, crashes, provider, asked>>

\* The commenter's reply mail.  A recorded decision not to send it is final:
\* mail is switched off, the commenter unsubscribed, ... or the address is
\* suppressed.  Otherwise the idempotency key makes the rest happen once.
PlanReply(e, src) ==
    /\ Planning
    /\ <<e, src>> \notin decided
    /\ \/ /\ decided' = decided \cup {<<e, src>>}
          /\ UNCHANGED <<run, rows>>
       \/ /\ ~suppressed /\ run[e] = "absent"
          /\ FindOrQueue(e)
          /\ AddDelivery(e)
          /\ UNCHANGED decided
    /\ UNCHANGED <<attempts, worker, address, up, admin, crashes, provider, asked>>

\* A webhook or chat target, and a failed run's notification: the run is found
\* or inserted, then a delivery is inserted whatever was found.
PlanExternal(e) ==
    /\ Planning
    /\ FindOrQueue(e)
    /\ AddDelivery(e)
    /\ UNCHANGED <<attempts, decided, worker, address, up, admin, crashes, provider, asked>>

PlanDigest(e) ==
    /\ Planning
    /\ FindOrQueue(e)
    /\ UNCHANGED <<attempts, decided, rows, worker, address, up, admin, crashes, provider, asked>>

-----------------------------------------------------------------------------
(* The notification worker.                                                *)

Runnable == {e \in Event : run[e] \in {"queued", "retrying"}}

Claim ==
    /\ up /\ batch = {} /\ current = Nothing /\ feedback = "none"
    /\ \E S \in SUBSET Runnable :
        /\ S # {}
        /\ Cardinality(S) = ClaimLimit
            \/ (S = Runnable /\ Cardinality(S) < ClaimLimit)
        /\ batch' = S
        /\ run' = [e \in Event |-> IF e \in S THEN "running" ELSE run[e]]
        /\ seen' = [e \in Event |-> IF e \in S THEN attempts[e] ELSE seen[e]]
    /\ UNCHANGED <<attempts, decided, rows, current, listed, outcome, address, up,
                   bounds, provider, asked>>

\* The run's deliveries are listed once and its status is not read again.
Start(e) ==
    /\ up /\ current = Nothing /\ feedback = "none" /\ e \in batch
    /\ current' = e
    /\ batch' = batch \ {e}
    /\ listed' = DeliveriesOf(e)
    /\ UNCHANGED <<runs, rows, seen, outcome, address, up, bounds, provider, asked>>

\* A slip: deliveries recorded as sent are not left out.
TodoAgain == {d \in listed : outcome[d] = "none"}

\* What this attempt still has to send.
Todo == {d \in listed : dstat[d] # "sent" /\ outcome[d] = "none"}

Answered(d, o) ==
    /\ up /\ d \in Todo
    /\ outcome' = [outcome EXCEPT ![d] = o]
    /\ sends' = [sends EXCEPT ![d] = @ + 1]
    /\ UNCHANGED <<runs, rows, batch, seen, current, listed, address, up, bounds, asked>>

Accept(d) ==
    /\ Answered(d, "accepted")
    /\ accepted' = [accepted EXCEPT ![d] = @ + 1]
    /\ UNCHANGED <<excused, bounces>>

\* The provider takes the message but its answer is lost: a time-out, which
\* the worker classifies as temporary.
AcceptUnheard(d) ==
    /\ Answered(d, "temporary")
    /\ accepted' = [accepted EXCEPT ![d] = @ + 1]
    /\ excused' = [excused EXCEPT ![d] = @ + 1]
    /\ UNCHANGED bounces

Refuse(d) ==
    /\ \E o \in Failure :
        /\ Answered(d, o)
        /\ bounces' = IF o = "rejected" /\ owner[d] \in Replies THEN bounces + 1 ELSE bounces
    /\ UNCHANGED <<accepted, excused>>

Answers(o) == \E d \in Delivery : outcome[d] = o
Failed == listed = {} \/ \E o \in Failure : Answers(o)
GivesUp == listed = {} \/ \E o \in Terminal : Answers(o)

\* The verdict on the attempt, taken with the attempts of the claimed record.
Verdict ==
    IF ~Failed THEN "succeeded"
    ELSE IF ~GivesUp /\ seen[current] + 1 < AttemptsOf(current) THEN "retrying"
    ELSE "failed"

\* Only a commenter's address has a reputation, and a reply has one delivery.
Owed ==
    IF current \notin Replies THEN "none"
    ELSE IF Answers("accepted") THEN "success"
    ELSE IF Answers("rejected") THEN "failure"
    ELSE "none"

Grants == Verdict = "retrying"

\* The attempt is over: the worker forgets the record and its outcomes.
Leaves ==
    /\ seen' = [seen EXCEPT ![current] = 0]
    /\ outcome' = [d \in Delivery |-> "none"]
    /\ current' = Nothing /\ listed' = {}
    /\ UNCHANGED batch

\* completeNotificationAttempt, one transaction, whatever the row's status is
\* by now; then the log is written, then the reputation updated.
Commit ==
    /\ up /\ current # Nothing /\ Todo = {}
    /\ dstat' = [d \in Delivery |->
                   CASE outcome[d] = "accepted" -> "sent"
                     [] outcome[d] \in Failure -> "failed"
                     [] OTHER -> dstat[d]]
    /\ run' = [run EXCEPT ![current] = Verdict]
    /\ attempts' = [attempts EXCEPT ![current] = @ + 1]
    /\ granted' = IF Grants THEN [granted EXCEPT ![current] = @ + 1] ELSE granted
    /\ feedback' = Owed
    /\ Leaves
    /\ UNCHANGED <<decided, made, owner, score, suppressed, up, bounds, provider, byHand>>

\* A slip: any failure counts against the address twice.
RateCountsDouble ==
    /\ up /\ feedback # "none"
    /\ score' = IF feedback = "success" THEN 0 ELSE score + 2
    /\ suppressed' = (feedback = "failure" /\ score' >= Threshold)
    /\ feedback' = "none"
    /\ UNCHANGED <<runs, rows, worker, up, bounds, provider, asked>>

\* recordSuccess clears the score; recordRecipientFailure raises it and
\* suppresses the address from the threshold on.
Rate ==
    /\ up /\ feedback # "none"
    /\ score' = IF feedback = "success" THEN 0 ELSE score + 1
    /\ suppressed' = (feedback = "failure" /\ score' >= Threshold)
    /\ feedback' = "none"
    /\ UNCHANGED <<runs, rows, worker, up, bounds, provider, asked>>

-----------------------------------------------------------------------------
(* The sweep, administrators, time, the process.                           *)

\* Suppression lasts seven days; the score stays.
Expire ==
    /\ suppressed
    /\ suppressed' = FALSE
    /\ UNCHANGED <<runs, rows, worker, feedback, score, up, bounds, provider, asked>>

\* A slip: the sweep is not wired.
SweepNever(e) == FALSE /\ UNCHANGED vars

\* A slip: a stale run is handed out again.
SweepRequeues(e) ==
    /\ up /\ run[e] = "running"
    /\ run' = [run EXCEPT ![e] = "queued"]
    /\ UNCHANGED <<attempts, decided, rows, worker, address, up, bounds, provider, asked>>

\* markStaleRuns; a notification run has no policy and no heartbeat.
Sweep(e) ==
    /\ up /\ run[e] = "running"
    /\ run' = [run EXCEPT ![e] = "failed"]
    /\ attempts' = [attempts EXCEPT ![e] = @ + 1]
    /\ UNCHANGED <<decided, rows, worker, address, up, bounds, provider, asked>>

AdminActs(e) == up /\ run[e] # "absent" /\ admin < MaxAdmin /\ admin' = admin + 1

Cancel(e) ==
    /\ AdminActs(e)
    /\ run' = [run EXCEPT ![e] = "cancelled"]
    /\ UNCHANGED <<attempts, decided, rows, worker, address, up, plans, crashes,
                   provider, asked>>

Retry(e) ==
    /\ AdminActs(e)
    /\ run' = [run EXCEPT ![e] = "retrying"]
    /\ attempts' = [attempts EXCEPT ![e] = @ + 1]
    /\ byHand' = [byHand EXCEPT ![e] = @ + 1]
    /\ UNCHANGED <<decided, rows, worker, address, up, plans, crashes, provider, granted>>

\* What the worker knows and has not committed is lost with the process.
Dies ==
    /\ up /\ crashes < MaxCrashes
    /\ up' = FALSE /\ crashes' = crashes + 1
    /\ batch' = {} /\ current' = Nothing /\ listed' = {}
    /\ seen' = [e \in Event |-> 0]
    /\ outcome' = [d \in Delivery |-> "none"]
    /\ feedback' = "none"
    /\ excused' = [d \in Delivery |->
                     excused[d] + IF outcome[d] = "accepted" THEN 1 ELSE 0]
    /\ UNCHANGED <<attempts, decided, rows, score, suppressed, accepted, sends, bounces,
                   admin, asked>>

Crash == Dies /\ UNCHANGED <<run, plans>>

\* The process dies between the run and its delivery.
CrashInPlan(e) == Planning /\ FindOrQueue(e) /\ Dies

Restart ==
    /\ ~up /\ up' = TRUE
    /\ UNCHANGED <<runs, rows, worker, address, bounds, provider, asked>>

-----------------------------------------------------------------------------
WorkerStep ==
    \/ \E e \in Event : Start(e)
    \/ \E d \in Delivery : Accept(d) \/ AcceptUnheard(d) \/ Refuse(d)
    \/ Commit
    \/ Rate

Next ==
    \/ \E e \in Replies, src \in Source : PlanReply(e, src)
    \/ \E e \in Externals : PlanExternal(e) \/ CrashInPlan(e)
    \/ \E e \in Digests : PlanDigest(e)
    \/ Claim \/ WorkerStep
    \/ \E e \in Event : Sweep(e) \/ Cancel(e) \/ Retry(e)
    \/ Expire \/ Crash \/ Restart

\* The worker's and the sweep's timers fire, providers answer (a client
\* time-out at the latest), a supervisor restarts the process.
Fairness ==
    /\ WF_vars(Claim) /\ WF_vars(WorkerStep) /\ WF_vars(Restart)
    /\ \A e \in Event : WF_vars(Sweep(e))

Spec == Init /\ [][Next]_vars
FairSpec == Spec /\ Fairness
-----------------------------------------------------------------------------
(* Properties.                                                             *)

\* Every row, the worker's memory and every count has its type.
TypeOK ==
    /\ run \in [Event -> RunStatus]
    /\ attempts \in [Event -> Nat]
    /\ decided \subseteq Replies \X Source
    /\ made \in 0..MaxDeliveries
    /\ owner \in [Delivery -> Event \cup {Nothing}]
    /\ dstat \in [Delivery -> {"queued", "sent", "failed"}]
    /\ batch \subseteq Event
    /\ seen \in [Event -> Nat]
    /\ current \in Event \cup {Nothing}
    /\ listed \subseteq Delivery
    /\ outcome \in [Delivery -> Outcome]
    /\ feedback \in {"none", "success", "failure"}
    /\ score \in Nat /\ suppressed \in BOOLEAN
    /\ up \in BOOLEAN
    /\ plans \in Nat /\ admin \in Nat /\ crashes \in Nat
    /\ accepted \in [Delivery -> Nat]
    /\ excused \in [Delivery -> Nat]
    /\ sends \in [Delivery -> Nat]
    /\ byHand \in [Event -> Nat]
    /\ granted \in [Event -> Nat]
    /\ bounces \in Nat

\* A delivery recorded as sent stays so: no late commit of another attempt, no
\* retry by hand of a finished run and no second planning reopens it.
SentIsFinal ==
    [][\A d \in Delivery : dstat[d] = "sent" => dstat'[d] = "sent"]_vars

Promise == INSTANCE AtLeastOnce WITH
    Message <- Delivery, copies <- accepted, excuses <- excused,
    recorded <- {d \in Delivery : dstat[d] = "sent"}
\* The recipient's promise (completeNotificationAttempt, and the skipping of
\* sent deliveries): a second copy of a delivery only if the worker never
\* learned that the provider took the first one.
ImplementsAtLeastOnce == Promise!Spec

\* A delivery is tried at most maxAttempts times, plus once per retry by hand:
\* neither crashes, sweeps nor re-planning add an attempt.
SendsBounded ==
    \A d \in Delivery : owner[d] \in Event =>
        sends[d] <= AttemptsOf(owner[d]) + byHand[owner[d]]

\* A reply's run that says it succeeded has sent its mail.
SucceededMeansSent ==
    \A e \in Replies : run[e] = "succeeded" =>
        \E d \in DeliveriesOf(e) : dstat[d] = "sent"

\* A commenter is mailed about an event through one delivery at most, however
\* often the comment is approved.
OneMailPerReply ==
    \A c, d \in Delivery : owner[c] = owner[d] /\ owner[d] \in Replies => c = d

\* An address is suppressed only after the provider has rejected it Threshold
\* times, also when crashes lose some of the feedback.
SuppressionEarned == suppressed => bounces >= Threshold

\* Every run that waits is brought to an end, by the worker or by the sweep.
PendingEventuallySettles ==
    \A e \in Event :
        run[e] \in {"queued", "running", "retrying"} ~>
            run[e] \in {"succeeded", "failed", "cancelled"}

=============================================================================
