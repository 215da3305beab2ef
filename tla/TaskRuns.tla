------------------------------ MODULE TaskRuns ------------------------------
(***************************************************************************)
(* The task_runs table and the actors that move its rows: the in-process   *)
(* TaskRunWorker and NotificationWorker that claim batches and execute     *)
(* them one row at a time, the scheduler's stale sweep, the administrators *)
(* who cancel and retry, retention, and the process that closes, crashes   *)
(* and restarts.                                                           *)
(*                                                                         *)
(* better-sqlite3 is synchronous, so a handler that awaits only the        *)
(* database runs to its end before another timer or request is served: it  *)
(* is one action here.  The awaits that do let others in are the task's    *)
(* own run() and a channel's send(): they separate Begin from Finish.      *)
(* Time is untimed: a runAfter comes due and an updatedAt grows stale at   *)
(* any moment.                                                             *)
(***************************************************************************)
EXTENDS Integers, FiniteSets

CONSTANTS MaxRuns,      \* bound: rows ever inserted
          Kinds,        \* the kinds of run in play
          ClaimLimit,   \* rows a worker claims per tick
          MaxAttempts,  \* maxAttempts of a notification run
          Retain,       \* retentionCount of the scheduled task
          MaxAdmin,     \* bound: cancels and retries by hand
          MaxOutages    \* bound: closes and crashes

\* What the properties tell apart in a run's type: an ordinary task; one whose
\* service the runner's wiring omits; the daily digest, whose category is
\* notification but which has no delivery; a notification with deliveries.
AllKinds == {"plain", "unserviced", "digest", "delivery"}

ASSUME TaskRunsAssumption ==
    /\ MaxRuns \in Nat /\ ClaimLimit \in Nat /\ Retain \in Nat
    /\ MaxAttempts \in Nat \ {0}
    /\ MaxAdmin \in Nat /\ MaxOutages \in Nat
    /\ Kinds \subseteq AllKinds

RunId == 1..MaxRuns
Nobody == 0
TaskWorker == "taskRunWorker"
NotifyWorker == "notificationWorker"
Worker == {TaskWorker, NotifyWorker}

Claimable == {"queued", "delayed", "retrying"}
Settled == {"succeeded", "failed", "blocked", "skipped", "suppressed", "cancelled"}
\* "absent": not inserted yet, or deleted by retention.
Status == Claimable \cup Settled \cup {"running", "absent"}

\* The claim scopes of the two workers partition the categories.
ServedBy(k) == IF k \in {"digest", "delivery"} THEN NotifyWorker ELSE TaskWorker

VARIABLES
    created,    \* rows inserted so far; ids are given in creation order
    status,     \* task_runs.status
    kind,       \* the run's type
    scheduled,  \* TRUE: the run belongs to the (one) scheduled task
    due,        \* runAfter has passed
    stale,      \* updatedAt lies more than staleAfterMs back
    attempts,   \* task_runs.attempts
    policy,     \* failure notification: "off", "armed", or "planned" once enqueued
    seen,       \* attempts in the record a worker claimed
    held,       \* per worker: claimed rows of the current tick not finished yet
    current,    \* per worker: the row whose run() or send() is in flight
    server,     \* "up", closing ("stopNotify", "stopTask") or "down"
    admin, outages,                 \* bounds
    requested, begun, autoRetried   \* history: executions asked for, begun, retried

row    == <<created, kind, scheduled, policy>>
memory == <<held, current, seen>>
history == <<requested, begun, autoRetried>>
bounds == <<admin, outages>>
vars == <<row, status, due, stale, attempts, memory, server, bounds, history>>

Init ==
    /\ created = 0
    /\ status = [r \in RunId |-> "absent"]
    /\ kind = [r \in RunId |-> "plain"]
    /\ scheduled = [r \in RunId |-> FALSE]
    /\ due = [r \in RunId |-> TRUE]
    /\ stale = [r \in RunId |-> FALSE]
    /\ attempts = [r \in RunId |-> 0]
    /\ policy = [r \in RunId |-> "off"]
    /\ seen = [r \in RunId |-> 0]
    /\ held = [w \in Worker |-> {}]
    /\ current = [w \in Worker |-> Nobody]
    /\ server = "up"
    /\ admin = 0 /\ outages = 0
    /\ requested = [r \in RunId |-> 0]
    /\ begun = [r \in RunId |-> 0]
    /\ autoRetried = [r \in RunId |-> 0]

-----------------------------------------------------------------------------
(* Creating runs.                                                          *)

\* The columns of the row inserted as created + 1, its status aside.
NewRow(k, isScheduled, isDue) ==
    LET r == created + 1 IN
    /\ r \in RunId
    /\ created' = r
    /\ kind' = [kind EXCEPT ![r] = k]
    /\ scheduled' = [scheduled EXCEPT ![r] = isScheduled]
    /\ due' = [due EXCEPT ![r] = isDue]
    /\ requested' = [requested EXCEPT ![r] = 1]

\* A run is enqueued: by a service, an administrator or the scheduler's tick.
\* Only a scheduled run snapshots a failure-notification policy.
Enqueue(k, isScheduled, isDue, notice) ==
    /\ server # "down"
    /\ notice = "armed" => isScheduled
    /\ isScheduled => isDue /\ k # "delivery"
    /\ NewRow(k, isScheduled, isDue)
    /\ policy' = [policy EXCEPT ![created + 1] = notice]
    /\ status' = [status EXCEPT ![created + 1] =
                     IF isDue THEN "queued" ELSE "delayed"]
    /\ UNCHANGED <<stale, attempts, memory, server, bounds, begun, autoRetried>>

\* "Run now" on the scheduled task: the new run, then retention over all its
\* runs, whatever their status, the new one included.
RunScheduled(k, notice) ==
    LET family == {r \in RunId : scheduled[r] /\ status[r] # "absent"} \cup {created + 1}
        kept   == {r \in family : Cardinality({q \in family : q > r}) < Retain}
    IN  /\ server = "up"
        /\ k # "delivery"
        /\ NewRow(k, TRUE, TRUE)
        /\ policy' = [policy EXCEPT ![created + 1] = notice]
        /\ status' = [r \in RunId |->
                        CASE r \in family \ kept -> "absent"
                          [] r = created + 1 /\ r \in kept -> "queued"
                          [] OTHER -> status[r]]
        /\ stale' = [r \in RunId |-> stale[r] /\ r \notin family \ kept]
        /\ UNCHANGED <<attempts, memory, server, bounds, begun, autoRetried>>

-----------------------------------------------------------------------------
(* A worker's tick.                                                        *)

\* A worker still ticks while the close hook waits for the ones before it.
Ticking(w) == server \in (IF w = TaskWorker THEN {"up", "stopNotify"} ELSE {"up"})

Runnable(w) ==
    {r \in RunId : status[r] \in Claimable /\ due[r] /\ ServedBy(kind[r]) = w}

\* claimRunnable: up to ClaimLimit runnable rows (the priority order is
\* abstracted), stamped running; the worker keeps the records in memory.
Claim(w) ==
    /\ Ticking(w)
    /\ held[w] = {}
    /\ \E S \in SUBSET Runnable(w) :
        /\ S # {}
        /\ Cardinality(S) = ClaimLimit
            \/ (S = Runnable(w) /\ Cardinality(S) < ClaimLimit)
        /\ held' = [held EXCEPT ![w] = S]
        /\ status' = [r \in RunId |-> IF r \in S THEN "running" ELSE status[r]]
        /\ stale' = [r \in RunId |-> IF r \in S THEN FALSE ELSE stale[r]]
        /\ seen' = [r \in RunId |-> IF r \in S THEN attempts[r] ELSE seen[r]]
    /\ UNCHANGED <<row, due, attempts, current, server, bounds, history>>

\* A slip: the records of a batch are executed side by side.
TakesAtOnce(w, r) == r \in held[w]

\* The worker is between two records and takes r next.
Takes(w, r) == current[w] = Nobody /\ r \in held[w]

\* The worker leaves r and goes on with the rest of its batch.
Leaves(w, r) ==
    /\ held' = [held EXCEPT ![w] = @ \ {r}]
    /\ current' = [current EXCEPT ![w] = Nobody]
    /\ seen' = [seen EXCEPT ![r] = 0]

\* Every mark refreshes updatedAt.
Touch(r) == stale' = [stale EXCEPT ![r] = FALSE]

\* markFailed, then planForFailedRun: a scheduled run with an armed policy
\* enqueues its notification, once (the idempotency key outlives a retry).
\* Past MaxRuns rows the notification is not modelled.
Fails(r) ==
    /\ attempts' = [attempts EXCEPT ![r] = @ + 1]
    /\ Touch(r)
    /\ \/ /\ policy[r] = "armed"
          /\ NewRow("delivery", FALSE, TRUE)
          /\ policy' = [policy EXCEPT ![r] = "planned"]
          /\ status' = [status EXCEPT ![r] = "failed", ![created + 1] = "queued"]
       \/ /\ policy[r] # "armed" \/ created = MaxRuns
          /\ status' = [status EXCEPT ![r] = "failed"]
          /\ UNCHANGED <<row, due, requested>>

\* The definition's precondition turns the run away: no execution.
TurnAway(r) ==
    /\ Takes(TaskWorker, r) /\ status[r] # "absent"
    /\ \E s \in {"blocked", "skipped"} : status' = [status EXCEPT ![r] = s]
    /\ Touch(r) /\ Leaves(TaskWorker, r)
    /\ UNCHANGED <<row, due, attempts, server, bounds, history>>

\* Unknown type, unparsable payload or missing service: fails before run().
Reject(r) ==
    /\ Takes(TaskWorker, r) /\ status[r] # "absent"
    /\ Fails(r)
    /\ Leaves(TaskWorker, r)
    /\ UNCHANGED <<server, bounds, begun, autoRetried>>

\* The notification worker fails a run that has no delivery to send.
MissingDelivery(r) ==
    /\ Takes(NotifyWorker, r) /\ status[r] # "absent" /\ kind[r] = "digest"
    /\ attempts' = [attempts EXCEPT ![r] = @ + 1]
    /\ status' = [status EXCEPT ![r] = "failed"]
    /\ Touch(r) /\ Leaves(NotifyWorker, r)
    /\ UNCHANGED <<row, due, server, bounds, history>>

\* run() or send() starts from the record in memory; the row is not re-read,
\* so a run cancelled, swept or deleted since the claim is executed all the same.
Begin(w, r) ==
    /\ Takes(w, r)
    /\ kind[r] = (IF w = TaskWorker THEN "plain" ELSE "delivery")
    /\ current' = [current EXCEPT ![w] = r]
    /\ begun' = [begun EXCEPT ![r] = @ + 1]
    /\ UNCHANGED <<row, status, due, stale, attempts, held, seen, server, bounds,
                   requested, autoRetried>>

\* updateProgress from inside run().
Heartbeat(r) ==
    /\ current[TaskWorker] = r /\ status[r] # "absent"
    /\ Touch(r)
    /\ UNCHANGED <<row, status, due, attempts, memory, server, bounds, history>>

\* A slip: the record is dropped from the batch before its result is written.
FinishTaskUnwritten(r) ==
    /\ current[TaskWorker] = r
    /\ Leaves(TaskWorker, r)
    /\ UNCHANGED <<row, status, due, stale, attempts, server, bounds, history>>

\* run() returned, asked to be cancelled or suppressed, or threw.
FinishTask(r) ==
    /\ current[TaskWorker] = r /\ status[r] # "absent"
    /\ \/ /\ \E s \in {"succeeded", "suppressed", "cancelled"} :
                status' = [status EXCEPT ![r] = s]
          /\ Touch(r)
          /\ UNCHANGED <<row, due, attempts, requested>>
       \/ Fails(r)
    /\ Leaves(TaskWorker, r)
    /\ UNCHANGED <<server, bounds, begun, autoRetried>>

\* A slip: one attempt too many is granted.
FinishNotificationOffByOne(r) ==
    /\ current[NotifyWorker] = r /\ status[r] # "absent"
    /\ seen[r] < MaxAttempts
    /\ attempts' = [attempts EXCEPT ![r] = @ + 1]
    /\ status' = [status EXCEPT ![r] = "retrying"]
    /\ due' = [due EXCEPT ![r] = FALSE]
    /\ autoRetried' = [autoRetried EXCEPT ![r] = @ + 1]
    /\ Touch(r) /\ Leaves(NotifyWorker, r)
    /\ UNCHANGED <<row, server, bounds, requested, begun>>

\* completeNotificationAttempt: whether to retry is decided on the claimed
\* record's attempts, the new count is taken from the row.
FinishNotification(r) ==
    /\ current[NotifyWorker] = r /\ status[r] # "absent"
    /\ attempts' = [attempts EXCEPT ![r] = @ + 1]
    /\ \/ /\ \E s \in {"succeeded", "failed"} : status' = [status EXCEPT ![r] = s]
          /\ UNCHANGED <<due, autoRetried>>
       \/ /\ seen[r] + 1 < MaxAttempts
          /\ status' = [status EXCEPT ![r] = "retrying"]
          /\ due' = [due EXCEPT ![r] = FALSE]
          /\ autoRetried' = [autoRetried EXCEPT ![r] = @ + 1]
    /\ Touch(r) /\ Leaves(NotifyWorker, r)
    /\ UNCHANGED <<row, server, bounds, requested, begun>>

\* The row was deleted meanwhile: writing its result throws, writing the
\* failure throws again, and the exception ends the tick.  The rest of the
\* batch stays "running" with no worker behind it.
Abandon(w) ==
    /\ \E r \in held[w] : status[r] = "absent" /\ current[w] \in {Nobody, r}
    /\ held' = [held EXCEPT ![w] = {}]
    /\ current' = [current EXCEPT ![w] = Nobody]
    /\ seen' = [r \in RunId |-> IF r \in held[w] THEN 0 ELSE seen[r]]
    /\ UNCHANGED <<row, status, due, stale, attempts, server, bounds, history>>

-----------------------------------------------------------------------------
(* The scheduler's sweep, administrators, time.                            *)

\* A slip: a stale run is queued again instead of being failed.
SweepRequeues(r) ==
    /\ server # "down"
    /\ status[r] = "running" /\ stale[r]
    /\ status' = [status EXCEPT ![r] = "queued"]
    /\ Touch(r)
    /\ UNCHANGED <<row, due, attempts, memory, server, bounds, history>>

\* A slip: the sweep forgets to ask for running rows.
SweepAnyStatus(r) ==
    /\ server # "down"
    /\ r <= created /\ status[r] # "absent"
    /\ status' = [status EXCEPT ![r] = "failed"]
    /\ UNCHANGED <<row, due, stale, attempts, memory, server, bounds, history>>

\* A slip: the sweep is not wired.
SweepNever(r) ==
    /\ FALSE
    /\ UNCHANGED vars

\* markStaleRuns looks only at the row: the worker may be alive and about to
\* execute, or executing, the run.
Sweep(r) ==
    /\ server # "down"
    /\ status[r] = "running" /\ stale[r]
    /\ Fails(r)
    /\ UNCHANGED <<memory, server, bounds, begun, autoRetried>>

AdminActs == server = "up" /\ admin < MaxAdmin /\ admin' = admin + 1

\* Any run, whatever its status; its worker is not told.
Cancel(r) ==
    /\ AdminActs
    /\ status[r] # "absent"
    /\ status' = [status EXCEPT ![r] = "cancelled"]
    /\ Touch(r)
    /\ UNCHANGED <<row, due, attempts, memory, server, outages, history>>

\* The channel-chain test withdraws its run unless a worker has it.
CancelIfUnclaimed(r) ==
    /\ AdminActs
    /\ status[r] \in Claimable
    /\ status' = [status EXCEPT ![r] = "cancelled"]
    /\ Touch(r)
    /\ UNCHANGED <<row, due, attempts, memory, server, outages, history>>

Retry(r) ==
    /\ AdminActs
    /\ status[r] # "absent"
    /\ status' = [status EXCEPT ![r] = "retrying"]
    /\ attempts' = [attempts EXCEPT ![r] = @ + 1]
    /\ due' = [due EXCEPT ![r] = TRUE]
    /\ requested' = [requested EXCEPT ![r] = @ + 1]
    /\ Touch(r)
    /\ UNCHANGED <<row, memory, server, outages, begun, autoRetried>>

\* A slip: a retry's runAfter is compared with the wrong clock and never passes.
ComeDueNever(r) ==
    /\ FALSE
    /\ UNCHANGED vars

ComeDue(r) ==
    /\ status[r] \in Claimable /\ ~due[r]
    /\ due' = [due EXCEPT ![r] = TRUE]
    /\ UNCHANGED <<row, status, stale, attempts, memory, server, bounds, history>>

GrowStale(r) ==
    /\ status[r] = "running" /\ ~stale[r]
    /\ stale' = [stale EXCEPT ![r] = TRUE]
    /\ UNCHANGED <<row, status, due, attempts, memory, server, bounds, history>>

-----------------------------------------------------------------------------
(* The process.                                                            *)

\* onClose: stop the notification runtime, then the task worker, then the
\* scheduler, each stop() waiting for the tick in progress.
Close ==
    \/ /\ server = "up" /\ outages < MaxOutages
       /\ server' = "stopNotify" /\ outages' = outages + 1
       /\ UNCHANGED <<row, status, due, stale, attempts, memory, admin, history>>
    \/ /\ server = "stopNotify" /\ held[NotifyWorker] = {}
       /\ server' = "stopTask"
       /\ UNCHANGED <<row, status, due, stale, attempts, memory, bounds, history>>
    \/ /\ server = "stopTask" /\ held[TaskWorker] = {}
       /\ server' = "down"
       /\ UNCHANGED <<row, status, due, stale, attempts, memory, bounds, history>>

Crash ==
    /\ server # "down" /\ outages < MaxOutages
    /\ server' = "down" /\ outages' = outages + 1
    /\ held' = [w \in Worker |-> {}]
    /\ current' = [w \in Worker |-> Nobody]
    /\ seen' = [r \in RunId |-> 0]
    /\ UNCHANGED <<row, status, due, stale, attempts, admin, history>>

Restart ==
    /\ server = "down"
    /\ server' = "up"
    /\ UNCHANGED <<row, status, due, stale, attempts, memory, bounds, history>>

-----------------------------------------------------------------------------
WorkerStep(w) ==
    \/ Abandon(w)
    \/ \E r \in RunId :
        \/ Begin(w, r)
        \/ w = TaskWorker /\ (TurnAway(r) \/ Reject(r) \/ FinishTask(r))
        \/ w = NotifyWorker /\ (MissingDelivery(r) \/ FinishNotification(r))

Input ==
    \/ \E k \in Kinds, s, d \in BOOLEAN, p \in {"off", "armed"} : Enqueue(k, s, d, p)
    \/ \E k \in Kinds, p \in {"off", "armed"} : RunScheduled(k, p)
    \/ \E r \in RunId : Cancel(r) \/ CancelIfUnclaimed(r) \/ Retry(r)

Next ==
    \/ Input
    \/ \E w \in Worker : Claim(w) \/ WorkerStep(w)
    \/ \E r \in RunId : Heartbeat(r) \/ Sweep(r) \/ ComeDue(r) \/ GrowStale(r)
    \/ Close \/ Crash \/ Restart

\* The workers' and the scheduler's timers keep firing, an execution ends,
\* time passes, and a supervisor restarts the process.
Fairness ==
    /\ \A w \in Worker : WF_vars(Claim(w)) /\ WF_vars(WorkerStep(w))
    /\ \A r \in RunId : WF_vars(Sweep(r)) /\ WF_vars(ComeDue(r)) /\ WF_vars(GrowStale(r))
    /\ WF_vars(server # "up" /\ Close)
    /\ WF_vars(Restart)

Spec == Init /\ [][Next]_vars
FairSpec == Spec /\ Fairness
-----------------------------------------------------------------------------
(* Properties.                                                             *)

\* Every row, record in a worker's memory and count has its type.
TypeOK ==
    /\ created \in 0..MaxRuns
    /\ status \in [RunId -> Status]
    /\ kind \in [RunId -> AllKinds]
    /\ scheduled \in [RunId -> BOOLEAN]
    /\ due \in [RunId -> BOOLEAN]
    /\ stale \in [RunId -> BOOLEAN]
    /\ attempts \in [RunId -> Nat]
    /\ policy \in [RunId -> {"off", "armed", "planned"}]
    /\ seen \in [RunId -> Nat]
    /\ held \in [Worker -> SUBSET RunId]
    /\ current \in [Worker -> RunId \cup {Nobody}]
    /\ server \in {"up", "stopNotify", "stopTask", "down"}
    /\ admin \in Nat /\ outages \in Nat
    /\ requested \in [RunId -> Nat]
    /\ begun \in [RunId -> Nat]
    /\ autoRetried \in [RunId -> Nat]

Inflight(r) == \E w \in Worker : current[w] = r
HeldBySome(r) == \E w \in Worker : r \in held[w]

\* Executions of r that may still start: r waits in a worker's memory, and
\* its row can be claimed.
Prospects(r) ==
    (IF HeldBySome(r) /\ ~Inflight(r) THEN 1 ELSE 0)
        + (IF status[r] \in Claimable THEN 1 ELSE 0)

\* Through claims, stale sweeps, late results, hand-made retries of a run that
\* is executing, crashes and restarts, a run's code never starts more often
\* than somebody asked for it or its failure granted a retry.
AtMostOncePerRequest ==
    \A r \in RunId : begun[r] + Prospects(r) <= requested[r] + autoRetried[r]

\* The notification worker decides on the attempts of its snapshot; even so,
\* with sweeps and hand-made retries raising the row's count under it, a
\* notification is retried automatically less than maxAttempts times.
AutoRetryBounded ==
    \A r \in RunId : autoRetried[r] <= MaxAttempts - 1

\* A finished run changes its status again only by the hand of an
\* administrator, by deletion, or by the late result of the worker that
\* still holds its record; never by the sweep or by another worker.
SettledOverwrittenOnlyByItsHolder ==
    [][\A r \in RunId :
         status[r] \in Settled /\ status'[r] # status[r] =>
            \/ status'[r] = "absent"
            \/ admin' = admin + 1
            \/ \E w \in Worker : r \in held[w] /\ held'[w] = held[w] \ {r}]_vars

\* A run that is still "running" leaves a worker's memory only when the
\* process dies or a row of its batch was deleted under it.
NoSilentStranding ==
    [][\A w \in Worker, r \in RunId :
         r \in held[w] /\ r \notin held'[w] /\ status'[r] = "running" =>
            \/ server' = "down"
            \/ \E q \in held[w] : status[q] = "absent"]_vars

Lanes == INSTANCE ExecutionLanes WITH
    Runs <- RunId, Lanes <- Worker, Idle <- Nobody,
    tickets <- [r \in RunId |-> requested[r] + autoRetried[r] - begun[r]],
    extra <- autoRetried, lane <- current

\* The queue implements the abstract lanes: claims, sweeps, retries and crashes
\* never make a run's code start without a ticket, or in two workers.
ImplementsLanes == Lanes!Spec

\* Whatever strands a claimed run, the sweep or its worker settles it.
RunningEventuallySettles ==
    \A r \in RunId : status[r] = "running" ~> status[r] # "running"

\* A run that can be claimed, also after its retry delay, is not starved.
ClaimableEventuallyTaken ==
    \A r \in RunId : status[r] \in Claimable ~> status[r] \notin Claimable

=============================================================================
