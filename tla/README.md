# QingYan in TLA+

QingYan is a self-hosted comment system: one Node.js process (Fastify), one
SQLite file (better-sqlite3 through drizzle), an in-process scheduler and two
in-process workers, a command line, and a React console. This directory models
the parts of it whose correctness depends on the order in which things happen,
checks them with TLC on small instances and proves theorems about them with
TLAPS.

| part of the system | module | promise | proofs |
| --- | --- | --- | --- |
| run queue and workers | `TaskRuns` | `ExecutionLanes` | `TaskRuns_proofs` |
| notifications | `NotificationDelivery` | `AtLeastOnce` | `NotificationDelivery_proofs` |
| scheduled tasks | `TaskScheduler`, `ScheduleCalculator` | `Occurs` in `ScheduleCalculator` | `TaskScheduler_proofs` |
| page registry, delayed deletion | `PageRegistry` | its properties | `PageRegistry_proofs` |
| comments, moderation, votes | `CommentThreads` | its properties | `CommentThreads_proofs` |
| captcha, blacklist, abuse guard | `WriteGate` | its properties | `WriteGate_proofs` |
| administrators and sessions | `AdminAccess` | its properties | `AdminAccess_proofs` |
| installation, upgrade, start | `Lifecycle` | `UpgradeTransaction` | `Database_proofs` |
| import jobs | `ImportJobs` | its properties | `Database_proofs` |

`TaskRuns` and `NotificationDelivery` see the same table from two sides: the
first has every kind of run and what moves it, the second the deliveries of the
notification runs. The other modules share no variable; where one component
calls another (a comment plans a notification, the scheduler inserts a run) the
caller's module has the call as a set that grows (`told`, `runs`).

## One fact the models rest on

better-sqlite3 is synchronous. A handler that awaits nothing but the database
runs to its end in one turn of the event loop (only microtasks separate its
statements), so it is **one action**; password hashing (`scryptSync`) does not
change that. Other work gets in only where a handler awaits something outside
the database: a task's own `run()`, a channel's `send()`, an HTTP request, a
file copy, and the audit log, whose file is written asynchronously when file
logging is on (`writeAudit` with an event). The process, however, can die
between any two statements that are not in one transaction; where that matters
the action is split there, or a `Crash...` action leaves the half of it.

Each module's configuration says CHECK_DEADLOCK FALSE: the bounds on inputs and
crashes are spent at some point, and a system nobody asks anything rests.

## Runs

| run | module | shows |
| --- | --- | --- |
| task_and_notification_queue | `TaskRuns` | nothing is executed that nobody asked for, retries end, the lanes are implemented |
| task_liveness | `TaskRuns` | every claimed run settles and every runnable one is taken |
| delivery | `NotificationDelivery` | at-least-once delivery, bounded sends, earned suppression, every run settles |
| scheduler | `MCTaskScheduler` | the next moment is the first one, none is served twice, a due task is served |
| pages | `MCPageRegistry` | views merged once, deletions recorded, rows removed for a reason |
| trash_resurrected | `MCPageRegistry` | finding: a title refresh brings a trashed page back |
| comments | `MCCommentThreads` | counters, tallies and announcements follow the comments |
| write_gate | `MCWriteGate` | nobody writes past the captcha or the guard |
| admin_access | `MCAdminAccess` | sessions end with their account, an administrator remains |
| lifecycle | `MCLifecycle` | lock, marker, backups and ledger tell the truth, an upgrade is one step or none |
| imports | `MCImportJobs` | an import is whole or nothing, comes in once and keeps its threads together |
| late_backup | `MCImportJobs` | finding: the backup an applied job names is taken after its merge |

The type invariant of every module is a theorem (`TypeCorrect`, `ImportsTyped`),
for every value of the constants, and was left out of the runs.

## The run queue: TaskRuns, ExecutionLanes, TaskRuns_proofs

`TaskRuns` is the table `task_runs` and everything that moves a row of it.

| code | model |
| --- | --- |
| `TaskRunRepository.create`, `createScheduledTaskRun` | `Enqueue` (status queued or delayed) |
| `AdminTaskService.runScheduled` + `pruneScheduledTaskRuns` | `RunScheduled` (insert, then retention over all runs of the task, whatever their status) |
| `claimRunnable` | `Claim(w)`: a batch, stamped running; the worker keeps the records in `held` and their attempts in `seen` |
| `TaskRunner.runClaimed` | `TurnAway`, `Reject`, `Begin`, `Heartbeat`, `FinishTask` |
| `NotificationWorker.runNextNotificationTask` | `MissingDelivery`, `Begin`, `FinishNotification` |
| an exception that escapes the batch loop | `Abandon` |
| `TaskScheduler.markStaleRuns` | `Sweep` (guard `stale`, set by `GrowStale`, cleared by every mark: `Touch`) |
| `markFailed` + `planForFailedRun` | `Fails` |
| cancel, cancel-if-unclaimed, retry | `Cancel`, `CancelIfUnclaimed`, `Retry` |
| the `onClose` hook, a crash, a new start | `Close` (three steps), `Crash`, `Restart` |

Time is untimed: a `runAfter` comes due and an `updatedAt` grows 30 minutes old
at any moment. Four kinds of run stand for what the code tells apart: `plain`,
`delivery` (a notification with deliveries), `digest` (category `notification`,
no deliveries) and `unserviced` (its service is not wired). The last two fail
in the models as they do in the code.

`ExecutionLanes` is the promise: every run has as many tickets as it was asked
for plus its automatic retries, starting it costs a ticket, a lane executes one
run at a time and no run is in two lanes. `ImplementsLanes` is the refinement.

### What is checked

* `AtMostOncePerRequest`: executions begun plus those still possible never
  exceed what was asked for plus automatic retries. The proof needs the two
  "possible" terms (a record in a worker's memory, a claimable row): a
  hand-made retry of an executing run, a swept run whose worker is alive, and a
  crash each move one from one term to another.
* `SettledOverwrittenOnlyByItsHolder`: a settled row is changed again only by an
  administrator, by retention, or by the one worker that still holds its
  record. (A late result does overwrite a cancellation or a stale failure: the
  code really does that.)
* `NoSilentStranding`: a run that is still `running` leaves a worker's memory
  only if the process died or a row of its batch was deleted under it.
* `AutoRetryBounded`: the retry decision uses the attempts of a snapshot; even
  so a notification is retried less than `maxAttempts` times.
* `RunningEventuallySettles`, `ClaimableEventuallyTaken`: liveness.

| run | bounds | why enough |
| --- | --- | --- |
| task_and_notification_queue | 2 runs (plain, delivery), batches of 2, 3 attempts, retention 1, 1 act by hand, 1 outage | both workers, a batch with a sibling, a retry after a delay, an insertion that prunes the other run, a cancel or retry in flight, a close or crash |
| task_liveness | 2 runs of any of the four kinds, batches of 2, 2 attempts, retention 1, 1 outage | a stranded batch, a delayed retry and a restart, a run that can only fail |

A run left out of a full batch needs more runs than a batch holds: `task_liveness`
holds with `ClaimLimit = 1` as well (121 thousand states, by hand), and 3 runs in
batches of 2 are too many states for the run.

Fairness (`FairSpec`): both workers' and the scheduler's interval timers fire
again and again (weak fairness of `Claim` and `Sweep`), an execution ends (weak
fairness of `WorkerStep`: a `run()` that never returns blocks the worker for
ever and the code has no time limit for it), time passes (`ComeDue`,
`GrowStale`), a close that has begun ends, and a supervisor restarts the
process.

### What is proved

`TaskRuns_proofs` proves, for every value of the constants (assumption:
`TaskRunsAssumption`, the constants' types), the inductive invariant

    IInv == TypeOK /\ FreshRows /\ OwnRows /\ RetriesCounted
              /\ AutoRetryBounded /\ AtMostOncePerRequest

and from it `TypeCorrect`, `NoExtraExecution`, `RetriesAreBounded`,
`OverwrittenOnlyByItsHolder`, `NoStranding` and `Refinement`. `FreshRows` (ids
above `created` are untouched) is needed because an insertion must not meet an
old execution; `OwnRows` (the two workers hold disjoint rows of their own
category, and the current row is a held one) because `Prospects` counts a held
record once; `RetriesCounted` (automatic retries never exceed the attempts of
the row, nor of the snapshot while one is held) because the retry decision is
taken on the snapshot. The liveness properties stay with TLC.

## Notifications: NotificationDelivery, AtLeastOnce, NotificationDelivery_proofs

`NotificationDelivery` follows a notification from the planner to the provider:
the rows a planner writes in `task_runs` and `notification_deliveries`, the
worker that sends a run's deliveries one after the other and commits their
outcomes together, the reputation of a commenter's address, and whoever else
writes these rows.

| code | model |
| --- | --- |
| `CommentNotificationPlanner.planEmail` + `createNotificationTaskWithDelivery` | `PlanReply`: run and delivery in one transaction, or a decision not to send (final for its source, as the decision's key is), or nothing for a known idempotency key |
| `BackendUserNotificationPlanner.planEvent`, external target | `PlanExternal`: run, then delivery; `CrashInPlan` is the crash between the two |
| the same, a recipient with a digest mode | `PlanDigest`: a run without a delivery |
| `claimRunnable` | `Claim`: a batch; `batch` and `seen` are the records in the worker's memory |
| `listDeliveriesForTask` | `Start`: the rows of this moment are `listed`; those still to be tried are `Todo` |
| a `send()` | `Accept`, `AcceptUnheard` (a time-out after the provider took it), `Refuse` (temporary, rejected, refused) |
| the verdict and `completeNotificationAttempt` | `Verdict`, `Commit`: one transaction over the run and its deliveries |
| `recordRecipientFailure` / `Success`, after the commit | `Owed`, `Rate` |
| `isSuppressed` finds it out of date, or it is lifted by hand | `Expire` |
| `markStaleRuns`, cancel, retry | `Sweep`, `Cancel`, `Retry` |

A provider's answer is the only thing the worker awaits outside the database,
so each answer is an action, and anything else can come between two of them.
Retry delays and the sweep's 30 minutes pass at any moment.

`AtLeastOnce` is the promise to a recipient: a second copy of a message leaves
only if the sender lost track of the first, and none once the message is
recorded as sent. Under the refinement `copies` are the sends a provider took,
`excuses` those whose answer was lost (a time-out, a crash before the commit),
and `recorded` the deliveries with status `sent`.

### What is checked

* `ImplementsAtLeastOnce`, `SentIsFinal`: re-planning, retries by hand, sweeps
  and crashes never repeat what was recorded.
* `SendsBounded`: a delivery is tried at most `maxAttempts` times, plus once per
  retry by hand. Crashes and sweeps add none.
* `OneMailPerReply`: a comment approved twice is mailed once.
* `SuppressionEarned`: no address is suppressed for fewer rejections than the
  threshold, although feedback is applied after the commit and may be lost.
* `PendingEventuallySettles`: every waiting run is brought to an end.

The run `delivery` has a reply mail, a webhook event and a digest event, 2
deliveries in batches of 2, 2 plannings of either source, 2 attempts, threshold 2, 1 act by hand
and 1 crash: an event planned again while its run is sent, a retry of a run one
of whose rows was sent, a crash at each step, an address suppressed by its
second rejection.

Fairness (`FairSpec`): the worker's timer fires (`Claim`), its statements return
and providers answer, with a client time-out at the latest (`WorkerStep`), the
sweep's timer fires for each run (`Sweep`), a supervisor restarts the process.
A `send()` that never returned would block the worker for ever.

### What is proved

`NotificationDelivery_proofs` proves, for every value of the constants
(`DeliveryAssumption`: the three kinds of event are disjoint, bounds are
naturals, threshold and attempts positive), the inductive invariant

    IInv == TypeOK /\ Rows /\ Attempt /\ Tally /\ Pairs /\ Counted
              /\ GrantsCounted /\ Earned /\ OneMailPerReply /\ SucceededMeansSent

* `Rows`: a row not inserted yet belongs to nobody, an absent run owns none;
  without it an insertion could meet the tallies of another row.
* `Attempt`: ties the worker's memory to the rows; an answer is about a listed
  row that was not sent, so the commit overwrites no `sent`.
* `Tally`: accepted copies are the excused ones plus the recorded one. This is
  the refinement mapping's content.
* `Pairs`: a reply's run has its delivery from the start, and the worker has
  listed it; otherwise an attempt with nothing to send could succeed.
* `Counted`, `GrantsCounted`: what was sent, is to be sent and may still be
  claimed never exceeds the reasons given; the retry decision is taken on the
  claimed snapshot, so it carries its own bound.
* `Earned`: the score, plus the feedback owed, plus the rejection being
  committed, never exceeds the rejections that happened.

From it: `TypeCorrect`, `SendsAreBounded`, `OneMail`, `SuccessIsReal` (a reply's
run that says it succeeded has sent its mail; proved, not in a run),
`SuppressionIsEarned`, `SentStays` and `Refinement` (initial states and every
step map to those of `AtLeastOnce`). Liveness stays with TLC.

## Scheduled tasks: ScheduleCalculator, TaskScheduler, TaskScheduler_proofs

`ScheduleCalculator` is `calculateNextRunAt` on a calendar with months of given
lengths and a clock of slots (a slot is the code's minute, or coarser).
`Occurs` is what a schedule means, independent of how the next moment is found.
A cron expression is the set of slots it matches.

`TaskScheduler` is `scheduled_tasks` with the tick:

| code | model |
| --- | --- |
| `listDue`, `claimDue` | `Due`, `Held`, `Claim`: oldest moment first, unless another process's lease holds the row |
| `createDueRunFromScheduledTask`, `createConditionRunFromScheduledTask` | `Insert`, then `Advance` (`updateAfterRun`); a crash can come between |
| a condition that does not hold | `Miss`, then `Advance` |
| the computation of the next moment throws | `Abort`: the run stays, the row is not updated, the tick is over |
| `updateScheduled`, `enableScheduled`, `disableScheduled`, `deleteScheduled` | `Edit` (always computes the next moment anew), `Enable` and `Disable` (the flag only), `Delete` |
| timer, crash, restart | `Pass`, `Crash`, `Restart` (a new process may or may not have the old one's pid) |

All a tick awaits is the database, so ticks never overlap and nothing comes
between its statements but a crash. A run that is refused for a lock conflict
counts as the moment's run, as it does in the code. An edit changes no
definition here; a once task given a new date is a new task.

* `FirstOccurrence`: `nextRunAt` is the first moment at which the schedule
  occurs after it was computed, however late the tick or whatever the edit, and
  a task without one is over. Two schedules are excepted (`First`), and the
  exceptions are disagreements listed below: a weekly task of Sunday, of which
  only a later moment is promised, and a monthly task of a day that some month
  lacks, whose moment is one of its own but may not be the first.
* `OneRunPerMoment`, `OnceRunsOnce`: one run per moment, one per once task, and
  at most one more for each crash. Cron tasks are excepted from the first: one
  without a match left makes a run at every tick (listed below).
* `DueIsServed`: a due task is served; neither a dead process's lease nor
  another task holds it for ever, except a task whose error ends every tick.

The run `scheduler` has 5 tasks of five kinds, months of 2 and 3 days of 2
slots, 7 slots, 2 pids, a lease of 2 slots, 1 act by hand and 1 crash: every
task becomes due and some twice, a lease outlives its process, a month ends,
and the cron task runs out of matches within its reach.

Fairness: `Serve` (the tick's timer, statements return), `Pass` (time), and
`Restart` (a supervisor). A slot is not shorter than the tick's interval, so a
process that is up serves what is due within it. Operations by hand and crashes
leave the horizon enough room for a lease to end, because time stops there.

`TaskScheduler_proofs` assumes a calendar of months that have days, and
schedules that `validateScheduleDefinition` accepts (`Valid`); it proves, for
every such calendar, set of tasks and of processes, the inductive invariant

    IInv == TypeOK /\ FirstOccurrence /\ Accounted /\ Once

and from it `TypeCorrect`, `MomentsAreFirst`, `MomentsAreServedOnce` and
`OnceIsOnce`. `Accounted` says of each moment that its runs are paid for by
crashes but for the one the tick has inserted and not yet put behind the task.
`Once` says of a once task that it is due at its moment or never, and that once
it has a run too many the tick is still at it or it is over: next is null and
the moment is past, so that an edit computes null again.

`NextIsFirst` is the theorem about the calculator alone: what each branch of
`calculateNextRunAt` returns is the first occurrence after the time it was
asked at, with the two exceptions of `First`, or there is none. It rests on lemmas about days, weekdays and months
(every day is in exactly one month), which are inductions over the calendar,
done as least counterexamples (`LeastNat`). `DueIsServed` stays with TLC.

## Pages: PageRegistry, PageRegistry_proofs

`PageRegistry` is the registry of the sites' pages (a page is a key on a site)
with everything that writes a page's status: visitors, administrators, delayed deletions and their cleanup,
and the two refresh jobs of the task worker.

| code | model |
| --- | --- |
| `recordPendingPageView` in discovery mode | `Visit` |
| approve, reject, ignore a candidate | `Approve`, `Reject`, `Ignore` |
| `qyctl` reconcile, with the service stopped | `Reconcile` |
| trash, restore, delete, clear the trash | `Trash`, `Restore`, `DeletePage`, `ClearTrash` (with retention), `ClearTrashAtOnce` (without) |
| `requestDeletion`, `restoreDeletion`, `runDueHardDeletes` | `Request`, `RestoreDeletion`, `Cleanup` of any of the pending deletions: which of them are due is the caller's `now` |
| `findPage` for a request without a site | `Scopes`, `Reach`: a page of that key on any site, also when the deletion is restored or carried out (`Course`, `Revivals`, `Taken`) |
| the sitemap refresh, a fetch at a time | `StartSources`, `Sitemap`, `LastSitemap` |
| the title refresh: all rows read, then a fetch at a time | `StartTitles`, `Title`, `JobEnds` |
| the process ends between two statements | `CrashInApprove`, `CrashInSitemap`, `CrashInReconcile`, `CrashInDelete`, `CrashInClear`, `CrashInRestore`, `CrashInCleanup`, `CrashInJob` |

Both jobs run in the one task worker, so at most one is under way (`job`).

* `ViewsMergedOnce`: the views piled up for an unknown page are added to its
  thread once, whoever registers it, and once more at most per crash.
* `DeletedIsRecorded`: a page that is "deleted" is in a pending deletion, but
  for four named ways out (`astray`): a crash before the record, a deletion
  without retention, a title refresh that writes an old status back, a deletion
  without a site that came to the other site's page.
* `RemovalEarned`: a row disappears only with a pending deletion of its key, of
  its site unless the deletion names none, or when a trash without retention is
  cleared. A deletion that was restored or carried out removes nothing. The
  retention's days are no part of it, because the cleanup's caller gives the
  moment.
* `ProtectedUntilRestored` does not hold: the finding below.

Bounds: 2 pages, of one site or of one key on two sites (`Webs`), retention on
and off, 2 sitemaps, 1 deletion record, 1 crash. Two pages let a job be between
the fetch of one and of the other while the other's status changes, and let a
request without a site come to the wrong one; with one record a page can be
deleted, restored, and removed by the cleanup of that record. Registered pages
whose candidates still wait come from an end of the process, of an earlier one
(`LeftOver`, the initial states) or of this one, so the reconciliation itself
can be cut short (`CrashInReconcile`). A refresh of a site without pages is left
out, and what an appending refresh has seen is not kept: nothing asks for it.

`PageRegistry_proofs`: `IInv == TypeOK /\ Undecided /\ DeletedIsRecorded`.
`Undecided` (a candidate that is not decided has been merged at most once per
crash) is what makes `ViewsMergedOnce` inductive: approval merges and decides in
one step, a crash may do the first only. `RemovalIsEarned` follows from the
steps themselves: what a cleanup takes is within the reach of a pending record.
All for any finite sets of keys and sites, any retention, any bounds.

## Comments: CommentThreads, CommentThreads_proofs

`CommentThreads` is one page's comments with their statuses, the cached counts
(`pageThreads.commentCount`, `rootCommentCount`, `comments.replyCount`), votes
and likes, and the announcements of replies.

| code | model |
| --- | --- |
| `createComment` without a question to Akismet | `Create` |
| the same with one | `Ask`, then `Answer` (ham, spam or an error, as `mapAkismetResult`) |
| an administrator's reply | `AdminReply` |
| `updateComment`, `bulkUpdateComments`, and the moves to the trash and out of it | `Moderate`, `ModerateMany` |
| `deleteComment`, `clearTrash` | `DeleteForever`, `ClearTrash` over `Erase` |
| `castVote`, `likePage` by a visitor with a name | `Vote` |
| the same while visitors are off (`!visitorsEnabled`): counted at every call, no record | `VoteUnnamed` |
| `writeAudit` with an event, awaited after the status is written | the pair of comment and source waits in `planning` |
| `planReplyNotification`, after it | `Plan`: announced (`told`), or a decision never to (`decided`) |
| the process ends between two statements | `CrashIdle`, `CrashInInsert`, `CrashInErase`, `CrashInVote`; `Down` loses what waits in `planning` |

A bulk moderation's replies are planned one after the other with a wait between
them; the model plans them in any order.

* `CountsFollow`: every cached count follows the comments, through a late
  Akismet answer under a parent deleted meanwhile, trash, restoration and
  deletion in any order; a crash puts it off by one at most.
* `TallyFollows`: of what is counted, each vote and like with a record is counted
  once, and the rest are the calls without a name (`unnamed`); a crash loses one.
* `ApprovedReplyIsTold`: however a reply came to be approved, its notification
  was planned or is about to be, unless a crash prevented it or the moderation
  was overtaken by another one while it waited for the audit log. The last is a
  disagreement, listed below.

Bounds: 2 comments (one answers the other), 1 visitor (the votes of different
visitors touch different rows), 1 vote without a name, 1 crash. By hand, 3
comments without votes and crashes (a reply to a reply, a parent with two) and 2
crashes hold as well: 0.8 and 1.5 million states.

`CommentThreads_proofs` proves all three and `TypeOK`, which with `PlannedOnce`
(a reply's own request is planned once, so it has no decision while it waits) are
inductive, for any finite set of comments and any visitors and crashes. The
lemmas say what an insertion, a removal and a step that stores nothing do to
the cardinalities the counts stand for.

## The write gate: WriteGate, WriteGate_proofs

`WriteGate` is what stands before a visitor's comment, vote or like: the
blacklist and the allowlist, the captcha, and behind them the guard that
blacklists an address for writing too much.

| code | model |
| --- | --- |
| `getState`, `refreshState` | `Show`, `Refresh` |
| `verify`, an answer given with a write | `Answer`, `WithAnswer` then `GoOn` (the log of the right answer), `Miss` and `Fail` then `CountWrong` (the log of the wrong one) |
| `completeWidgetChallenge`, which awaits its provider | `AskProvider`, then `Accepted` or `NotAccepted` |
| `markWriteAction` | `Demand` (one write too many in the window), `Counted`, `Wasted` (counted, then refused) |
| `ensureSatisfied` | `Satisfied` |
| `likePage`, which is not counted | `Like` |
| while visitors are off: a comment, which the guard is told of, and a vote, which it is not | `UnnamedWrite`, `UnnamedVote` |
| `recordAbuseWriteAction` after the write is stored | `Record` in `Land` and `AuthorWrites` |
| rules, modes, windows and challenges that end | `SetMode`, `SetAllow`, `RuleEnds`, `SessionEnds`, `WindowEnds`, `WrongWindowEnds`, `AbuseWindowEnds` |

A write between the gate and its record (it waits for Akismet or the log) is in
`flight`. Windows are in memory and are lost with the process, rows are not.

* `EnteredByAnswer`: a challenge that let a write in was answered rightly,
  whatever a provider answered late for a challenge replaced since.
* `GuessesStop`: the limit of wrong answers is read before a provider or the log
  is waited for and the answer is counted after it. Past the limit, a visitor
  gets no more wrong answers in a window than were under way at once.
* `AbuseIsStopped`: of the writes the guard is told of, once its rule is there
  those land that were under way (and those an exemption forgives). Votes without
  a name are not among them, see the disagreements.

Bounds: 1 visitor, 2 challenges, a threshold of 2, 1 wrong answer, 2 answers
under way, 1 write before the guard acts, 2 writes under way, 3 excused, 1 crash.
Two challenges let one be replaced while its provider is asked; 2 answers under
way let a second one pass the limit's check before the first is counted; 2
writes under way let one land after the rule of the other.

`WriteGate_proofs`: `IInv == TypeOK /\ Held /\ EnteredByAnswer /\
SolvedByAnswer /\ GuessLimit /\ Recorded`, for every number of visitors,
challenges and every limit. `Held` (a visitor's current challenge was made for
that visitor) and `SolvedByAnswer` carry an answer from the provider to the
write; `GuessLimit` adds to the guesses of a window those that are asked or wait
for the log; `Recorded` counts the writes under way before they land.

## Administrators: AdminAccess, AdminAccess_proofs

`AdminAccess` is the administrators' accounts, groups and passwords, their
sessions, and the bans of an address that guesses.

| code | model |
| --- | --- |
| `login`, failures and bans | `Login`, `Guess` (awaits the log), `CountFailure`, `Banned` (the ban awaits the log), `BanEnds` |
| `requireSession` | `Accepted` |
| `updateUser`, `deleteUser` | `UpdateUser`; `HalfUpdate` is the request that ends after the account's row: a site that does not exist, or a crash |
| `createUser`, `revokeSessions`, `resetPassword` | `CreateUser`, `RevokeSessions`, `ResetPassword` |
| a user's own password, at once or by a mailed token | `ChangePassword`, `AskForToken`, `Confirm`, `TokenEnds` |
| `qyctl admin repass`, a crash, a start | `Repass`, `Crash`, `Restart` (`ensureInitialAdmin`) |

* `NoSleeper`: a session that is not revoked waits under no account that is
  disabled or deleted, to wake up when the account is enabled again, unless the
  request that should have ended it was cut off (`cut`).
* `AdminRemains`: whatever administrators do to each other, one is left.
* `PowerIsGranted`: an account gains an administrator's power only while a
  session of the initial administrator is accepted.
* `GuessesBounded`: since the last amnesty an address has failed fewer times
  than the limit, once more for each ban, plus the failures waiting for the log.

Bounds: 3 users, 2 sessions, 2 failures, 1 failure in the log, 1 ban, 1 change
of a password. Three users are the initial administrator, one who acts and one
who is acted upon.

`AdminAccess_proofs`: `IInv == Access /\ Ledger /\ NoSleeper /\ Rooted /\
Counted`. `Access` and `Ledger` are the two halves of `TypeOK`; `Rooted` says
who remains (the initial administrator, whom no request may disable, delete or
demote); `Counted` ties guesses to the failures counted and waiting.

Left out, because they only refuse: the login captcha, `loginBlockedUntil`, a
forced change of password. Left out as data: site grants, profiles, the
development session.

## Installation and upgrade: Lifecycle, UpgradeTransaction, Database_proofs

`Lifecycle` is the life of one instance: the configuration, the installation
lock, the database's migrations and ledger, the upgrade's marker and backups,
and the server that chooses what to be when it starts.

| code | model |
| --- | --- |
| `createServerLifecycle`, `resolveStartupMode` | `StartInstall`, `StartUpgrade`, `StartNormal`, `StartMigrates` (`plugins/db.ts`), `Listen` |
| `resolveInstallState`, which migrates the configured database | `Looked` |
| POST /install | `Post`, `WriteConfig`, `Seed` or `RestoreFails` (`SeedOther` for another database), `WriteLock`; `SeedCut` for a crash in the seeds |
| the request's `database.sqliteFile`, which goes into the configuration and the lock | `Here`, the requests for the database that is followed, and `File` |
| `applyDatabaseMigrations` | `NextMigration` one by one, `AllMigrations` where nothing comes between |
| `UpgradeService.apply` | from the web page `Apply`, from the command line `Detect` and `Mark`; then `Backup`, `Migrate`, `WriteLedger`, `Unmark`, or `Fail` |
| the operator | `Deploy` (another program, while the server is off), `Recover` (the upgrade's backup) |

A request names the file of its database. The module follows one file, which may
be any of them, with its schema and rows; of the others it keeps that a request
named them, and their seeds succeed or fail. `config` and `lock` say which file
the configuration and the lock name: "this" or "other". What holds of this file
holds of each.

* `LockMeansWhole`: the database that the lock names has its administrator, site
  and settings, and there is a configuration; it names the same database unless
  a request named another one.
* `OneInstalls`: of the requests for one database, only the one whose
  administrator is in it is answered 201.
* `HalfIsHeld`: a database some of whose migrations an unfinished upgrade made
  has the marker, and is not served.
* `BackupBeforeChange`: a backup of the state before exists by then.
* `LedgerNeverAhead`: the ledger names no version whose migrations are missing.
* `UpgradesInOneStep`: the module implements `UpgradeTransaction`, the promise
  to the operator. There is one database image and no marker, backup or process;
  an upgrade opens, is not served, and ends in an image that is whole for the
  program's version or in the very image it began with. Under the refinement
  mapping the image is the database, or its backup `before` while an upgrade has
  changed it; two upgrades that overlap are one transaction.

Bounds: 2 installation requests for the database and 1 for another, 2 upgrades from each side, 3 versions, 2
deployments, 4 ends of a process. Two upgrades overlap, and one overtakes the
other's marker; an older program is deployed over a newer database.

`Database_proofs` proves, for every number of requests, upgrades and versions
(`LifecycleAssumption`: kinds of attempts are disjoint, bounds are naturals),
the inductive invariant

    IInv == Places /\ Data /\ Rows /\ Locked /\ Served /\ Moving /\ HalfIsHeld

`Places` and `Data` are `TypeOK` with what every database keeps; `Rows` says
what a request at each stage has written, for this database or another; `Locked` and `Served` say who may be
upgraded and served; `Moving` says what an upgrade at each stage relies on, also
when another one overtakes it. Every property above follows from it.
`UpgradeRefinement` needs one more, `Ahead`: while an upgrade is open, the
database has every migration of the image it began with, so that its end only
adds to it.

Abstractions: an instance whose lock stands over a configured database without
rows is not followed further (`Installed` guards the starts and the command
line), because the upgrade's promises are about installed databases; the marker in
the documented layout (both sides see it), `Deploy` only while the server is off
and no upgrade runs, an installation's own restart as `Crash` and a start, and
the creation of the migrations' ledger with its inference as one step.

## Imports: ImportJobs, Database_proofs

`ImportJobs` has the import jobs of one site: WordPress feeds (analysed, turned
into a plan, rehearsed, applied) and QingYan exports (rehearsed, applied). No
step looks at a job's status, so steps repeat in any order. An apply is checked,
waits for the backup of the database, and is checked again in the transaction.

| code | model |
| --- | --- |
| POST wordpress/analyze, .../plan, .../dry-run | `Analyze`, `Convert`, `DryRun` |
| POST qingyan/dry-run | `CreateDryRun` |
| POST .../apply | `Ask` (the check), then `Merge` (backup named, second check, transaction), `BackUpOnly`, `BackUpFails` |
| `sortParentBeforeChild`, `resolveParentId`, `import_records` | `PlansOf`, `Attaches`, `Known`, `Recorded` |
| a page's removal, an edit of the settings, a crash | `RemovePage`, `EditSettings`, `Interrupt` |

* `ImportedOnce`: no source comment is inserted twice, by whatever jobs and
  overlapping applies.
* `RepliesKeepTheirParent`: an imported reply hangs under the comment it
  answered.
* `PlansAreImportable`: the plan of a feed that loses no parent meets every
  comment before the replies to it, so that only a parent imported before and
  gone with its page can turn a reply away.
* `MergesAsChecked`: an import is complete or leaves nothing, found nothing to
  conflict with if it was to fail on that, and keeps the settings it was to keep.
* `BackupPrecedesMerge` does not hold: the finding below.

Bounds: 2 WordPress jobs over three feeds (two comments, the first alone, the
reply without its parent), 1 QingYan job over an export in either order, 2
requests under way, 4 comments of two pages.

The proofs are in `Database_proofs` with those of the installation, because an
import and an upgrade both rest on the backup of the database; the module's
`ImportInit`, `ImportNext` and so on have their prefix for that reason. They
hold for any feeds, exports, jobs and requests, under `FilesAreTrees`: a file
lists a comment once, parents are on the same page, and no comment is above
itself. The inductive invariant is

    Imports == ImportTypeOK /\ Asked /\ Records /\ FeedPlans
                 /\ RepliesKeepTheirParent

* `Asked`: a request that waits for its backup is about a job with something to
  import.
* `Records`: a comment is inserted at most once, and never without a record.
* `FeedPlans`: a WordPress job's plan is one that the conversion of a feed can
  produce.

`ParentsFirst` is the lemma behind `PlansAreImportable`: a list sorted by depth
has each parent before its replies. The depth is defined by recursion along the
parents; that some function satisfies it is proved from `FilesAreTrees`, with
the size of the chain above a comment. The theorems are
`ImportsTyped`, `NothingComesTwice`, `ThreadsStayTogether`, `PlansCanBeImported`
and `MergesAreAsChecked`.

Abstractions: only comments are imported; threads, visitors, accounts and
settings' columns are data. Files come from another instance. Duplicate keys and
cycles in one file are left out (`FilesAreTrees`). The command line's import is a dry run, a stop
of the service and an apply. The end of the backup and the transaction are in
one turn of the event loop.

## Findings

* **A page in the trash becomes public again** (run `trash_resurrected`,
  `ProtectedUntilRestored`). The title refresh reads all pages once, fetches
  them one after the other, and writes each one's status from the row it read at
  the start (title-refresh-service.ts:239). A page trashed, ignored or deleted
  meanwhile is active or unreachable afterwards, although the page list says of
  the trash that a page in it is excluded from the public side
  (pages-page.tsx:153).
* **The backup an applied import names can be taken after its merge** (run
  `late_backup`, `BackupPrecedesMerge`). docs/configuration.md:378 promises a
  backup of the state before the merge. Every apply names its backup in the
  job's record before its transaction checks again (job-service.ts:259), and no
  step looks at the job's status: of two applies of one job, the second one's
  backup replaces the first one's, and it already holds the imported rows.

## Disagreements found without a run

Met while modelling, where the code does not do what it, a document or a test
says. The models do in each case what the code does, unless the section of the
module says that the part is left out.

Tasks and notifications:

* A run of `daily_site_digest` is never executed: its category is
  `notification` (built-in-task-types.ts:501), the task worker excludes that
  category (plugins/db.ts:184-186) and the notification worker fails a run
  without deliveries (notification-worker.ts:234-248). admin-console-api.md:1981
  lists the type.
* Runs of `site_settings_action` and `blacklist_automation` always fail: the
  services they require are not wired (plugins/db.ts:147-160,
  built-in-task-types.ts:121-135).
* PROJECT_DESIGN.md:61 has a notification's run, its delivery and the first
  event in one transaction. For an external target they are separate statements
  (backend-user-notification-planner.ts:390-431,
  task-failure-notification-service.ts:116), and a digest's run never has a
  delivery (backend-user-notification-planner.ts:256-289).
* A monthly task of day 29, 30 or 31 passes over months after a shorter one: 28
  February is followed by 30 April (schedule-calculator.ts:297).
* A cron task without a match in the next 366 days makes a run at every tick and
  hides the tasks due after it (schedule-calculator.ts:166, scheduler.ts:255).
* `readPositiveNumber(dayOfWeek, 1)` turns Sunday (0) into Monday, although the
  validator accepts 0 to 6.

Pages:

* A lifecycle request may leave out its site (schemas.ts:464-468): trash, restore
  and delete then come to a page of that key on any site (service.ts:616-638),
  and so does the cleanup of the deletion, so that a page nobody put away can be
  removed for good.
* POST cleanup takes the moment from its caller (ops-routes.ts:88-90, 518-541), so
  that deletions whose retention has not passed are carried out.
* A due deletion whose page is gone stops every cleanup at that record
  (deletion-policy-service.ts:179-231).
* With a retention of 0, the deletion of one page keeps its row, while clearing
  the trash removes the rows (pages-routes.ts:169, pages-page.tsx:170).
* A page restored from the registry keeps a deletion that was pending, and is
  later removed for good by it.
* The candidate of a page removed for good stays decided: a visit does not bring
  it back.
* admin-console-api.md:438 and :442 describe restore and delete for pages in the
  trash; the code applies both from any status.
* A page that went stale and is listed in a sitemap again stays stale.

Comments:

* notifications/templates/defaults.ts:139 says that an approved reply has a
  notification planned. The planner reads the comment only after the audit log
  was awaited (management-service.ts:495-509, 536-556): a reply trashed meanwhile
  gets a final decision for the source "moderated", and approved again it is
  never announced.
* While visitors are off, a vote or like adds to the count at every call, with no
  record (write-service.ts:611-644, page-feedback/service.ts:138-182), and such a
  vote returns before the abuse guard is told, although docs/configuration.md:187
  counts comment votes among the guard's writes.
* A reply that waits for Akismet is inserted under a parent deleted meanwhile.
* The total of the public list counts approved replies under hidden parents.
* Likes never count towards the captcha's threshold.

Administrators:

* README.md:28 says that five failures ban an address for ever; the default ban
  is 1800 seconds (session-service.ts:229).
* A request that disables an account and names a site that does not exist is
  answered 404 after the status was written and before the sessions are revoked;
  they are accepted again when the account is enabled.
* A mailed token to change a password outlives an administrator's reset of it.
* `qyctl admin repass` beside a running server takes effect at its next start.
* The initial administrator's own change of password lasts until the next start
  (admin-users-repository.ts:249).
* A crash between an account's row and its group leaves an account without one.

Installation, upgrade, start:

* A plain start migrates a database that an installation made, with no upgrade
  asked for: nothing writes the versions' ledger at installation.
* The command line looks for the marker beside the database file, the server
  beside the configuration. They agree in the documented layout only.
* An installation that ends after its bootstrap row and before the lock can
  never be finished.
* Of two installations at once that name different database files, both can be
  answered 201 (each bootstrap row is the first of its file), and the later
  configuration wins (install-service.ts:458, install-service.ts:1078-1091): the
  configuration can name a database without rows beside a lock that names the
  other. The next start serves that database, with an administrator it makes up
  (plugins/db.ts:75-80). state.ts:71 only asks whether the lock exists.
* `backfillSiteNotificationEvents` inserts legacy recipients again at every
  start.
* `UpgradeService.detect` creates the database file before it asks whether it
  exists.
* After the plan "schema-migration-ledger" the ledger is empty, so that later
  versions never ask for an upgrade.
* A crash between the creation of the migrations' table and its inference makes
  the first migration run again and fail (db/migrations.ts:956-979).

Imports:

* Page feedback, blacklist rules and votes in an export are not imported,
  although configuration.md:361 and the lines after it list them.
* Import records outlive what they record: comments of a page removed for good
  are skipped by every later import, and replies to them fail it.
* A QingYan export in which a reply precedes its parent fails as a whole.
* An export imported into the instance it came from doubles its comments.
* Imported comments that are pending or deleted are counted.
* An applied job can be converted or rehearsed again, and its status goes back.
* A rehearsal of a QingYan import stores a job also when it fails or is asked for
  by `--dry-run`.
* Two backups within one second have one name (database-backup-service.ts:69).

## Hazards without a property

* A type's category and services (built-in-task-types.ts:501), the two
  statements of an external target (backend-user-notification-planner.ts:418)
  and the error in a tick (scheduler.ts:255) are known to go wrong, see above.
  The properties around them say what holds nevertheless.
* A `send()` that never returns blocks the notification worker
  (notification-worker.ts:154): fairness assumes that it does return.

## Inventory

The components, their state, what acts on it and what makes them correct.
`PROJECT.json` gives the sources and the status of each one.

* **Run queue and workers** (`task_runs`): enqueued by planners, scheduler and
  hands; claimed, executed, swept, cancelled, retried, pruned. Correct when
  nothing runs that was not asked for and everything asked for settles.
* **Scheduler** (`scheduled_tasks`: next moment, lease, flag): a tick every 60 s.
  Correct when a due moment gives one run and no task is passed over.
* **Notification worker, planners, reputation** (`notification_deliveries`,
  decisions, failure scores). Correct when "sent" is true, a copy is repeated
  only for a reason and an address is suppressed for cause.
* **Page registry and delayed deletion** (`page_registry`, candidates,
  `deletion_records`): visits, decisions, two refresh jobs, a cleanup. Correct
  when no view is lost, and what is deleted stays so until restored and is
  removed only for a reason.
* **Comments, moderation, votes, likes** (comments, thread counters, tallies):
  visitors, administrators, Akismet. Correct when cached counts follow the rows
  and an approved reply is announced.
* **Captcha gate, blacklist, rate limits** (challenge sessions, rules; windows
  in memory). Correct when a write came in by an answer, an allowance or an
  exemption, and when those who write too much are stopped.
* **Administrator sessions and administrators** (users, groups, sessions, login
  failures, bans, tokens). Correct when a session dies with its account, power
  is given by those who have it, and guessing is bounded.
* **Installation, upgrade, migrations, backup** (configuration, lock, marker,
  ledger, images). Correct when each of them tells the truth about the
  database at every crash.
* **Import and export** (`import_jobs`, `import_records`). Correct when an import
  is whole or nothing, comes in once and keeps threads together.
* **Command line**: acts beside the server; its acts are actions of the modules.
* **Console, rendering, projections, settings, logs**: see below.

## Not modelled

* `SiteSettingsAction`, planned once (overlapping actions that save and restore a
  setting): the wiring makes it unreachable, so no state of the program would
  correspond to the model.
* The bodies of the built-in tasks: sequential work inside one run.
* The React console, the HTTP schemas and clients, public and administrative
  projections, templates and mail rendering, provider protocols, metrics and
  logs, the statistics and settings pages, the export: they read and shape data,
  or pass an input through. They are most of the repository's lines (the longest
  files are pages of the console and the administrative queries), and a module
  of them would have no step that another step could disturb.
* Inside the modelled parts: site grants and profiles, forced password changes,
  conditions of condition tasks beyond "holds or not", lock conflicts by
  concurrency key, ratings, the rules that choose a moderation verdict, rules on
  anything but the address.

## What is proved and what is only checked

Eight proof modules hold the theorems named above; each rests on nothing but
its modules' ASSUMEs about their constants (types, finiteness, disjointness, and
for schedules and files what the code's validation guarantees). Every invariant,
action property and refinement of a passing run is a theorem. Only
model-checked: every liveness property (the proofs have no fairness and no
ENABLED) and the two findings. Where a proof needs an induction (calendars,
threads) it takes the least counterexample, because the library's induction
theorems have an operator as a parameter. No module declares a RECURSIVE
operator; folds and recursive functions are used instead.

## Plan

Done: the nine components of the table above, three refinements, eight proof
modules, and a theorem for every safety property that a passing run checks.

Left:

1. A composition of `TaskScheduler` and `TaskRuns` over the shared table: lock
   conflicts, failure notifications, retention.
2. Group grants by site in `AdminAccess`, once a property relates them to what
   a session may read.
