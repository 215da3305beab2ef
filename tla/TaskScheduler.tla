--------------------------- MODULE TaskScheduler ----------------------------
(***************************************************************************)
(* scheduled_tasks and the scheduler's tick: claim a due task, insert its  *)
(* run, compute the next moment.  Nothing runs between the statements of a *)
(* tick, but the process may die there.  A handler that here comes between *)
(* two tasks of a tick stands for one between two ticks.  At most 50 tasks *)
(* are due at once (the limit of listDue).                                 *)
(***************************************************************************)
EXTENDS ScheduleCalculator, FiniteSets

CONSTANTS Task,
          Schedule,     \* the tasks' definitions
          Pid,          \* process identifiers, which containers reuse
          Lease,        \* claimLeaseMs in slots
          Horizon,      \* bound: slots modelled
          MaxAdmin,     \* bound: operations by hand
          MaxCrashes    \* bound

ASSUME SchedulerAssumption ==
    /\ Lease \in Nat /\ Horizon \in Nat /\ MaxAdmin \in Nat /\ MaxCrashes \in Nat
    /\ Pid # {} /\ "idle" \notin Task
    /\ \A t \in Task : Valid(Schedule[t])

Nobody == "nobody"
Idle == "idle"

VARIABLES
    now,
    present, enabled,   \* rows of scheduled_tasks, and their flag
    next,               \* nextRunAt
    leaseBy, leaseEnd,  \* claimWorkerId, claimExpiresAt
    pid,                \* the process, Nobody when down
    serving, phase,     \* the task the tick is at, and what was done for it
    admin, crashes,     \* bounds
    since,              \* history: when the next moment was computed
    runs,               \* history: runs inserted for the current moment
    total               \* history: runs inserted for a once task

rows    == <<present, enabled, next>>
leases  == <<leaseBy, leaseEnd>>
tick    == <<serving, phase>>
history == <<since, runs, total>>
vars == <<now, rows, leases, pid, tick, admin, crashes, history>>

Init ==
    /\ now = 0
    /\ present = Task
    /\ enabled = Task
    /\ \A t \in Task : ~Throws(0, Schedule[t])
    /\ next = [t \in Task |-> Next(0, Schedule[t])]
    /\ leaseBy = [t \in Task |-> Nobody]
    /\ leaseEnd = [t \in Task |-> 0]
    /\ pid \in Pid
    /\ serving = Idle /\ phase = Idle
    /\ admin = 0 /\ crashes = 0
    /\ since = [t \in Task |-> 0]
    /\ runs = [t \in Task |-> 0]
    /\ total = [t \in Task |-> 0]

\* A new next moment starts a new account.
Reschedule(t, moment) ==
    /\ next' = [next EXCEPT ![t] = moment]
    /\ since' = [since EXCEPT ![t] = now]
    /\ runs' = [runs EXCEPT ![t] = 0]
    /\ UNCHANGED total

-----------------------------------------------------------------------------
(* The tick.                                                               *)

Due(t) == t \in present /\ t \in enabled /\ next[t] # Never /\ next[t] <= now

\* A slip: the lease of a process that is gone never ends.
HeldForever(t) == leaseBy[t] \notin {Nobody, pid}
Held(t) == leaseBy[t] \notin {Nobody, pid} /\ leaseEnd[t] > now
Claimable == {t \in Task : Due(t) /\ ~Held(t)}

\* listDue is ordered by nextRunAt; claimDue reads the row again.
Claim(t) ==
    /\ pid \in Pid /\ phase = Idle
    /\ t \in Claimable
    /\ \A u \in Claimable : next[t] <= next[u]
    /\ leaseBy' = [leaseBy EXCEPT ![t] = pid]
    /\ leaseEnd' = [leaseEnd EXCEPT ![t] = now + Lease]
    /\ serving' = t /\ phase' = "claimed"
    /\ UNCHANGED <<now, rows, pid, admin, crashes, history>>

\* The task's run: queued, or failed for a lock conflict.
Insert(t) ==
    /\ serving = t /\ phase = "claimed"
    /\ runs' = [runs EXCEPT ![t] = @ + 1]
    /\ total' = IF Schedule[t].kind = "once" THEN [total EXCEPT ![t] = @ + 1] ELSE total
    /\ phase' = "inserted"
    /\ UNCHANGED <<now, rows, leases, pid, serving, admin, crashes, since>>

\* A condition that does not hold leaves a skipped run behind.
Miss(t) ==
    /\ serving = t /\ phase = "claimed" /\ Schedule[t].kind = "condition"
    /\ phase' = "missed"
    /\ UNCHANGED <<now, rows, leases, pid, serving, admin, crashes, history>>

Release(t) ==
    /\ leaseBy' = [leaseBy EXCEPT ![t] = Nobody]
    /\ leaseEnd' = [leaseEnd EXCEPT ![t] = 0]
    /\ serving' = Idle /\ phase' = Idle
    /\ UNCHANGED <<now, present, pid, admin, crashes>>

\* A slip: a once task stays enabled and due.
AdvanceKeepsOnce(t) ==
    /\ serving = t /\ phase \in {"inserted", "missed"}
    /\ ~Throws(now, Schedule[t])
    /\ Reschedule(t, IF Schedule[t].kind = "once" THEN next[t] ELSE Next(now, Schedule[t]))
    /\ UNCHANGED enabled
    /\ Release(t)

\* A slip: the lease is cleared and the moment left as it was.
AdvanceForgets(t) ==
    /\ serving = t /\ phase \in {"inserted", "missed"}
    /\ ~Throws(now, Schedule[t])
    /\ UNCHANGED <<enabled, next, history>>
    /\ Release(t)

\* updateAfterRun, and update after a miss: a once task is disabled.
Advance(t) ==
    /\ serving = t /\ phase \in {"inserted", "missed"}
    /\ ~Throws(now, Schedule[t])
    /\ Reschedule(t, IF Schedule[t].kind = "once" THEN Never ELSE Next(now, Schedule[t]))
    /\ enabled' = IF Schedule[t].kind = "once" THEN enabled \ {t} ELSE enabled
    /\ Release(t)

\* The next moment cannot be computed: the error ends the tick, the tasks
\* behind this one are not reached before the next tick.
Abort(t) ==
    /\ serving = t /\ phase = "inserted"
    /\ Throws(now, Schedule[t])
    /\ serving' = Idle /\ phase' = "aborted"
    /\ UNCHANGED <<now, rows, leases, pid, admin, crashes, history>>

-----------------------------------------------------------------------------
(* Administrators, time, the process.  A handler runs between two ticks.   *)

ByHand(t) ==
    /\ pid \in Pid /\ serving = Idle /\ t \in present
    /\ now < Horizon /\ admin < MaxAdmin /\ admin' = admin + 1

\* Only the flag is written.
Enable(t) ==
    /\ ByHand(t)
    /\ enabled' = enabled \cup {t}
    /\ UNCHANGED <<now, present, next, leases, pid, tick, crashes, history>>

Disable(t) ==
    /\ ByHand(t)
    /\ enabled' = enabled \ {t}
    /\ UNCHANGED <<now, present, next, leases, pid, tick, crashes, history>>

\* updateScheduled: any edit computes the next moment anew.
Edit(t) ==
    /\ ByHand(t)
    /\ ~Throws(now, Schedule[t])
    /\ Reschedule(t, Next(now, Schedule[t]))
    /\ enabled' \in {enabled, enabled \cup {t}, enabled \ {t}}
    /\ UNCHANGED <<now, present, leases, pid, tick, crashes>>

Delete(t) ==
    /\ ByHand(t)
    /\ present' = present \ {t}
    /\ UNCHANGED <<now, enabled, next, leases, pid, tick, crashes, history>>

\* A slot is not shorter than intervalMs: a process that is up serves what is
\* due before the slot ends, unless the tick was aborted.
Pass ==
    /\ serving = Idle /\ now < Horizon
    /\ pid = Nobody \/ phase = "aborted" \/ Claimable = {}
    /\ now' = now + 1
    /\ phase' = Idle
    /\ UNCHANGED <<rows, leases, pid, serving, admin, crashes, history>>

\* Within the horizon a lease left behind still ends.
Crash ==
    /\ pid \in Pid /\ crashes < MaxCrashes /\ now + Lease < Horizon
    /\ pid' = Nobody
    /\ serving' = Idle /\ phase' = Idle
    /\ crashes' = crashes + 1
    /\ UNCHANGED <<now, rows, leases, admin, history>>

Restart ==
    /\ pid = Nobody
    /\ pid' \in Pid
    /\ UNCHANGED <<now, rows, leases, tick, admin, crashes, history>>

-----------------------------------------------------------------------------
Serve == \E t \in Task : Claim(t) \/ Insert(t) \/ Miss(t) \/ Advance(t) \/ Abort(t)

Step ==
    \/ Serve
    \/ \E t \in Task : Enable(t) \/ Disable(t) \/ Edit(t) \/ Delete(t)
    \/ Pass \/ Crash \/ Restart

\* The tick's timer fires, statements return, time passes, a supervisor
\* restarts the process.
Fairness == WF_vars(Serve) /\ WF_vars(Pass) /\ WF_vars(Restart)

Spec == Init /\ [][Step]_vars
FairSpec == Spec /\ Fairness

-----------------------------------------------------------------------------
(* Properties.                                                             *)

\* Every row, lease and tick has the shape the tables and the loop give it.
TypeOK ==
    /\ now \in 0..Horizon
    /\ present \in SUBSET Task /\ enabled \in SUBSET Task
    /\ next \in [Task -> Nat \cup {Never}]
    /\ leaseBy \in [Task -> Pid \cup {Nobody}]
    /\ leaseEnd \in [Task -> 0..(Horizon + Lease)]
    /\ pid \in Pid \cup {Nobody}
    /\ \/ serving \in Task /\ phase \in {"claimed", "inserted", "missed"}
       \/ serving = Idle /\ phase \in {Idle, "aborted"}
    /\ admin \in 0..MaxAdmin /\ crashes \in 0..MaxCrashes
    /\ since \in [Task -> 0..Horizon]
    /\ runs \in [Task -> Nat] /\ total \in [Task -> Nat]

\* nextRunAt is a later moment at which the task's schedule occurs, and the
\* first one: none is passed over, none is invented, and a task without a next
\* moment is over, whatever the delay of the tick, the crash or the edit that
\* had it computed.
FirstOccurrence ==
    \A t \in Task :
        IF next[t] = Never
        THEN \A k \in (since[t] + 1)..Horizon : ~Occurs(Schedule[t], k, since[t])
        ELSE First(Schedule[t], next[t], since[t])

\* One moment of a task makes one run, and one more for each crash between the
\* insertion of the run and the update of the task.
\* Not so of a cron task: one without a match left throws after its run, the row is
\* not updated (scheduler.ts:255), and the moment makes a run at every tick.
OneRunPerMoment ==
    \A t \in Task : Schedule[t].kind # "cron" => runs[t] <= 1 + crashes

\* A once task runs once (and once more for a crash), however often it is
\* enabled again or edited after its moment.
OnceRunsOnce ==
    \A t \in Task : Schedule[t].kind = "once" => total[t] <= 1 + crashes

\* A task whose error ends the tick hides those that are due after it.
Hidden(t) == \E u \in Task : Due(u) /\ Throws(now, Schedule[u]) /\ next[u] <= next[t]

\* A due task is served: the lease of a process that died does not hold it for
\* ever, and no other task is always served before it.
DueIsServed == \A t \in Task : Due(t) ~> (~Due(t) \/ Hidden(t))
=============================================================================
