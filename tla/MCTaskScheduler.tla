-------------------------- MODULE MCTaskScheduler --------------------------
(***************************************************************************)
(* An instance of TaskScheduler: one task of a kind on a short calendar,   *)
(* the cron one with a match beyond the reach of its search.               *)
(***************************************************************************)
EXTENDS TaskScheduler

MCMonths == <<2, 3>>
MCSchedule == [
    once      |-> [kind |-> "once", runAt |-> 2],
    condition |-> [kind |-> "condition", every |-> 3],
    weekly    |-> [kind |-> "weekly", weekday |-> 2, slot |-> 1],
    monthly   |-> [kind |-> "monthly", monthday |-> 2, slot |-> 0],
    cron      |-> [kind |-> "cron", matches |-> {3, 5, 40}]]
MCTask == {"once", "condition", "weekly", "monthly", "cron"}
=============================================================================
