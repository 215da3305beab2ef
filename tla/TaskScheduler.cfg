SPECIFICATION FairSpec
CONSTANTS
    MonthLengths <- MCMonths
    SlotsPerDay = 2
    FirstWeekday = 0
    CronReach = 24
    Task <- MCTask
    Schedule <- MCSchedule
    Pid = {p, q}
    Lease = 2
    Horizon = 7
    MaxAdmin = 1
    MaxCrashes = 1
INVARIANT FirstOccurrence
INVARIANT OneRunPerMoment
INVARIANT OnceRunsOnce
PROPERTY DueIsServed
CHECK_DEADLOCK FALSE
