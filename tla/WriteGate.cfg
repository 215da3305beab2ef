SPECIFICATION Spec
CONSTANTS
    Visitor = {v1}
    Challenge = {c1, c2}
    None = none
    Max = 2
    MaxWrong = 1
    AbuseMax = 1
    MaxFlight = 2
    MaxPending = 2
    MaxExcused = 3
    MaxCrashes = 1
SYMMETRY Renaming
INVARIANTS EnteredByAnswer GuessesStop 
CHECK_DEADLOCK FALSE
