SPECIFICATION Spec
CONSTANTS
    User = {root, a, b}
    Initial = root
    Session = {s1, s2}
    None = none
    MaxFailures = 2
    MaxLogging = 1
    MaxBans = 1
    MaxChanges = 1
SYMMETRY Renaming
INVARIANTS NoSleeper AdminRemains GuessesBounded
PROPERTIES PowerIsGranted
CHECK_DEADLOCK FALSE
