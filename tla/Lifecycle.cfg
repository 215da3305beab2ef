SPECIFICATION Spec
CONSTANTS
    Attempt = {i1, i2, i3}
    Here = {i1, i2}
    Web = {w1, w2}
    Cli = {c1, c2}
    MaxVersion = 3
    MaxDeploys = 2
    MaxCrashes = 4
SYMMETRY Symmetry
INVARIANTS LockMeansWhole OneInstalls HalfIsHeld BackupBeforeChange LedgerNeverAhead
PROPERTIES UpgradesInOneStep
CHECK_DEADLOCK FALSE
