SPECIFICATION Spec
CONSTANTS
    Key = {home, post}
    Site = {shop, blog}
    Webs <- MCWebs
    Retention = {TRUE, FALSE}
    MaxSitemaps = 2
    MaxRecords = 1
    MaxCrashes = 1
SYMMETRY Pages
PROPERTY ProtectedUntilRestored
CHECK_DEADLOCK FALSE
