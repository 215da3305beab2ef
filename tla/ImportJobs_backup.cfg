SPECIFICATION ImportSpec
CONSTANTS
    WordPress = {w1, w2}
    QingYan = {q1}
    Request = {r1, r2}
    None = none
    a = a
    b = b
    x = x
    y = y
    Comment = {a, b, x, y}
    Skipped = {}
    Parent <- MCParent
    Page <- MCPage
    Feeds <- MCFeeds
    Exports <- MCExports
    Unresolved = {}
INVARIANT BackupPrecedesMerge
SYMMETRY Symmetry
CHECK_DEADLOCK FALSE
