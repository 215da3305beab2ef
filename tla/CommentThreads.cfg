SPECIFICATION Spec
CONSTANTS
    Comment = {c1, c2}
    Visitor = {v1}
    Page = page
    Root = root
    MaxCrashes = 1
    MaxUnnamed = 1
SYMMETRY Renaming
INVARIANTS CountsFollow TallyFollows ApprovedReplyIsTold
CHECK_DEADLOCK FALSE
