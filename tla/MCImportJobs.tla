---------------------------- MODULE MCImportJobs ----------------------------
\* Two feeds that overlap and one whose reply lacks its parent; an export that
\* lists a reply before the comment it answers.
EXTENDS ImportJobs
CONSTANTS a, b, x, y

MCParent == [c \in Comment |-> CASE c = b -> a [] c = y -> x [] OTHER -> None]
MCPage == [c \in Comment |-> IF c \in {a, b} THEN "p" ELSE "q"]
MCFeeds == {<<b, a>>, <<a>>, <<b>>}
MCExports == {<<x>>, <<y, x>>}

Symmetry == Permutations(WordPress) \cup Permutations(Request)
=============================================================================
