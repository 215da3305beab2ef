--------------------------- MODULE CommentThreads ---------------------------
(***************************************************************************)
(* The comments of one page: a visitor's comment, which may wait for       *)
(* Akismet before its row exists, the verified author's replies, the       *)
(* administrators' moderation and deletion, votes and likes, and the       *)
(* counters that are cached beside all of these: comments and root         *)
(* comments of the thread, replies of a comment, votes of a comment, likes *)
(* of the page.                                                            *)
(*                                                                         *)
(* A request that writes a comment or its status pauses twice: while       *)
(* Akismet is asked, and, its rows written, while the audit log is, before *)
(* it plans the mail to the comment that was answered.  Everything else of *)
(* a request is one action: votes and likes are audited without a wait.    *)
(* No statement is in a transaction: a crash can come between any two, and *)
(* the Crash actions say which of them were done.                          *)
(* Whether the page may be commented on at all is PageRegistry's.          *)
(***************************************************************************)
EXTENDS Integers, FiniteSets

CONSTANTS Comment, Visitor,
          Page,        \* what a like is for; a vote is for a comment
          Root,        \* the parent of a comment that answers none
          MaxCrashes, MaxUnnamed  \* bounds

ASSUME ThreadAssumption ==
    /\ IsFiniteSet(Comment) /\ IsFiniteSet(Visitor)
    /\ Page \notin Comment /\ Root \notin Comment
    /\ MaxCrashes \in Nat /\ MaxUnnamed \in Nat

Item == Comment \cup {Page}
Shelf == {"pending", "approved", "spam", "trash"}  \* comments.status
Status == Shelf \cup {"absent", "asked"}           \* no row; Akismet was asked

\* Who plans a reply's mail: createComment, replyToComment, the moderation.
Source == {"created", "replied", "moderated"}

VARIABLES
    status, parent,  \* of each comment
    deleted,         \* comments with deletedAt
    total, roots,    \* page_threads.commentCount, rootCommentCount
    replies,         \* comments.replyCount
    voters, tally,   \* vote and like records; their cached counts
    unnamed,         \* history: of the counts, those with no record
    planning,        \* <<comment, source>>: to be planned after the audit log
    decided,         \* <<comment, source>>: never to be mailed for that source
    told,            \* comments planned while they were approved replies
    crashes,         \* bound
    cut              \* history: comments whose planning a crash prevented

tree     == <<status, parent, deleted>>
counters == <<total, roots, replies>>
feedback == <<voters, tally, unnamed>>
notice   == <<planning, decided, told>>
rest     == <<crashes, cut>>
vars == <<tree, counters, feedback, notice, rest>>

Init ==
    /\ status = [c \in Comment |-> "absent"]
    /\ parent = [c \in Comment |-> Root]
    /\ deleted = {}
    /\ total = 0 /\ roots = 0
    /\ replies = [c \in Comment |-> 0]
    /\ voters = [x \in Item |-> {}]
    /\ tally = [x \in Item |-> 0]
    /\ unnamed = [x \in Item |-> 0]
    /\ planning = {} /\ decided = {} /\ told = {}
    /\ crashes = 0 /\ cut = {}

Stored == {c \in Comment : status[c] \in Shelf}
Live == Stored \ deleted
LiveRoots == {c \in Live : parent[c] = Root}
Answers(p) == {c \in Live : parent[c] = p}
IsReply(c) == parent[c] # Root

\* The cached counts never go below zero.
Less(n, k) == IF k <= n THEN n - k ELSE 0

-----------------------------------------------------------------------------
(* Writing a comment.                                                      *)

MayAnswer(p) == p = Root \/ p \in Live

\* A slip: a reply is counted among the roots.
CountAsRoot(p) ==
    /\ replies' = [c \in Comment |-> IF c = p THEN replies[c] + 1 ELSE replies[c]]
    /\ total' = total + 1
    /\ roots' = roots + 1

\* The counts a new row under p adds to.
Count(p) ==
    /\ replies' = [c \in Comment |-> IF c = p THEN replies[c] + 1 ELSE replies[c]]
    /\ total' = total + 1
    /\ roots' = IF p = Root THEN roots + 1 ELSE roots

\* The replies of S are planned for src once the audit log is written.
PlanLater(S, src) ==
    /\ planning' = planning \cup (S \X {src})
    /\ UNCHANGED <<decided, told>>

\* A row that is stored approved under another is to be mailed.
Insert(c, p, s, src) ==
    /\ status' = [status EXCEPT ![c] = s]
    /\ parent' = [parent EXCEPT ![c] = p]
    /\ Count(p)
    /\ PlanLater({d \in {c} : s = "approved" /\ p # Root}, src)
    /\ UNCHANGED <<deleted, feedback, rest>>

\* A review that asks nobody: no moderation, by hand, a verified author.
Create(c, p, s) ==
    /\ status[c] = "absent" /\ MayAnswer(p)
    /\ s \in {"pending", "approved"}
    /\ Insert(c, p, s, "created")

\* The administrator's own reply.
AdminReply(c, p) ==
    /\ status[c] = "absent" /\ p \in Live
    /\ Insert(c, p, "approved", "replied")

\* The parent is looked at before Akismet is asked, and not again.
Ask(c, p) ==
    /\ status[c] = "absent" /\ MayAnswer(p)
    /\ status' = [status EXCEPT ![c] = "asked"]
    /\ parent' = [parent EXCEPT ![c] = p]
    /\ UNCHANGED <<deleted, counters, feedback, notice, rest>>

\* Ham is approved or left to the moderator, an error too; spam is stored.
Answer(c, s) ==
    /\ status[c] = "asked"
    /\ s \in {"pending", "approved", "spam"}
    /\ Insert(c, parent[c], s, "created")

-----------------------------------------------------------------------------
(* Moderation.                                                             *)

\* A reply is announced when it becomes approved.
BecomesApproved(c, s) == s = "approved" /\ status[c] # "approved" /\ IsReply(c)

\* A deleted comment can still be given a status.
Moderate(c, s) ==
    /\ c \in Stored
    /\ status' = [status EXCEPT ![c] = s]
    /\ PlanLater({d \in {c} : BecomesApproved(d, s)}, "moderated")
    /\ UNCHANGED <<parent, deleted, counters, feedback, rest>>

\* In bulk every reply is planned, also one that was approved before.
ModerateMany(S, s) ==
    /\ S # {} /\ S \subseteq Live
    /\ status' = [c \in Comment |-> IF c \in S THEN s ELSE status[c]]
    /\ PlanLater({c \in S : s = "approved" /\ IsReply(c)}, "moderated")
    /\ UNCHANGED <<parent, deleted, counters, feedback, rest>>

\* What the planner goes by is the status after the pause.
Announced(c) == status[c] = "approved" /\ parent[c] \notin deleted

\* A slip: a decision for one source holds for all.
DecidedForAny(c, src) == \E any \in Source : <<c, any>> \in decided

\* The first decision for a source is the last one.
Decided(c, src) == <<c, src>> \in decided

\* The request goes on after its audit log; only createComment plans for a
\* comment that was deleted meanwhile.  What is planned twice is mailed once,
\* so equal requests may be one element, and a decision about a reply that was
\* told says no more.  The replies of a bulk approval are planned one by one.
Plan(c, src) ==
    /\ <<c, src>> \in planning
    /\ planning' = planning \ {<<c, src>>}
    /\ IF Decided(c, src) \/ (c \in deleted /\ src # "created")
       THEN UNCHANGED <<decided, told>>
       ELSE \/ Announced(c) /\ told' = told \cup {c} /\ UNCHANGED decided
            \/ /\ ~Announced(c) /\ UNCHANGED told
               /\ decided' = decided \cup ({<<c, src>>} \ (told \X Source))
    /\ UNCHANGED <<tree, counters, feedback, rest>>

\* The removal of live comments, with the counts they had added to.
Erase(S) ==
    /\ deleted' = deleted \cup S
    /\ replies' = [c \in Comment |-> Less(replies[c], Cardinality(S \cap Answers(c)))]
    /\ total' = Less(total, Cardinality(S))
    /\ roots' = Less(roots, Cardinality(S \cap LiveRoots))

InTrash == {c \in Live : status[c] = "trash"}

DeleteForever(c) ==
    /\ c \in InTrash
    /\ Erase({c})
    /\ UNCHANGED <<status, parent, feedback, notice, rest>>

ClearTrash ==
    /\ InTrash # {}
    /\ Erase(InTrash)
    /\ UNCHANGED <<status, parent, feedback, notice, rest>>

-----------------------------------------------------------------------------
(* A visitor's vote for a comment, or like of the page.                    *)

\* A slip: nobody looks for an earlier vote.
VoteAgain(v, x) ==
    /\ x # Page => x \in Live
    /\ voters' = [voters EXCEPT ![x] = @ \cup {v}]
    /\ tally' = [tally EXCEPT ![x] = @ + 1]
    /\ UNCHANGED <<unnamed, tree, counters, notice, rest>>

Vote(v, x) ==
    /\ x # Page => x \in Live
    /\ v \notin voters[x]
    /\ voters' = [voters EXCEPT ![x] = @ \cup {v}]
    /\ tally' = [tally EXCEPT ![x] = @ + 1]
    /\ UNCHANGED <<unnamed, tree, counters, notice, rest>>

\* While visitors are turned off nobody is named: no record, and each call
\* counts.
VoteUnnamed(x) ==
    /\ x # Page => x \in Live
    /\ \A y \in Item : unnamed[y] < MaxUnnamed
    /\ tally' = [tally EXCEPT ![x] = @ + 1]
    /\ unnamed' = [unnamed EXCEPT ![x] = @ + 1]
    /\ UNCHANGED <<voters, tree, counters, notice, rest>>

-----------------------------------------------------------------------------
(* The process ends; requests at Akismet or at the audit log are lost with *)
(* it, and C is what else was not planned.                                 *)

Down(C) ==
    /\ crashes < MaxCrashes
    /\ crashes' = crashes + 1
    /\ planning' = {}
    /\ cut' = cut \cup {c \in Comment : \E src \in Source : <<c, src>> \in planning} \cup C
    /\ UNCHANGED <<decided, told>>

Unasked(f) == [c \in Comment |-> IF f[c] = "asked" THEN "absent" ELSE f[c]]

CrashIdle ==
    /\ Down({})
    /\ status' = Unasked(status)
    /\ UNCHANGED <<parent, deleted, counters, feedback>>

\* The row is there; its counts may be.
CrashInInsert(c, p, s) ==
    /\ Down({d \in {c} : s = "approved" /\ p # Root})
    /\ \/ status[c] = "absent" /\ MayAnswer(p) /\ s \in {"pending", "approved"}
       \/ status[c] = "asked" /\ p = parent[c] /\ s \in {"pending", "approved", "spam"}
    /\ status' = [Unasked(status) EXCEPT ![c] = s]
    /\ parent' = [parent EXCEPT ![c] = p]
    /\ \/ Count(p)
       \/ UNCHANGED <<total, roots>>
          /\ replies' = [d \in Comment |-> IF d = p THEN replies[d] + 1 ELSE replies[d]]
       \/ UNCHANGED counters
    /\ UNCHANGED <<deleted, feedback>>

\* The comments of S are gone with their counts; c's row is, its counts may be.
CrashInErase(S, c) ==
    /\ Down({})
    /\ S \subseteq InTrash /\ c \in InTrash \ S
    /\ status' = Unasked(status)
    /\ deleted' = deleted \cup S \cup {c}
    /\ total' = Less(total, Cardinality(S))
    /\ roots' = Less(roots, Cardinality(S \cap LiveRoots))
    /\ LET R == S \cup {d \in {c} : IsReply(c)}
       IN \/ replies' = [d \in Comment |-> Less(replies[d], Cardinality(S \cap Answers(d)))]
          \/ replies' = [d \in Comment |-> Less(replies[d], Cardinality(R \cap Answers(d)))]
    /\ UNCHANGED <<parent, feedback>>

\* The record is there, its count is not.
CrashInVote(v, x) ==
    /\ Down({})
    /\ x # Page => x \in Live
    /\ v \notin voters[x]
    /\ voters' = [voters EXCEPT ![x] = @ \cup {v}]
    /\ status' = Unasked(status)
    /\ UNCHANGED <<parent, deleted, counters, tally, unnamed>>

-----------------------------------------------------------------------------

ByVisitor ==
    \/ \E c \in Comment, p \in Comment \cup {Root} : Ask(c, p) \/ \E s \in Shelf : Create(c, p, s)
    \/ \E v \in Visitor, x \in Item : Vote(v, x)
    \/ \E x \in Item : VoteUnnamed(x)
ByAkismet == \E c \in Comment, s \in Shelf : Answer(c, s)
ByAdmin ==
    \/ \E c, p \in Comment : AdminReply(c, p)
    \/ \E c \in Comment, s \in Shelf : Moderate(c, s)
    \/ \E S \in SUBSET Comment, s \in Shelf : ModerateMany(S, s)
    \/ \E c \in Comment : DeleteForever(c)
    \/ ClearTrash
ByPlanner == \E c \in Comment, src \in Source : Plan(c, src)
Crash ==
    \/ CrashIdle
    \/ \E c \in Comment, p \in Comment \cup {Root}, s \in Shelf : CrashInInsert(c, p, s)
    \/ \E S \in SUBSET Comment, c \in Comment : CrashInErase(S, c)
    \/ \E v \in Visitor, x \in Item : CrashInVote(v, x)

Next == ByVisitor \/ ByAkismet \/ ByAdmin \/ ByPlanner \/ Crash
Spec == Init /\ [][Next]_vars

-----------------------------------------------------------------------------

(* The type invariant of the comments, counters and votes                  *)
(* (db/schema/comments.ts, pages.ts).                                      *)
TypeOK ==
    /\ status \in [Comment -> Status]
    /\ parent \in [Comment -> Comment \cup {Root}]
    /\ deleted \subseteq Stored
    /\ total \in Nat /\ roots \in Nat
    /\ replies \in [Comment -> Nat]
    /\ voters \in [Item -> SUBSET Visitor]
    /\ tally \in [Item -> Nat]
    /\ unnamed \in [Item -> Nat]
    /\ planning \subseteq Stored \X Source
    /\ decided \subseteq Stored \X Source
    /\ told \subseteq Stored
    /\ crashes \in 0..MaxCrashes
    /\ cut \subseteq Stored

Near(n, S, slack) == n <= Cardinality(S) + slack /\ Cardinality(S) <= n + slack

(* The cached counts of a thread follow its comments through creation, a   *)
(* late Akismet answer, trash, restoration and deletion in any order: each *)
(* crash puts a count off by one at most, and nothing else does.           *)
CountsFollow ==
    /\ Near(total, Live, crashes)
    /\ Near(roots, LiveRoots, crashes)
    /\ \A c \in Comment : Near(replies[c], Answers(c), crashes)

(* Of what visitors counted under their names each vote and like is        *)
(* counted once, however calls with and without a name alternate: a crash  *)
(* may lose one from the count, and none is counted twice.                 *)
TallyFollows ==
    \A x \in Item :
        /\ tally[x] <= Cardinality(voters[x]) + unnamed[x]
        /\ Cardinality(voters[x]) + unnamed[x] <= tally[x] + crashes

\* A moderation of c was planned when c was no approved reply any more: the
\* audit log was slower than the next moderation, and no later one is planned.
Overtaken(c) == <<c, "moderated">> \in decided

Accounted(c) == c \in told \cup cut \/ Overtaken(c) \/ \E src \in Source : <<c, src>> \in planning

(* However a reply came to be approved - at once, by Akismet, one by one   *)
(* or in bulk, from pending, spam or trash - its mail was planned or is    *)
(* about to be, unless a crash prevented it, its parent is deleted, or a   *)
(* moderation was overtaken by another one while it waited for the audit   *)
(* log.  Nothing else keeps an approved reply from being announced, in     *)
(* particular no moderation that overtook the reply's own request.         *)
ApprovedReplyIsTold ==
    \A c \in Live :
        status[c] = "approved" /\ IsReply(c) /\ parent[c] \notin deleted
        => Accounted(c)
=============================================================================
