---------------------------- MODULE PageRegistry ----------------------------
(***************************************************************************)
(* The registry of the sites' pages: unknown pages that visitors hit and   *)
(* that wait for a decision, the administrators' trash, restore and        *)
(* delete, the delayed deletions and their cleanup, and the two task runs  *)
(* that write it from what they fetch: the sitemap refresh and the title   *)
(* refresh.                                                                *)
(*                                                                         *)
(* A page is a key on a site.  A lifecycle request need not name a site:   *)
(* it comes to a page of that key on any site, and so do the restoration   *)
(* and the cleanup of what it deleted.                                     *)
(*                                                                         *)
(* A request is one action: its statements run without a pause.  A task    *)
(* run pauses at every fetch, and the worker has one run at a time: that   *)
(* is the variable job.  No statement is in a transaction, so the process  *)
(* may end between any two of them: each Crash action is such a point.     *)
(***************************************************************************)
EXTENDS Integers, Sequences, FiniteSets

CONSTANTS Key, Site,
          Webs,         \* which pages there may be
          Retention,    \* SUBSET BOOLEAN: may deletion.retentionDays be > 0, be 0
          MaxSitemaps,  \* bound: sitemapUrls of a refresh
          MaxRecords,   \* bound: rows of delayed_deletions
          MaxCrashes    \* bound

Page == Key \X Site

ASSUME RegistryAssumption ==
    /\ IsFiniteSet(Key) /\ IsFiniteSet(Site)
    /\ Webs \subseteq SUBSET Page
    /\ Retention \subseteq BOOLEAN
    /\ MaxSitemaps \in Nat \ {0} /\ MaxRecords \in Nat /\ MaxCrashes \in Nat

\* "unreachable" stands for "not_found" too: every operation treats them alike.
Fetchable == {"active", "stale", "unreachable"}
Protected == {"trash", "deleted", "ignored"}
Status == Fetchable \cup Protected \cup {"absent"}
\* Approved, rejected and ignored candidates are alike: decided.
Decision == {"none", "pending", "decided"}
Idle == [kind |-> "idle"]

VARIABLES
    status,     \* site_page_registry.status, "absent" without a row
    candidate,  \* pending_page_candidates.status, "none" without a row
    records,    \* delayed_deletions; wide is one without a site
    job,        \* the task run under way
    web,        \* the pages there are: what a visitor or a sitemap may name
    crashes,    \* bound
    merges,     \* history: times a page's pending views were added to its thread
    astray      \* history: pages left "deleted" with no cleanup to come

registry == <<status, candidate>>
bounds   == <<web, crashes>>
history  == <<merges, astray>>
vars == <<registry, records, job, bounds, history>>

\* An end of an earlier process may have left the pages of S registered and
\* their candidates waiting: what the reconciliation is for.
LeftOver(S) ==
    /\ status = [p \in Page |-> IF p \in S THEN "active" ELSE "absent"]
    /\ candidate = [p \in Page |-> IF p \in S THEN "pending" ELSE "none"]

Init ==
    /\ web \in Webs
    /\ \E S \in SUBSET web : LeftOver(S)
    /\ records = <<>>
    /\ job = Idle
    /\ crashes = 0
    /\ merges = [p \in Page |-> 0]
    /\ astray = {}

At(s) == {p \in Page : p[2] = s}
Of(S, k) == {p \in S : p[1] = k}
Present == {p \in Page : status[p] # "absent"}
Waiting == {p \in Page : candidate[p] = "pending"}
Turn(S, s) == status' = [p \in Page |-> IF p \in S THEN s ELSE status[p]]
Decide(S, d) == candidate' = [p \in Page |-> IF p \in S THEN d ELSE candidate[p]]
Merge(S) == merges' = [p \in Page |-> IF p \in S THEN merges[p] + 1 ELSE merges[p]]

\* A job refers to rows by their id, and a removed row's id never comes back.
Forget(S) ==
    CASE job.kind = "titles" -> [job EXCEPT !.read = [p \in (DOMAIN @) \ S |-> @[p]]]
      [] job.kind = "sources" -> [job EXCEPT !.seen = @ \ S]
      [] OTHER -> job

-----------------------------------------------------------------------------
(* Visitors and the candidates.                                            *)

\* In discovery mode a page nobody registered is noted for review.
Visit(p) ==
    /\ p \in web /\ status[p] = "absent" /\ candidate[p] = "none"
    /\ Decide({p}, "pending")
    /\ UNCHANGED <<status, records, job, bounds, history>>

Approve(p) ==
    /\ candidate[p] = "pending"
    /\ Turn({p}, "active")
    /\ Merge({p})
    /\ Decide({p}, "decided")
    /\ astray' = astray \ {p}
    /\ UNCHANGED <<records, job, bounds>>

Reject(p) ==
    /\ candidate[p] # "none"
    /\ Decide({p}, "decided")
    /\ UNCHANGED <<status, records, job, bounds, history>>

Ignore(p) ==
    /\ candidate[p] # "none"
    /\ Decide({p}, "decided")
    /\ Turn({p}, "ignored")
    /\ astray' = astray \ {p}
    /\ UNCHANGED <<records, job, bounds, merges>>

\* qyctl, while the service is stopped: the registered pages' candidates.
Registered == {p \in Waiting : status[p] \in {"active", "stale"}}

\* A slip: the candidates stay pending.
ReconcileKeepsWaiting ==
    /\ job = Idle /\ Registered # {}
    /\ Merge(Registered)
    /\ UNCHANGED <<registry, records, job, bounds, astray>>

Reconcile ==
    /\ job = Idle /\ Registered # {}
    /\ Merge(Registered)
    /\ Decide(Registered, "decided")
    /\ UNCHANGED <<status, records, job, bounds, astray>>

-----------------------------------------------------------------------------
(* The administrators' page operations.                                    *)

\* From whatever status the page has.
Trash(p) ==
    /\ p \in Present
    /\ Turn({p}, "trash")
    /\ astray' = astray \ {p}
    /\ UNCHANGED <<candidate, records, job, bounds, merges>>

Restore(p) ==
    /\ p \in Present
    /\ Turn({p}, "active")
    /\ astray' = astray \ {p}
    /\ UNCHANGED <<candidate, records, job, bounds, merges>>

Entry(kind, S, wide, state) == [kind |-> kind, pages |-> S, wide |-> wide, state |-> state]

Request(entry) ==
    /\ Len(records) < MaxRecords
    /\ records' = Append(records, entry)

\* Without retention the record is settled at once, and the row stays.
DeletePage(p, wide) ==
    /\ p \in Present
    /\ Turn({p}, "deleted")
    /\ \/ /\ TRUE \in Retention
          /\ Request(Entry("page", {p}, wide, "pending"))
          /\ astray' = astray \ {p}
       \/ /\ FALSE \in Retention
          /\ Request(Entry("page", {p}, wide, "hard_deleted"))
          /\ astray' = astray \cup {p}
    /\ UNCHANGED <<candidate, job, bounds, merges>>

\* The trash of a site, or with no site that of all.
Scopes == [wide : {FALSE}, over : {At(s) : s \in Site}] \cup [wide : {TRUE}, over : {Page}]
InTrash(scope) == {p \in scope.over : status[p] = "trash"}

\* An empty trash leaves a record without pages: it changes nothing, and is
\* left out.
Full(scope) == InTrash(scope) # {}

\* A slip: the record does not name its pages.
ClearTrashUnnamed(scope) ==
    /\ TRUE \in Retention /\ Full(scope)
    /\ Turn(InTrash(scope), "deleted")
    /\ Request(Entry("page_trash", {}, scope.wide, "pending"))
    /\ UNCHANGED <<candidate, job, bounds, history>>

ClearTrash(scope) ==
    /\ TRUE \in Retention /\ Full(scope)
    /\ Turn(InTrash(scope), "deleted")
    /\ Request(Entry("page_trash", InTrash(scope), scope.wide, "pending"))
    /\ UNCHANGED <<candidate, job, bounds, history>>

\* The rows a deletion may come to: its pages, or without a site all of their keys.
Reach(entry) ==
    {q \in Present : IF entry.wide THEN \E p \in entry.pages : p[1] = q[1] ELSE q \in entry.pages}

Taken(I, hit) == UNION {hit[r] : r \in I}

\* What the deletions I of E remove: an entry takes one row for each page it
\* lists, while there is one.  One for a single page would fail without a row.
Course(I, E, hit) ==
    /\ \A r \in I : hit[r] \subseteq Reach(E[r]) /\ (E[r].kind = "page" => hit[r] # {})
    /\ \A r, e \in I : r # e => hit[r] \cap hit[e] = {}
    /\ \A r \in I, k \in Key :
          LET taken == Cardinality(Of(hit[r], k))  listed == Cardinality(Of(E[r].pages, k))
          IN \/ taken = listed
             \/ taken < listed /\ Of(Reach(E[r]), k) \subseteq Taken(I, hit)

ClearTrashAtOnce(scope) ==
    /\ FALSE \in Retention /\ Full(scope)
    /\ LET entry == Entry("page_trash", InTrash(scope), scope.wide, "hard_deleted") IN
       \E hit \in [{1} -> SUBSET Present] :
          /\ Course({1}, <<entry>>, hit)
          /\ status' = [p \in Page |-> IF p \in hit[1] THEN "absent"
                                      ELSE IF p \in entry.pages THEN "deleted" ELSE status[p]]
          /\ astray' = (astray \ hit[1]) \cup (entry.pages \ hit[1])
          /\ job' = Forget(hit[1])
          /\ Request(entry)
    /\ UNCHANGED <<candidate, bounds, merges>>

-----------------------------------------------------------------------------
(* The delayed deletions.                                                  *)

\* A slip: restored records are swept too.
PendingWhatever == {r \in DOMAIN records : records[r].state \in {"pending", "restored"}}

\* The moment up to which they are carried out is the caller's to name.
Pending == {r \in DOMAIN records : records[r].state = "pending"}

\* A page's record fails without a page; a trash's passes over those it misses.
Restorable(r) ==
    /\ records[r].state = "pending"
    /\ records[r].kind = "page" => Reach(records[r]) # {}

Settle(R, s) ==
    records' = [r \in DOMAIN records |-> IF r \in R THEN [records[r] EXCEPT !.state = s] ELSE records[r]]

\* Pages still "deleted" when a deletion without a site came to others.
Missed(R, H) ==
    {p \in Page \ H : status[p] = "deleted" /\ \E r \in R : records[r].wide /\ p \in records[r].pages}

\* An entry that is restored may find the same row as another of its key.
Revivals(entry) ==
    IF ~entry.wide THEN {Reach(entry)}
    ELSE {H \in SUBSET Reach(entry) : \A k \in Key :
             /\ Of(Reach(entry), k) # {} => Of(H, k) # {}
             /\ Cardinality(Of(H, k)) <= Cardinality(Of(entry.pages, k))}

RestoreDeletion(r) ==
    /\ Restorable(r)
    /\ \E H \in Revivals(records[r]) :
          /\ Turn(H, "active")
          /\ astray' = (astray \ H) \cup Missed({r}, H)
    /\ Settle({r}, "restored")
    /\ UNCHANGED <<candidate, job, bounds, merges>>

\* The first that fails ends the request; the others stay.
Cleanup(R) ==
    /\ R # {} /\ R \subseteq Pending
    /\ \E hit \in [R -> SUBSET Present] :
          LET H == Taken(R, hit) IN
          /\ Course(R, records, hit)
          /\ Turn(H, "absent")
          /\ job' = Forget(H)
          /\ astray' = (astray \ H) \cup Missed(R, H)
    /\ Settle(R, "hard_deleted")
    /\ UNCHANGED <<candidate, bounds, merges>>

-----------------------------------------------------------------------------
(* The sitemap refresh.                                                    *)

\* The refresh of a site without pages changes nothing, and is left out.
StartSources ==
    /\ job = Idle
    /\ \E s \in Site, n \in 1..MaxSitemaps, mode \in {"append", "replace"} :
          /\ web \cap At(s) # {}
          /\ job' = [kind |-> "sources", site |-> s, left |-> n, mode |-> mode, seen |-> {}]
    /\ UNCHANGED <<registry, records, bounds, history>>

Listable == web \cap At(job.site)

\* What a sitemap does to the registry: a page it lists gets a row, and a
\* candidate that waits is approved whatever status its page has.
AfterSitemap(S) ==
    [p \in Page |-> IF p \in S /\ (status[p] = "absent" \/ p \in Waiting) THEN "active" ELSE status[p]]

\* The answer of a sitemap that lists S; after the last one, a replacing
\* refresh marks the rows it has not seen.
LastSitemap(S) ==
    /\ job.kind = "sources" /\ job.left = 1 /\ S \subseteq Listable
    /\ status' = [p \in Page |->
          IF job.mode = "replace" /\ p \in At(job.site) \ (S \cup job.seen) /\ status[p] \in Fetchable
          THEN "stale" ELSE AfterSitemap(S)[p]]
    /\ Decide(S \cap Waiting, "decided")
    /\ Merge(S \cap Waiting)
    /\ astray' = astray \ (S \cap Waiting)
    /\ job' = Idle
    /\ UNCHANGED <<records, bounds>>

\* What an appending refresh has seen is never asked for.
Sitemap(S) ==
    /\ job.kind = "sources" /\ job.left > 1 /\ S \subseteq Listable
    /\ status' = AfterSitemap(S)
    /\ Decide(S \cap Waiting, "decided")
    /\ Merge(S \cap Waiting)
    /\ astray' = astray \ (S \cap Waiting)
    /\ job' = [job EXCEPT !.left = @ - 1, !.seen = IF job.mode = "replace" THEN @ \cup S ELSE @]
    /\ UNCHANGED <<records, bounds>>

-----------------------------------------------------------------------------
(* The title refresh reads the rows once, then fetches page after page.    *)

\* What the run makes of a row: a protected status, or one it may write.
Read(s) == IF s \in Protected THEN s ELSE "active"

StartTitles(S) ==
    /\ job = Idle /\ S # {}
    /\ \E s \in Site : S \subseteq Present \cap At(s)
    /\ job' = [kind |-> "titles", read |-> [p \in S |-> Read(status[p])]]
    /\ UNCHANGED <<registry, records, bounds, history>>

\* The status written comes from the one read when the run began.
Verdict(read, answer) ==
    IF read \in Protected THEN read
    ELSE IF answer = "title" THEN "active" ELSE "unreachable"

Title(p, answer) ==
    /\ job.kind = "titles" /\ p \in DOMAIN job.read
    /\ Turn({p}, Verdict(job.read[p], answer))
    /\ astray' = IF Verdict(job.read[p], answer) # "deleted" THEN astray \ {p}
                 ELSE IF status[p] = "deleted" THEN astray ELSE astray \cup {p}
    /\ job' = [job EXCEPT !.read = [q \in (DOMAIN @) \ {p} |-> @[q]]]
    /\ UNCHANGED <<candidate, records, bounds, merges>>

\* The last row is written, a fetch of a sitemap fails, or the run is aborted.
JobEnds ==
    /\ job # Idle
    /\ job' = Idle
    /\ UNCHANGED <<registry, records, bounds, history>>

-----------------------------------------------------------------------------
(* The process ends between two statements.                                *)

Down ==
    /\ crashes < MaxCrashes
    /\ crashes' = crashes + 1
    /\ UNCHANGED web
    /\ job' = Idle

CrashInJob ==
    /\ job # Idle
    /\ Down
    /\ UNCHANGED <<registry, records, history>>

\* After the row, and perhaps the thread, but before the candidate.
CrashInApprove(p) ==
    /\ candidate[p] = "pending"
    /\ Down
    /\ Turn({p}, "active")
    /\ Merge({p}) \/ UNCHANGED merges
    /\ astray' = astray \ {p}
    /\ UNCHANGED <<candidate, records>>

\* Within a sitemap's pages: those of D are done, p has its row only.
CrashInSitemap(D, p) ==
    /\ job.kind = "sources" /\ p \notin D /\ D \cup {p} \subseteq Listable
    /\ Down
    /\ status' = [AfterSitemap(D) EXCEPT ![p] = IF @ = "absent" THEN "active" ELSE @]
    /\ Decide(D \cap Waiting, "decided")
    /\ Merge(D \cap Waiting)
    /\ astray' = astray \ (D \cap Waiting)
    /\ UNCHANGED records

CrashInReconcile(p) ==
    /\ job = Idle /\ p \in Registered
    /\ Down
    /\ Merge({p})
    /\ UNCHANGED <<registry, records, astray>>

\* A page turned "deleted" without a record.
CrashInDelete(p) ==
    /\ p \in Present
    /\ Down
    /\ Turn({p}, "deleted")
    /\ astray' = IF status[p] = "deleted" THEN astray ELSE astray \cup {p}
    /\ UNCHANGED <<candidate, records, merges>>

\* So is a trash, and without retention some rows may be gone already.
CrashInClear(scope) ==
    /\ Full(scope)
    /\ Down
    /\ LET entry == Entry("page_trash", InTrash(scope), scope.wide, "pending") IN
       \E G \in SUBSET Reach(entry) :
          /\ FALSE \notin Retention => G = {}
          /\ status' = [p \in Page |-> IF p \in G THEN "absent"
                                      ELSE IF p \in entry.pages THEN "deleted" ELSE status[p]]
          /\ astray' = (astray \cup entry.pages) \ G
    /\ UNCHANGED <<candidate, records, merges>>

CrashInRestore(r) ==
    /\ Restorable(r)
    /\ Down
    /\ \E H \in Revivals(records[r]) : \E G \in SUBSET H :
          /\ Turn(G, "active")
          /\ astray' = astray \ G
    /\ UNCHANGED <<candidate, records, merges>>

\* The deletions of R are carried out, that of r is begun and not settled.
CrashInCleanup(R, r) ==
    /\ R \cup {r} \subseteq Pending /\ r \notin R
    /\ Down
    /\ \E hit \in [R -> SUBSET Present], G \in SUBSET Reach(records[r]) :
          LET H == G \cup Taken(R, hit) IN
          /\ Course(R, records, hit)
          /\ \A k \in Key : Cardinality(Of(G, k)) <= Cardinality(Of(records[r].pages, k))
          /\ Turn(H, "absent")
          /\ astray' = (astray \ H) \cup Missed(R, H)
    /\ Settle(R, "hard_deleted")
    /\ UNCHANGED <<candidate, merges>>

-----------------------------------------------------------------------------

ByVisitor == \E p \in Page : Visit(p)
ByAdmin ==
    \/ \E p \in Page : Approve(p) \/ Reject(p) \/ Ignore(p) \/ Trash(p) \/ Restore(p)
    \/ \E p \in Page, wide \in BOOLEAN : DeletePage(p, wide)
    \/ \E scope \in Scopes : ClearTrash(scope) \/ ClearTrashAtOnce(scope)
    \/ \E r \in DOMAIN records : RestoreDeletion(r)
    \/ \E R \in SUBSET DOMAIN records : Cleanup(R)
    \/ Reconcile
ByJob ==
    \/ StartSources
    \/ \E S \in SUBSET web : Sitemap(S) \/ LastSitemap(S) \/ StartTitles(S)
    \/ \E p \in Page, answer \in {"title", "error"} : Title(p, answer)
    \/ JobEnds
Crash ==
    \/ CrashInJob
    \/ \E p \in Page : CrashInApprove(p) \/ CrashInReconcile(p) \/ CrashInDelete(p)
    \/ \E D \in SUBSET web, p \in web : CrashInSitemap(D, p)
    \/ \E scope \in Scopes : CrashInClear(scope)
    \/ \E r \in DOMAIN records : CrashInRestore(r)
    \/ \E r \in DOMAIN records, R \in SUBSET DOMAIN records : CrashInCleanup(R, r)

Next == ByVisitor \/ ByAdmin \/ ByJob \/ Crash
Spec == Init /\ [][Next]_vars
-----------------------------------------------------------------------------

Record == [kind : {"page", "page_trash"}, pages : SUBSET Page, wide : BOOLEAN,
           state : {"pending", "restored", "hard_deleted"}]
Jobs ==
    {Idle}
    \cup [kind : {"sources"}, site : Site, left : 1..MaxSitemaps, mode : {"append", "replace"},
          seen : SUBSET Page]
    \cup [kind : {"titles"}, read : UNION {[S -> {"active"} \cup Protected] : S \in SUBSET Page}]

(* The type invariant of the registry, the deletions and the job           *)
(* (page-registry.ts, delayed-deletions.ts).                               *)
TypeOK ==
    /\ status \in [Page -> Status]
    /\ candidate \in [Page -> Decision]
    /\ records \in Seq(Record)
    /\ job \in Jobs
    /\ web \subseteq Page
    /\ crashes \in 0..MaxCrashes
    /\ merges \in [Page -> Nat]
    /\ astray \subseteq Page

(* The views that piled up while a page was unknown are added to its       *)
(* thread once, whoever registers it, and once more at most per crash:     *)
(* a candidate never waits again after it was decided.                     *)
ViewsMergedOnce == \A p \in Page : merges[p] <= 1 + crashes

Covered(p) == \E r \in Pending : p \in records[r].pages

(* A page that is "deleted" is in a pending deletion, so a cleanup or a    *)
(* restoration will come for it; the exceptions are those astray names:    *)
(* a crash before the record, retention 0, a title run's old status, and a *)
(* deletion without a site that came to another site's page instead.       *)
DeletedIsRecorded ==
    \A p \in Page : status[p] = "deleted" => p \in astray \/ Covered(p)

(* A registry row disappears only while a deletion of its key is pending,  *)
(* and of its site unless the deletion names none, or with a trash without *)
(* retention; a deletion that was restored or carried out removes nothing. *)
(* When it was requested is no promise: the cleanup's caller names the     *)
(* moment up to which deletions count as due.                              *)
RemovalEarned ==
    [][\A p \in Page : p \in Present /\ status'[p] = "absent" =>
          \/ \E r \in DOMAIN records : records[r].state = "pending" /\ p \in Reach(records[r])
          \/ FALSE \in Retention /\ \E q \in Page : q[1] = p[1] /\ status[q] = "trash"]_vars

(* What the page list tells an administrator: a page in the trash stays    *)
(* out of the public site until somebody restores or approves it.          *)
ProtectedUntilRestored ==
    [][\A p \in Page : status[p] \in Protected /\ status'[p] \in Fetchable =>
          \/ Restore(p) \/ Approve(p) \/ CrashInApprove(p)
          \/ \E r \in DOMAIN records : RestoreDeletion(r) \/ CrashInRestore(r)]_vars

=============================================================================
