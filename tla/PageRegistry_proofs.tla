------------------------ MODULE PageRegistry_proofs ------------------------
(***************************************************************************)
(* For every set of pages, any number of deletions, sitemaps and crashes:  *)
(* views are merged once, a page that is "deleted" is covered by a pending *)
(* deletion, and a row is removed only for a deletion that is pending.     *)
(***************************************************************************)
EXTENDS PageRegistry, FiniteSetTheorems, TLAPS

\* A candidate's views are still to be merged until it is decided; a crash may
\* have come between the two.
Undecided == \A p \in Page : merges[p] <= crashes + (IF candidate[p] = "decided" THEN 1 ELSE 0)

IInv == TypeOK /\ Undecided /\ DeletedIsRecorded

-----------------------------------------------------------------------------
LEMMA JobShape ==
    ASSUME job \in Jobs
    PROVE  \/ job = Idle
           \/ /\ job = [kind |-> "sources", site |-> job.site, left |-> job.left, mode |-> job.mode, seen |-> job.seen]
              /\ job.site \in Site
              /\ job.left \in 1..MaxSitemaps /\ job.mode \in {"append", "replace"} /\ job.seen \subseteq Page
           \/ /\ job = [kind |-> "titles", read |-> job.read]
              /\ DOMAIN job.read \subseteq Page
              /\ job.read \in [DOMAIN job.read -> {"active"} \cup Protected]
BY DEF Jobs

LEMMA TitlesJob ==
    ASSUME NEW read, DOMAIN read \subseteq Page, read \in [DOMAIN read -> {"active"} \cup Protected]
    PROVE  [kind |-> "titles", read |-> read] \in Jobs
BY DEF Jobs

LEMMA ForgetShape == ASSUME job \in Jobs, NEW S PROVE Forget(S) \in Jobs
<1>1. CASE job.kind = "titles"
  <2>. DEFINE kept == [p \in (DOMAIN job.read) \ S |-> job.read[p]]
  <2>1. Forget(S) = [kind |-> "titles", read |-> kept]
    BY <1>1, JobShape DEF Forget, Idle
  <2>2. DOMAIN kept \subseteq Page /\ kept \in [DOMAIN kept -> {"active"} \cup Protected]
    BY <1>1, JobShape DEF Idle
  <2>. QED
    BY <2>1, <2>2, TitlesJob
<1>2. CASE job.kind = "sources"
  <2>1. Forget(S) = [job EXCEPT !.seen = @ \ S]
    BY <1>2 DEF Forget
  <2>. QED
    BY <1>2, <2>1, JobShape DEF Idle, Jobs
<1>3. CASE job.kind \notin {"titles", "sources"}
  BY <1>3 DEF Forget
<1>. QED
  BY <1>1, <1>2, <1>3

LEMMA SettleShape ==
    ASSUME records \in Seq(Record), NEW R, NEW s \in {"pending", "restored", "hard_deleted"}, Settle(R, s)
    PROVE  records' \in Seq(Record) /\ DOMAIN records' = DOMAIN records
<1>1. records \in [1..Len(records) -> Record] /\ DOMAIN records = 1..Len(records) /\ Len(records) \in Nat
  OBVIOUS
<1>2. \A r \in DOMAIN records : records[r] \in Record /\ [records[r] EXCEPT !.state = s] \in Record
  BY <1>1 DEF Record
<1>3. records' \in [1..Len(records) -> Record]
  BY <1>1, <1>2 DEF Settle
<1>. QED
  BY <1>1, <1>3

LEMMA RecordShape ==
    ASSUME records \in Seq(Record), NEW r \in DOMAIN records
    PROVE  records[r].wide \in BOOLEAN /\ records[r].pages \subseteq Page
<1>1. records[r] \in Record
  OBVIOUS
<1>. QED
  BY <1>1 DEF Record

LEMMA EntryShape ==
    ASSUME NEW kind \in {"page", "page_trash"}, NEW S \in SUBSET Page, NEW wide \in BOOLEAN,
           NEW s \in {"pending", "hard_deleted"}
    PROVE  Entry(kind, S, wide, s) \in Record
BY DEF Entry, Record

LEMMA RequestShape ==
    ASSUME records \in Seq(Record), NEW entry \in Record, Request(entry)
    PROVE  /\ records' \in Seq(Record)
           /\ DOMAIN records \subseteq DOMAIN records'
           /\ \A r \in DOMAIN records : records'[r] = records[r]
           /\ Len(records) + 1 \in DOMAIN records'
           /\ records'[Len(records) + 1] = entry
BY DEF Request

\* A page covered by a record stays so while only records of R are settled
\* and its own is none of them.
LEMMA StillCovered ==
    ASSUME records \in Seq(Record), NEW R, NEW s \in {"restored", "hard_deleted"}, Settle(R, s),
           NEW r \in Pending \ R, NEW p \in records[r].pages
    PROVE  Covered(p)'
<1>1. DOMAIN records' = DOMAIN records /\ records'[r] = records[r]
  BY SettleShape DEF Settle, Pending
<1>. QED
  BY <1>1 DEF Covered, Pending

\* A deletion that names its site comes to each of its pages that has a row.
LEMMA CourseTakes ==
    ASSUME NEW I, NEW E, NEW hit, Course(I, E, hit)
    PROVE  \A r \in I : E[r].wide = FALSE /\ E[r].pages \subseteq Page =>
                           E[r].pages \cap Present \subseteq Taken(I, hit)
<1>. SUFFICES ASSUME NEW r \in I, E[r].wide = FALSE, E[r].pages \subseteq Page,
                     NEW p \in E[r].pages, p \in Present
              PROVE  p \in Taken(I, hit)
  OBVIOUS
<1>. DEFINE k == p[1]
            listed == Of(E[r].pages, k)
            taken == Of(hit[r], k)
<1>1. k \in Key /\ p \in listed /\ p \in Of(Reach(E[r]), k)
  BY DEF Page, Of, Reach
<1>2. IsFiniteSet(listed)
  <2>1. IsFiniteSet(Page)
    BY FS_Product, RegistryAssumption DEF Page
  <2>. QED
    BY <2>1, FS_Subset DEF Of
<1>3. taken \subseteq listed
  BY DEF Course, Reach, Of
<1>4. CASE Cardinality(taken) = Cardinality(listed)
  <2>1. taken = listed
    BY <1>2, <1>3, <1>4, FS_Subset
  <2>. QED
    BY <1>1, <2>1 DEF Of, Taken
<1>5. CASE Of(Reach(E[r]), k) \subseteq Taken(I, hit)
  BY <1>1, <1>5
<1>. QED
  BY <1>1, <1>4, <1>5 DEF Course

LEMMA InitIInv == Init => IInv
<1>. SUFFICES ASSUME Init PROVE IInv
  OBVIOUS
<1>1. TypeOK
  BY RegistryAssumption DEF Init, LeftOver, TypeOK, Status, Fetchable, Decision, Jobs
<1>2. Undecided
  <2>1. \A p \in Page : merges[p] = 0
    BY DEF Init
  <2>2. crashes = 0
    BY DEF Init
  <2>. SUFFICES ASSUME NEW p \in Page
                PROVE  merges[p] <= crashes + (IF candidate[p] = "decided" THEN 1 ELSE 0)
    BY DEF Undecided
  <2>. QED
    BY <2>1, <2>2
<1>3. DeletedIsRecorded
  <2>1. \A p \in Page : status[p] # "deleted"
    BY DEF Init, LeftOver
  <2>. QED
    BY <2>1 DEF DeletedIsRecorded
<1>. QED
  BY <1>1, <1>2, <1>3 DEF IInv

LEMMA VisitKeeps == ASSUME IInv, NEW p \in Page, Visit(p) PROVE IInv'
<1>1. TypeOK'
  BY RegistryAssumption DEF IInv, TypeOK, Status, Fetchable, Protected, Decision, Visit, Decide,
     bounds, history
<1>2. Undecided'
  BY DEF IInv, TypeOK, Decision, Undecided, Visit, Decide, bounds, history
<1>3. DeletedIsRecorded'
  BY DEF IInv, DeletedIsRecorded, Covered, Pending, TypeOK, Status, Fetchable, Protected, Decision, Visit,
     Decide, bounds, history
<1>. QED
  BY <1>1, <1>2, <1>3 DEF IInv

LEMMA ApproveKeeps == ASSUME IInv, NEW p \in Page, Approve(p) PROVE IInv'
<1>1. TypeOK'
  BY RegistryAssumption DEF IInv, TypeOK, Status, Fetchable, Protected, Decision, Approve, Turn,
     Decide, Merge, bounds, history
<1>2. Undecided'
  BY DEF IInv, TypeOK, Decision, Undecided, Approve, Turn, Decide, Merge, bounds, history
<1>3. DeletedIsRecorded'
  BY DEF IInv, DeletedIsRecorded, Covered, Pending, TypeOK, Status, Fetchable, Protected, Decision, Approve,
     Turn, Decide, Merge, bounds, history
<1>. QED
  BY <1>1, <1>2, <1>3 DEF IInv

LEMMA RejectKeeps == ASSUME IInv, NEW p \in Page, Reject(p) PROVE IInv'
<1>1. TypeOK'
  BY RegistryAssumption DEF IInv, TypeOK, Status, Fetchable, Protected, Decision, Reject, Decide,
     bounds, history
<1>2. Undecided'
  BY DEF IInv, TypeOK, Decision, Undecided, Reject, Decide, bounds, history
<1>3. DeletedIsRecorded'
  BY DEF IInv, DeletedIsRecorded, Covered, Pending, TypeOK, Status, Fetchable, Protected, Decision, Reject,
     Decide, bounds, history
<1>. QED
  BY <1>1, <1>2, <1>3 DEF IInv

LEMMA IgnoreKeeps == ASSUME IInv, NEW p \in Page, Ignore(p) PROVE IInv'
<1>1. TypeOK'
  BY RegistryAssumption DEF IInv, TypeOK, Status, Fetchable, Protected, Decision, Ignore, Turn,
     Decide, bounds, history
<1>2. Undecided'
  BY DEF IInv, TypeOK, Decision, Undecided, Ignore, Turn, Decide, bounds, history
<1>3. DeletedIsRecorded'
  BY DEF IInv, DeletedIsRecorded, Covered, Pending, TypeOK, Status, Fetchable, Protected, Decision, Ignore,
     Turn, Decide, bounds, history
<1>. QED
  BY <1>1, <1>2, <1>3 DEF IInv

LEMMA ReconcileKeeps == ASSUME IInv, Reconcile PROVE IInv'
<1>1. TypeOK'
  BY RegistryAssumption DEF IInv, TypeOK, Status, Fetchable, Protected, Decision, Reconcile, Decide,
     Merge, Waiting, bounds, history, Registered
<1>2. Undecided'
  BY DEF IInv, TypeOK, Decision, Undecided, Reconcile, Decide, Merge, Waiting, bounds, history, Registered
<1>3. DeletedIsRecorded'
  BY DEF IInv, DeletedIsRecorded, Covered, Pending, TypeOK, Status, Fetchable, Protected, Decision,
     Reconcile, Decide, Merge, Waiting, bounds, history, Registered
<1>. QED
  BY <1>1, <1>2, <1>3 DEF IInv

LEMMA TrashKeeps == ASSUME IInv, NEW p \in Page, Trash(p) PROVE IInv'
<1>1. TypeOK'
  BY RegistryAssumption DEF IInv, TypeOK, Status, Fetchable, Protected, Decision, Trash, Turn,
     Present, bounds, history
<1>2. Undecided'
  BY DEF IInv, TypeOK, Decision, Undecided, Trash, Turn, Present, bounds, history
<1>3. DeletedIsRecorded'
  BY DEF IInv, DeletedIsRecorded, Covered, Pending, TypeOK, Status, Fetchable, Protected, Decision, Trash,
     Turn, Present, bounds, history
<1>. QED
  BY <1>1, <1>2, <1>3 DEF IInv

LEMMA RestoreKeeps == ASSUME IInv, NEW p \in Page, Restore(p) PROVE IInv'
<1>1. TypeOK'
  BY RegistryAssumption DEF IInv, TypeOK, Status, Fetchable, Protected, Decision, Restore, Turn,
     Present, bounds, history
<1>2. Undecided'
  BY DEF IInv, TypeOK, Decision, Undecided, Restore, Turn, Present, bounds, history
<1>3. DeletedIsRecorded'
  BY DEF IInv, DeletedIsRecorded, Covered, Pending, TypeOK, Status, Fetchable, Protected, Decision, Restore,
     Turn, Present, bounds, history
<1>. QED
  BY <1>1, <1>2, <1>3 DEF IInv

LEMMA DeletePageKeeps == ASSUME IInv, NEW p \in Page, NEW wide \in BOOLEAN, DeletePage(p, wide) PROVE IInv'
<1>. PICK s \in {"pending", "hard_deleted"} :
        /\ Request(Entry("page", {p}, wide, s))
        /\ astray' = IF s = "pending" THEN astray \ {p} ELSE astray \cup {p}
  BY DEF DeletePage
<1>. DEFINE entry == Entry("page", {p}, wide, s)
<1>0. entry \in Record
  BY EntryShape
<1>1. TypeOK'
  BY RegistryAssumption, <1>0, RequestShape DEF IInv, TypeOK, Status, Protected, DeletePage, Turn, bounds
<1>2. Undecided'
  BY DEF IInv, TypeOK, Decision, Undecided, DeletePage, Turn, bounds, history
<1>3. DeletedIsRecorded'
  <2>. SUFFICES ASSUME NEW q \in Page, status'[q] = "deleted" PROVE q \in astray' \/ Covered(q)'
    BY DEF DeletedIsRecorded
  <2>1. CASE q # p /\ status[q] = "deleted"
    <3>1. q \in astray \/ Covered(q)
      BY <2>1 DEF IInv, DeletedIsRecorded
    <3>2. \A r \in DOMAIN records : r \in DOMAIN records' /\ records'[r] = records[r]
      BY <1>0, RequestShape DEF IInv, TypeOK
    <3>. QED
      BY <3>1, <3>2, <2>1 DEF Covered, Pending
  <2>2. CASE q = p /\ s = "pending"
    <3>1. Len(records) + 1 \in DOMAIN records' /\ records'[Len(records) + 1] = entry
      BY <1>0, RequestShape DEF IInv, TypeOK
    <3>. QED
      BY <2>2, <3>1 DEF Covered, Pending, Entry
  <2>3. CASE q = p /\ s # "pending"
    BY <2>3
  <2>. QED
    BY <2>1, <2>2, <2>3 DEF DeletePage, Turn, IInv, TypeOK
<1>. QED
  BY <1>1, <1>2, <1>3 DEF IInv

LEMMA TrashShape == ASSUME NEW scope \in Scopes PROVE InTrash(scope) \in SUBSET Page /\ scope.wide \in BOOLEAN
BY DEF Scopes, InTrash, At

LEMMA ClearTrashKeeps == ASSUME IInv, NEW scope \in Scopes, ClearTrash(scope) PROVE IInv'
<1>. DEFINE entry == Entry("page_trash", InTrash(scope), scope.wide, "pending")
<1>0. entry \in Record /\ Request(entry)
  BY EntryShape, TrashShape DEF ClearTrash
<1>1. TypeOK'
  BY RegistryAssumption, <1>0, RequestShape DEF IInv, TypeOK, Status, Protected, ClearTrash, Turn, bounds, history
<1>2. Undecided'
  BY DEF IInv, TypeOK, Decision, Undecided, ClearTrash, Turn, bounds, history
<1>3. DeletedIsRecorded'
  <2>. SUFFICES ASSUME NEW q \in Page, status'[q] = "deleted" PROVE q \in astray' \/ Covered(q)'
    BY DEF DeletedIsRecorded
  <2>1. CASE status[q] = "deleted"
    <3>1. q \in astray \/ Covered(q)
      BY <2>1 DEF IInv, DeletedIsRecorded
    <3>2. \A r \in DOMAIN records : r \in DOMAIN records' /\ records'[r] = records[r]
      BY <1>0, RequestShape DEF IInv, TypeOK
    <3>. QED
      BY <3>1, <3>2 DEF Covered, Pending, ClearTrash, history
  <2>2. CASE q \in InTrash(scope)
    <3>1. Len(records) + 1 \in DOMAIN records' /\ records'[Len(records) + 1] = entry
      BY <1>0, RequestShape DEF IInv, TypeOK
    <3>. QED
      BY <2>2, <3>1 DEF Covered, Pending, Entry
  <2>. QED
    BY <2>1, <2>2 DEF ClearTrash, Turn, IInv, TypeOK
<1>. QED
  BY <1>1, <1>2, <1>3 DEF IInv

LEMMA ClearTrashAtOnceKeeps == ASSUME IInv, NEW scope \in Scopes, ClearTrashAtOnce(scope) PROVE IInv'
<1>. DEFINE entry == Entry("page_trash", InTrash(scope), scope.wide, "hard_deleted")
<1>0. entry \in Record /\ entry.pages \subseteq Page
  BY EntryShape, TrashShape DEF Entry
<1>. PICK hit \in [{1} -> SUBSET Present] :
        /\ status' = [p \in Page |-> IF p \in hit[1] THEN "absent"
                                    ELSE IF p \in entry.pages THEN "deleted" ELSE status[p]]
        /\ astray' = (astray \ hit[1]) \cup (entry.pages \ hit[1])
        /\ job' = Forget(hit[1])
        /\ Request(entry)
  BY DEF ClearTrashAtOnce
<1>1. TypeOK'
  BY RegistryAssumption, <1>0, ForgetShape, RequestShape DEF IInv, TypeOK, Status, Protected, ClearTrashAtOnce, bounds
<1>2. Undecided'
  BY DEF IInv, TypeOK, Decision, Undecided, ClearTrashAtOnce, bounds
<1>3. DeletedIsRecorded'
  <2>. SUFFICES ASSUME NEW q \in Page, status'[q] = "deleted" PROVE q \in astray' \/ Covered(q)'
    BY DEF DeletedIsRecorded
  <2>1. CASE q \in entry.pages
    BY <2>1
  <2>2. CASE q \notin entry.pages
    <3>1. q \in astray \/ Covered(q)
      BY <2>2 DEF IInv, DeletedIsRecorded
    <3>2. \A r \in DOMAIN records : r \in DOMAIN records' /\ records'[r] = records[r]
      BY <1>0, RequestShape DEF IInv, TypeOK
    <3>. QED
      BY <3>1, <3>2, <2>2 DEF Covered, Pending
  <2>. QED
    BY <2>1, <2>2
<1>. QED
  BY <1>1, <1>2, <1>3 DEF IInv

LEMMA RevivalsReach == ASSUME NEW entry, NEW H \in Revivals(entry) PROVE H \subseteq Reach(entry)
BY DEF Revivals

LEMMA RestoreDeletionKeeps == ASSUME IInv, NEW r \in DOMAIN records, RestoreDeletion(r) PROVE IInv'
<1>. PICK H \in Revivals(records[r]) :
        Turn(H, "active") /\ astray' = (astray \ H) \cup Missed({r}, H)
  BY DEF RestoreDeletion
<1>1. TypeOK'
  BY RegistryAssumption, SettleShape DEF IInv, TypeOK, Status, Fetchable, RestoreDeletion, Turn,
     Missed, bounds
<1>2. Undecided'
  BY DEF IInv, TypeOK, Decision, Undecided, RestoreDeletion, Turn, bounds
<1>3. DeletedIsRecorded'
  <2>. SUFFICES ASSUME NEW q \in Page, status'[q] = "deleted" PROVE q \in astray' \/ Covered(q)'
    BY DEF DeletedIsRecorded
  <2>1. q \notin H /\ status[q] = "deleted" /\ q \in Present
    BY DEF IInv, TypeOK, Turn, Present
  <2>2. CASE q \in astray
    BY <2>1, <2>2
  <2>3. CASE \E e \in Pending \ {r} : q \in records[e].pages
    BY <2>3, StillCovered DEF IInv, TypeOK, RestoreDeletion
  <2>4. CASE q \in records[r].pages
    <3>1. records[r].wide \in BOOLEAN
      BY RecordShape DEF IInv, TypeOK
    <3>2. CASE records[r].wide = FALSE
      <4>1. H = Reach(records[r])
        BY <3>2 DEF Revivals
      <4>. QED
        BY <4>1, <3>2, <2>1, <2>4 DEF Reach
    <3>3. CASE records[r].wide = TRUE
      BY <3>3, <2>1, <2>4 DEF Missed
    <3>. QED
      BY <3>1, <3>2, <3>3
  <2>. QED
    BY <2>1, <2>2, <2>3, <2>4 DEF IInv, DeletedIsRecorded, Covered
<1>. QED
  BY <1>1, <1>2, <1>3 DEF IInv

\* Rows H are removed, among them those of the deletions R, which are settled.
LEMMA RemovalKeepsRecords ==
    ASSUME IInv, NEW R \in SUBSET Pending, NEW hit, Course(R, records, hit), NEW H,
           Taken(R, hit) \subseteq H, Settle(R, "hard_deleted"), Turn(H, "absent"),
           astray' = (astray \ H) \cup Missed(R, H)
    PROVE  DeletedIsRecorded'
<1>. SUFFICES ASSUME NEW q \in Page, status'[q] = "deleted" PROVE q \in astray' \/ Covered(q)'
  BY DEF DeletedIsRecorded
<1>1. q \notin H /\ status[q] = "deleted" /\ q \in Present
  BY DEF IInv, TypeOK, Turn, Present
<1>2. CASE q \in astray
  BY <1>1, <1>2
<1>3. CASE \E e \in Pending \ R : q \in records[e].pages
  BY <1>3, StillCovered DEF IInv, TypeOK
<1>4. CASE \E e \in R : q \in records[e].pages
  <2>. PICK e \in R : q \in records[e].pages
    BY <1>4
  <2>1. records[e].wide \in BOOLEAN /\ records[e].pages \subseteq Page
    BY RecordShape DEF IInv, TypeOK, Pending
  <2>2. CASE records[e].wide = FALSE
    <3>1. records[e].pages \cap Present \subseteq Taken(R, hit)
      BY <2>1, <2>2, CourseTakes
    <3>. QED
      BY <1>1, <3>1
  <2>3. CASE records[e].wide = TRUE
    BY <1>1, <2>3 DEF Missed
  <2>. QED
    BY <2>1, <2>2, <2>3
<1>. QED
  BY <1>1, <1>2, <1>3, <1>4 DEF IInv, DeletedIsRecorded, Covered

LEMMA CleanupKeeps == ASSUME IInv, NEW R \in SUBSET DOMAIN records, Cleanup(R) PROVE IInv'
<1>. PICK hit \in [R -> SUBSET Present] :
        LET H == Taken(R, hit) IN
        /\ Course(R, records, hit)
        /\ Turn(H, "absent")
        /\ job' = Forget(H)
        /\ astray' = (astray \ H) \cup Missed(R, H)
  BY DEF Cleanup
<1>. DEFINE H == Taken(R, hit)
<1>1. TypeOK'
  BY RegistryAssumption, ForgetShape, SettleShape DEF IInv, TypeOK, Status, Cleanup, Turn, Missed, bounds
<1>2. Undecided'
  BY DEF IInv, TypeOK, Decision, Undecided, Cleanup, bounds
<1>3. DeletedIsRecorded'
  <2>1. R \in SUBSET Pending /\ Settle(R, "hard_deleted")
    BY DEF Cleanup
  <2>. QED
    BY <2>1, RemovalKeepsRecords
<1>. QED
  BY <1>1, <1>2, <1>3 DEF IInv

LEMMA StartSourcesKeeps == ASSUME IInv, StartSources PROVE IInv'
<1>1. TypeOK'
  BY RegistryAssumption DEF IInv, TypeOK, Status, Fetchable, Protected, Decision, StartSources,
     registry, bounds, history, Jobs, Idle
<1>2. Undecided'
  BY DEF IInv, TypeOK, Decision, Undecided, StartSources, registry, bounds, history, Jobs, Idle
<1>3. DeletedIsRecorded'
  BY DEF IInv, DeletedIsRecorded, Covered, Pending, TypeOK, Status, Fetchable, Protected, Decision,
     StartSources, registry, bounds, history, Jobs, Idle
<1>. QED
  BY <1>1, <1>2, <1>3 DEF IInv

LEMMA LastSitemapKeeps == ASSUME IInv, NEW S \in SUBSET Page, LastSitemap(S) PROVE IInv'
<1>1. TypeOK'
  BY RegistryAssumption, JobShape DEF IInv, TypeOK, Status, Fetchable, Protected, Decision,
     LastSitemap, Decide, Merge, Waiting, bounds, history, AfterSitemap, Jobs, Idle
<1>2. Undecided'
  BY DEF IInv, TypeOK, Decision, Undecided, LastSitemap, Decide, Merge, Waiting, bounds, history,
     AfterSitemap, Jobs, Idle
<1>3. DeletedIsRecorded'
  BY DEF IInv, DeletedIsRecorded, Covered, Pending, TypeOK, Status, Fetchable, Protected, Decision,
     LastSitemap, Decide, Merge, Waiting, bounds, history, AfterSitemap, Jobs, Idle
<1>. QED
  BY <1>1, <1>2, <1>3 DEF IInv

LEMMA SitemapKeeps == ASSUME IInv, NEW S \in SUBSET Page, Sitemap(S) PROVE IInv'
<1>1. TypeOK'
  <2>1. job' \in Jobs
    <3>1. /\ job = [kind |-> "sources", site |-> job.site, left |-> job.left, mode |-> job.mode,
                     seen |-> job.seen]
          /\ job.site \in Site /\ job.left \in 1..MaxSitemaps /\ job.mode \in {"append", "replace"}
          /\ job.seen \subseteq Page /\ job.left > 1
      BY JobShape DEF IInv, TypeOK, Sitemap, Idle
    <3>2. job' = [kind |-> "sources", site |-> job.site, left |-> job.left - 1, mode |-> job.mode,
                  seen |-> IF job.mode = "replace" THEN job.seen \cup S ELSE job.seen]
      BY <3>1 DEF Sitemap
    <3>. QED
      BY <3>1, <3>2, RegistryAssumption DEF Jobs
  <2>. QED
    BY <2>1 DEF IInv, TypeOK, Status, Fetchable, Protected, Decision, Sitemap, Decide, Merge, Waiting,
       bounds, AfterSitemap
<1>2. Undecided'
  BY DEF IInv, TypeOK, Decision, Undecided, Sitemap, Decide, Merge, Waiting, bounds, history, AfterSitemap,
     Jobs, Idle
<1>3. DeletedIsRecorded'
  BY DEF IInv, DeletedIsRecorded, Covered, Pending, TypeOK, Status, Fetchable, Protected, Decision, Sitemap,
     Decide, Merge, Waiting, bounds, history, AfterSitemap, Jobs, Idle
<1>. QED
  BY <1>1, <1>2, <1>3 DEF IInv

LEMMA StartTitlesKeeps == ASSUME IInv, NEW S \in SUBSET Page, StartTitles(S) PROVE IInv'
<1>1. TypeOK'
  BY RegistryAssumption DEF IInv, TypeOK, Status, Fetchable, Protected, Decision, StartTitles,
     Present, registry, bounds, history, Jobs, Idle, Read
<1>2. Undecided'
  BY DEF IInv, TypeOK, Decision, Undecided, StartTitles, Present, registry, bounds, history, Jobs, Idle,
     Read
<1>3. DeletedIsRecorded'
  BY DEF IInv, DeletedIsRecorded, Covered, Pending, TypeOK, Status, Fetchable, Protected, Decision,
     StartTitles, Present, registry, bounds, history, Jobs, Idle, Read
<1>. QED
  BY <1>1, <1>2, <1>3 DEF IInv

LEMMA TitleKeeps == ASSUME IInv, NEW p \in Page, NEW answer, Title(p, answer) PROVE IInv'
<1>1. TypeOK'
  <2>. DEFINE rest == [q \in (DOMAIN job.read) \ {p} |-> job.read[q]]
  <2>1. job.read \in [DOMAIN job.read -> {"active"} \cup Protected] /\ DOMAIN job.read \subseteq Page
    BY JobShape DEF IInv, TypeOK, Title, Idle
  <2>2. job' = [kind |-> "titles", read |-> rest]
    BY JobShape DEF IInv, TypeOK, Title, Idle
  <2>3. rest \in [DOMAIN rest -> {"active"} \cup Protected] /\ DOMAIN rest \subseteq Page
    BY <2>1
  <2>4. job' \in Jobs
    BY <2>2, <2>3, TitlesJob
  <2>5. status' \in [Page -> Status] /\ astray' \subseteq Page
    BY <2>1 DEF IInv, TypeOK, Status, Fetchable, Protected, Title, Turn, Verdict
  <2>. QED
    BY <2>4, <2>5 DEF IInv, TypeOK, Title, bounds
<1>2. Undecided'
  BY DEF IInv, TypeOK, Decision, Undecided, Title, Turn, bounds, history, Verdict, Jobs, Idle
<1>3. DeletedIsRecorded'
  BY DEF IInv, DeletedIsRecorded, Covered, Pending, TypeOK, Status, Fetchable, Protected, Decision, Title,
     Turn, bounds, history, Verdict, Jobs, Idle
<1>. QED
  BY <1>1, <1>2, <1>3 DEF IInv

LEMMA JobEndsKeeps == ASSUME IInv, JobEnds PROVE IInv'
<1>1. TypeOK'
  BY RegistryAssumption DEF IInv, TypeOK, Status, Fetchable, Protected, Decision, JobEnds, registry,
     bounds, history, Jobs, Idle
<1>2. Undecided'
  BY DEF IInv, TypeOK, Decision, Undecided, JobEnds, registry, bounds, history, Jobs, Idle
<1>3. DeletedIsRecorded'
  BY DEF IInv, DeletedIsRecorded, Covered, Pending, TypeOK, Status, Fetchable, Protected, Decision, JobEnds,
     registry, bounds, history, Jobs, Idle
<1>. QED
  BY <1>1, <1>2, <1>3 DEF IInv

LEMMA CrashInJobKeeps == ASSUME IInv, CrashInJob PROVE IInv'
<1>1. TypeOK'
  BY RegistryAssumption DEF IInv, TypeOK, Status, Fetchable, Protected, Decision, CrashInJob, Down,
     registry, bounds, history, Jobs, Idle
<1>2. Undecided'
  BY DEF IInv, TypeOK, Decision, Undecided, CrashInJob, Down, registry, bounds, history, Jobs, Idle
<1>3. DeletedIsRecorded'
  BY DEF IInv, DeletedIsRecorded, Covered, Pending, TypeOK, Status, Fetchable, Protected, Decision,
     CrashInJob, Down, registry, bounds, history, Jobs, Idle
<1>. QED
  BY <1>1, <1>2, <1>3 DEF IInv

LEMMA CrashInApproveKeeps == ASSUME IInv, NEW p \in Page, CrashInApprove(p) PROVE IInv'
<1>1. TypeOK'
  BY RegistryAssumption DEF IInv, TypeOK, Status, Fetchable, Protected, Decision, CrashInApprove,
     Turn, Merge, Down, bounds, history, Jobs, Idle
<1>2. Undecided'
  <2>1. merges \in [Page -> Nat] /\ candidate' = candidate /\ crashes' = crashes + 1 /\ crashes \in Nat
    BY RegistryAssumption DEF IInv, TypeOK, CrashInApprove, Down
  <2>2. \A q \in Page : merges'[q] = merges[q] \/ merges'[q] = merges[q] + 1
    BY <2>1 DEF CrashInApprove, Merge
  <2>. QED
    BY <2>1, <2>2 DEF IInv, Undecided
<1>3. DeletedIsRecorded'
  BY DEF IInv, DeletedIsRecorded, Covered, Pending, TypeOK, Status, Fetchable, Protected, Decision,
     CrashInApprove, Turn, Merge, Down, bounds, history, Jobs, Idle
<1>. QED
  BY <1>1, <1>2, <1>3 DEF IInv

LEMMA CrashInSitemapKeeps == ASSUME IInv, NEW D \in SUBSET Page, NEW p \in Page, CrashInSitemap(D, p) PROVE IInv'
<1>1. TypeOK'
  BY RegistryAssumption DEF IInv, TypeOK, Status, Fetchable, Protected, Decision, CrashInSitemap,
     Decide, Merge, Down, Waiting, bounds, history, AfterSitemap, Jobs, Idle
<1>2. Undecided'
  BY DEF IInv, TypeOK, Decision, Undecided, CrashInSitemap, Decide, Merge, Down, Waiting, bounds, history,
     AfterSitemap, Jobs, Idle
<1>3. DeletedIsRecorded'
  BY DEF IInv, DeletedIsRecorded, Covered, Pending, TypeOK, Status, Fetchable, Protected, Decision,
     CrashInSitemap, Decide, Merge, Down, Waiting, bounds, history, AfterSitemap, Jobs, Idle
<1>. QED
  BY <1>1, <1>2, <1>3 DEF IInv

LEMMA CrashInReconcileKeeps == ASSUME IInv, NEW p \in Page, CrashInReconcile(p) PROVE IInv'
<1>1. TypeOK'
  BY RegistryAssumption DEF IInv, TypeOK, Status, Fetchable, Protected, Decision, CrashInReconcile,
     Merge, Down, Waiting, registry, bounds, history, Registered, Jobs, Idle
<1>2. Undecided'
  BY DEF IInv, TypeOK, Decision, Undecided, CrashInReconcile, Merge, Down, Waiting, registry,
     bounds, history, Registered, Jobs, Idle
<1>3. DeletedIsRecorded'
  BY DEF IInv, DeletedIsRecorded, Covered, Pending, TypeOK, Status, Fetchable, Protected, Decision,
     CrashInReconcile, Merge, Down, Waiting, registry, bounds, history, Registered, Jobs, Idle
<1>. QED
  BY <1>1, <1>2, <1>3 DEF IInv

LEMMA CrashInDeleteKeeps == ASSUME IInv, NEW p \in Page, CrashInDelete(p) PROVE IInv'
<1>1. TypeOK'
  BY RegistryAssumption DEF IInv, TypeOK, Status, Protected, CrashInDelete, Turn, Down, Jobs, Idle
<1>2. Undecided'
  BY DEF IInv, TypeOK, Decision, Undecided, CrashInDelete, Down
<1>3. DeletedIsRecorded'
  BY DEF IInv, DeletedIsRecorded, Covered, Pending, TypeOK, CrashInDelete, Turn
<1>. QED
  BY <1>1, <1>2, <1>3 DEF IInv

LEMMA CrashInClearKeeps == ASSUME IInv, NEW scope \in Scopes, CrashInClear(scope) PROVE IInv'
<1>. DEFINE entry == Entry("page_trash", InTrash(scope), scope.wide, "pending")
<1>. PICK G \in SUBSET Reach(entry) :
        /\ status' = [p \in Page |-> IF p \in G THEN "absent"
                                    ELSE IF p \in entry.pages THEN "deleted" ELSE status[p]]
        /\ astray' = (astray \cup entry.pages) \ G
  BY DEF CrashInClear
<1>0. entry.pages \subseteq Page
  BY TrashShape DEF Entry
<1>1. TypeOK'
  BY RegistryAssumption, <1>0 DEF IInv, TypeOK, Status, Protected, CrashInClear, Down, Jobs, Idle
<1>2. Undecided'
  BY DEF IInv, TypeOK, Decision, Undecided, CrashInClear, Down
<1>3. DeletedIsRecorded'
  BY DEF IInv, DeletedIsRecorded, Covered, Pending, TypeOK, CrashInClear
<1>. QED
  BY <1>1, <1>2, <1>3 DEF IInv

LEMMA CrashInRestoreKeeps == ASSUME IInv, NEW r \in DOMAIN records, CrashInRestore(r) PROVE IInv'
<1>. PICK G \in SUBSET Page : Turn(G, "active") /\ astray' = astray \ G
  BY RevivalsReach DEF CrashInRestore, Reach, Present
<1>1. TypeOK'
  BY RegistryAssumption DEF IInv, TypeOK, Status, Fetchable, CrashInRestore, Turn, Down, Jobs, Idle
<1>2. Undecided'
  BY DEF IInv, TypeOK, Decision, Undecided, CrashInRestore, Down
<1>3. DeletedIsRecorded'
  BY DEF IInv, DeletedIsRecorded, Covered, Pending, TypeOK, CrashInRestore, Turn
<1>. QED
  BY <1>1, <1>2, <1>3 DEF IInv

LEMMA CrashInCleanupKeeps ==
    ASSUME IInv, NEW R \in SUBSET DOMAIN records, NEW r \in DOMAIN records, CrashInCleanup(R, r)
    PROVE  IInv'
<1>. PICK hit \in [R -> SUBSET Present], G \in SUBSET Reach(records[r]) :
        LET H == G \cup Taken(R, hit) IN
        /\ Course(R, records, hit)
        /\ Turn(H, "absent")
        /\ astray' = (astray \ H) \cup Missed(R, H)
  BY DEF CrashInCleanup
<1>1. TypeOK'
  BY RegistryAssumption, SettleShape DEF IInv, TypeOK, Status, CrashInCleanup, Turn, Missed, Down, Jobs, Idle
<1>2. Undecided'
  BY DEF IInv, TypeOK, Decision, Undecided, CrashInCleanup, Down
<1>3. DeletedIsRecorded'
  <2>1. R \in SUBSET Pending /\ Settle(R, "hard_deleted")
    BY DEF CrashInCleanup
  <2>. QED
    BY <2>1, RemovalKeepsRecords
<1>. QED
  BY <1>1, <1>2, <1>3 DEF IInv

-----------------------------------------------------------------------------
LEMMA NextKeeps == ASSUME IInv, Next PROVE IInv'
<1>0. web \subseteq Page
  BY DEF IInv, TypeOK
<1>1. CASE ByVisitor
  BY <1>1, VisitKeeps DEF ByVisitor
<1>2. CASE ByAdmin
  BY <1>2, ApproveKeeps, RejectKeeps, IgnoreKeeps, TrashKeeps, RestoreKeeps, DeletePageKeeps,
     ClearTrashKeeps, ClearTrashAtOnceKeeps, ReconcileKeeps, CleanupKeeps, RestoreDeletionKeeps
     DEF ByAdmin
<1>3. CASE ByJob
  BY <1>0, <1>3, StartSourcesKeeps, SitemapKeeps, LastSitemapKeeps, StartTitlesKeeps, TitleKeeps,
     JobEndsKeeps DEF ByJob
<1>4. CASE Crash
  BY <1>0, <1>4, CrashInJobKeeps, CrashInApproveKeeps, CrashInReconcileKeeps, CrashInSitemapKeeps,
     CrashInDeleteKeeps, CrashInClearKeeps, CrashInRestoreKeeps, CrashInCleanupKeeps DEF Crash
<1>. QED
  BY <1>1, <1>2, <1>3, <1>4 DEF Next

(* The accounts of views and of deletions are inductive, through every     *)
(* operation, fetch and crash.                                             *)
THEOREM Invariance == Spec => []IInv
<1>1. IInv /\ UNCHANGED vars => IInv'
  BY DEF IInv, TypeOK, Undecided, DeletedIsRecorded, Covered, Pending, vars, registry, bounds, history
<1>. QED
  BY InitIInv, NextKeeps, <1>1, PTL DEF Spec

(* The variables of the registry keep their types.                         *)
THEOREM TypeCorrect == Spec => []TypeOK
BY Invariance, PTL DEF IInv

(* Views that piled up for an unknown page reach its thread once, and once *)
(* more at most for each crash.                                            *)
THEOREM ViewsOnce == Spec => []ViewsMergedOnce
<1>1. IInv => ViewsMergedOnce
  <2>. SUFFICES ASSUME IInv, NEW p \in Page PROVE merges[p] <= 1 + crashes
    BY DEF ViewsMergedOnce
  <2>. QED
    BY DEF IInv, Undecided, TypeOK
<1>. QED
  BY <1>1, Invariance, PTL

(* Apart from the named exceptions, a deleted page is in a deletion that   *)
(* will be carried out or restored.                                        *)
THEOREM DeletionsAreRecorded == Spec => []DeletedIsRecorded
BY Invariance, PTL DEF IInv

\* What the rows that a course removes have to do with its deletions.
LEMMA CourseEarned ==
    ASSUME NEW R, NEW E, NEW hit, Course(R, E, hit), NEW p \in Taken(R, hit)
    PROVE  \E r \in R : p \in Reach(E[r])
BY DEF Course, Taken

\* What removes a row: the cleanup, whole or cut short, and an emptied trash.
LEMMA StepRemoves ==
    ASSUME TypeOK, Next, NEW p \in Page, p \in Present, status'[p] = "absent"
    PROVE  \/ \E r \in DOMAIN records : records[r].state = "pending" /\ p \in Reach(records[r])
           \/ FALSE \in Retention /\ \E q \in Page : q[1] = p[1] /\ status[q] = "trash"
<1>0. status[p] # "absent" /\ status \in [Page -> Status]
  BY DEF Present, TypeOK
<1>1. CASE ByVisitor
  BY <1>0, <1>1 DEF ByVisitor, Visit
<1>2. CASE ByAdmin
  <2>1. CASE \E R \in SUBSET DOMAIN records : Cleanup(R)
    <3>. PICK R \in SUBSET DOMAIN records : Cleanup(R)
      BY <2>1
    <3>. PICK hit \in [R -> SUBSET Present] :
            Course(R, records, hit) /\ Turn(Taken(R, hit), "absent")
      BY DEF Cleanup
    <3>1. p \in Taken(R, hit)
      BY <1>0 DEF Turn
    <3>2. \E r \in R : p \in Reach(records[r])
      BY <3>1, CourseEarned
    <3>. QED
      BY <3>2 DEF Cleanup, Pending
  <2>2. CASE \E scope \in Scopes : ClearTrashAtOnce(scope)
    <3>. PICK scope \in Scopes : ClearTrashAtOnce(scope)
      BY <2>2
    <3>. DEFINE entry == Entry("page_trash", InTrash(scope), scope.wide, "hard_deleted")
    <3>. PICK hit \in [{1} -> SUBSET Present] :
            /\ Course({1}, <<entry>>, hit)
            /\ status' = [q \in Page |-> IF q \in hit[1] THEN "absent"
                                        ELSE IF q \in entry.pages THEN "deleted" ELSE status[q]]
      BY DEF ClearTrashAtOnce
    <3>1. p \in hit[1]
      BY <1>0
    <3>2. p \in Reach(entry)
      BY <3>1 DEF Course
    <3>3. entry.pages = InTrash(scope)
      BY DEF Entry
    <3>. QED
      BY <3>2, <3>3, TrashShape DEF Reach, InTrash, ClearTrashAtOnce
  <2>3. CASE \E q \in Page : Approve(q) \/ Reject(q) \/ Ignore(q) \/ Trash(q) \/ Restore(q)
    BY <1>0, <2>3 DEF Approve, Reject, Ignore, Trash, Restore, Turn
  <2>4. CASE Reconcile \/ \E q \in Page, wide \in BOOLEAN : DeletePage(q, wide)
    BY <1>0, <2>4 DEF DeletePage, Reconcile, Turn
  <2>5. CASE \E scope \in Scopes : ClearTrash(scope)
    BY <1>0, <2>5 DEF ClearTrash, Turn
  <2>6. CASE \E r \in DOMAIN records : RestoreDeletion(r)
    BY <1>0, <2>6 DEF RestoreDeletion, Turn
  <2>. QED
    BY <1>2, <2>1, <2>2, <2>3, <2>4, <2>5, <2>6 DEF ByAdmin
<1>3. CASE ByJob
  <2>1. CASE StartSources \/ JobEnds \/ \E S \in SUBSET web : StartTitles(S)
    BY <1>0, <2>1 DEF StartSources, JobEnds, StartTitles, registry
  <2>2. CASE \E S \in SUBSET web : Sitemap(S) \/ LastSitemap(S)
    BY <1>0, <2>2 DEF Sitemap, LastSitemap, AfterSitemap
  <2>3. CASE \E q \in Page, answer \in {"title", "error"} : Title(q, answer)
    <3>. PICK q \in Page, answer \in {"title", "error"} : Title(q, answer)
      BY <2>3
    <3>1. job.read[q] \in {"active"} \cup Protected
      BY JobShape DEF TypeOK, Title, Idle
    <3>. QED
      BY <1>0, <3>1 DEF Title, Turn, Verdict, Protected
  <2>. QED
    BY <1>3, <2>1, <2>2, <2>3 DEF ByJob
<1>4. CASE Crash
  <2>1. CASE CrashInJob \/ \E q \in Page : CrashInApprove(q) \/ CrashInReconcile(q) \/ CrashInDelete(q)
    BY <1>0, <2>1 DEF CrashInJob, CrashInApprove, CrashInReconcile, CrashInDelete, Turn, registry
  <2>2. CASE \E D \in SUBSET web, q \in web : CrashInSitemap(D, q)
    BY <1>0, <2>2 DEF CrashInSitemap, AfterSitemap
  <2>3. CASE \E scope \in Scopes : CrashInClear(scope)
    <3>. PICK scope \in Scopes : CrashInClear(scope)
      BY <2>3
    <3>. DEFINE entry == Entry("page_trash", InTrash(scope), scope.wide, "pending")
    <3>1. p \in Reach(entry) /\ FALSE \in Retention
      BY <1>0 DEF CrashInClear
    <3>2. entry.pages = InTrash(scope)
      BY DEF Entry
    <3>. QED
      BY <3>1, <3>2, TrashShape DEF Reach, InTrash
  <2>4. CASE \E r \in DOMAIN records : CrashInRestore(r)
    BY <1>0, <2>4 DEF CrashInRestore, Turn
  <2>5. CASE \E r \in DOMAIN records, R \in SUBSET DOMAIN records : CrashInCleanup(R, r)
    <3>. PICK r \in DOMAIN records, R \in SUBSET DOMAIN records : CrashInCleanup(R, r)
      BY <2>5
    <3>. PICK hit \in [R -> SUBSET Present], G \in SUBSET Reach(records[r]) :
            Course(R, records, hit) /\ Turn(G \cup Taken(R, hit), "absent")
      BY DEF CrashInCleanup
    <3>1. p \in G \cup Taken(R, hit)
      BY <1>0 DEF Turn
    <3>2. p \in G \/ \E e \in R : p \in Reach(records[e])
      BY <3>1, CourseEarned
    <3>. QED
      BY <3>2 DEF CrashInCleanup, Pending
  <2>. QED
    BY <1>4, <2>1, <2>2, <2>3, <2>4, <2>5 DEF Crash
<1>. QED
  BY <1>1, <1>2, <1>3, <1>4 DEF Next

(* A registry row goes only while a deletion of its key is pending, and of *)
(* its site if the deletion names one, or with a trash without retention.  *)
THEOREM RemovalIsEarned == Spec => RemovalEarned
<1>1. TypeOK /\ [Next]_vars =>
      [\A p \in Page : p \in Present /\ status'[p] = "absent" =>
          \/ \E r \in DOMAIN records : records[r].state = "pending" /\ p \in Reach(records[r])
          \/ FALSE \in Retention /\ \E q \in Page : q[1] = p[1] /\ status[q] = "trash"]_vars
  BY StepRemoves
<1>. QED
  BY <1>1, TypeCorrect, PTL DEF Spec, RemovalEarned
=============================================================================
