----------------------------- MODULE ImportJobs -----------------------------
(* Import jobs of one site: WordPress feeds (job-service.ts: analysed,      *)
(* planned, rehearsed, applied) and QingYan exports (import-service.ts:     *)
(* rehearsed, applied).  No step looks at a job's status, so every step can *)
(* be repeated in any order, and an apply is checked, then waits for the    *)
(* backup of the database while other requests run, then checked again in   *)
(* the transaction that imports.  Files come from another instance: none of *)
(* their comments was written here.                                        *)
EXTENDS Naturals, SequencesExt

CONSTANTS
    WordPress, QingYan, \* the jobs of either kind
    Request,            \* apply requests that may run at the same time
    Comment,            \* the comments of all files, by source key
    None,               \* no comment
    Parent,             \* the comment each one answers, or None
    Page,               \* the page of each comment
    Feeds, Exports,     \* WordPress and QingYan files, sequences of comments
    Unresolved,         \* feeds with an item that waits for a decision
    Skipped             \* pingbacks, spam and trash: not imported

Job == WordPress \cup QingYan
Mode == {"data_only", "settings_only", "full_site"}
Setting == {"local", "exported"}
Status == {"none", "analyzed", "planned", "dry_run_passed", "dry_run_failed", "applied"}

\* An apply's options, those left out that make no difference: a WordPress
\* job imports data only, data know no settings and settings no data.
Option == [skip : BOOLEAN, mode : Mode, replace : BOOLEAN]
Options(j) ==
    {o \in Option :
        /\ j \in WordPress => o.mode = "data_only"
        /\ o.mode = "data_only" => ~o.replace
        /\ o.mode = "settings_only" => ~o.skip}
Applying == [job : Job, option : Option]
Idle == [job |-> None]

ASSUME FilesAreTrees ==
    /\ WordPress \cap QingYan = {} /\ None \notin Comment \cup Job
    /\ Unresolved \subseteq Feeds /\ Skipped \subseteq Comment
    /\ Feeds \cup Exports \subseteq Seq(Comment)
    /\ \A f \in Feeds \cup Exports : IsInjective(f)
    /\ \A c \in Comment : Parent[c] # None => Page[Parent[c]] = Page[c]
    /\ \A S \in SUBSET Comment \ {{}} : \E c \in S : Parent[c] \notin S

VARIABLES
    status,   \* import_batches.status
    upload,   \* the analysed report of a feed
    content,  \* what an apply imports: the plan or the export itself, or None
    late,     \* the jobs whose backup_json names an image taken after their
              \* comments came in
    record,   \* import_records: the job that imported each source key, or None
    live,     \* imported comments that exist
    under,    \* the comment each imported one hangs under
    settings, \* the site's settings
    request,  \* applies that have passed their check and wait for the backup
    made      \* history: how often each comment was inserted

rows == <<status, upload, content, late>>
site == <<record, live, under, settings>>
importVars == <<rows, site, request, made>>

ImportInit ==
    /\ status = [j \in Job |-> "none"]
    /\ upload = [j \in Job |-> <<>>]
    /\ content = [j \in Job |-> None]
    /\ late = {}
    /\ record = [c \in Comment |-> None] /\ live = {}
    /\ under = [c \in Comment |-> None]
    /\ settings = "local"
    /\ request = [r \in Request |-> Idle]
    /\ made = [c \in Comment |-> 0]

-----------------------------------------------------------------------------
(* What a rehearsal reports and what an import does, for a plan as it is    *)
(* now.                                                                     *)

\* The comments of a page are sorted by depth, those of one depth by their
\* identifiers; a parent missing from the feed counts as none.
Depth(f) ==
    LET d[c \in ToSet(f)] == IF Parent[c] \in ToSet(f) THEN d[Parent[c]] + 1 ELSE 1
    IN  d
Shallower(f, b, c) == Depth(f)[b] < Depth(f)[c]

\* A slip: the arguments of the comparison are exchanged.
PlansBackwards(f) ==
    LET kept == ToSet(f) \ Skipped
    IN  {p \in [1..Cardinality(kept) -> kept] :
            /\ IsInjective(p)
            /\ \A m, n \in DOMAIN p :
                  m < n /\ Page[p[m]] = Page[p[n]] => ~Shallower(f, p[m], p[n])}

PlansOf(f) ==
    LET kept == ToSet(f) \ Skipped
    IN  {p \in [1..Cardinality(kept) -> kept] :
            /\ IsInjective(p)
            /\ \A m, n \in DOMAIN p :
                  m < n /\ Page[p[m]] = Page[p[n]] => ~Shallower(f, p[n], p[m])}

Known == {c \in Comment : record[c] # None}

ImportsData(j, o) == j \in WordPress \/ o.mode # "settings_only"
ImportsSettings(j, o) == j \in QingYan /\ o.mode # "data_only"

\* A rehearsal's conflicts: a feed's comment whose parent is not in the plan,
\* a comment that was imported already unless those are to be skipped, and
\* settings that differ unless they are to be replaced.
Orphaned(j, p) ==
    j \in WordPress /\ \E c \in ToSet(p) : Parent[c] # None /\ Parent[c] \notin ToSet(p)
Repeated(j, o, p) == ImportsData(j, o) /\ ~o.skip /\ Known \cap ToSet(p) # {}
Differ(j, o) == ImportsSettings(j, o) /\ ~o.replace /\ settings # "exported"
Conflicts(j, o, p) == Orphaned(j, p) \/ Repeated(j, o, p) \/ Differ(j, o)

New(p) == ToSet(p) \ Known
Precedes(p, b, c) == \E m, n \in DOMAIN p : m < n /\ p[m] = b /\ p[n] = c

\* A slip: the foreign key is not enforced.
HangsAnywhere(p, c) == TRUE

\* A reply needs its parent's new or recorded identifier: the plan must have
\* met the parent before (an export's reply otherwise keeps the identifier of
\* the other instance), and the foreign key wants that comment to exist.
Attaches(p, c) ==
    \/ Parent[c] = None
    \/ Precedes(p, Parent[c], c) /\ (Parent[c] \in New(p) \/ Parent[c] \in live)

-----------------------------------------------------------------------------
(* Jobs are made, planned and rehearsed.                                    *)

\* POST wordpress/analyze
Analyze(j, f) ==
    /\ j \in WordPress /\ status[j] = "none"
    /\ status' = [status EXCEPT ![j] = "analyzed"]
    /\ upload' = [upload EXCEPT ![j] = f]
    /\ UNCHANGED <<content, late, site, request, made>>

\* POST wordpress/jobs/:jobId/plan, whatever became of the job before.
Convert(j) ==
    /\ j \in WordPress /\ status[j] # "none" /\ upload[j] \notin Unresolved
    /\ \E p \in PlansOf(upload[j]) : content' = [content EXCEPT ![j] = p]
    /\ status' = [status EXCEPT ![j] = "planned"]
    /\ UNCHANGED <<upload, late, site, request, made>>

Verdict(j, o, p) == IF Conflicts(j, o, p) THEN "dry_run_failed" ELSE "dry_run_passed"
Planned(j) == content[j] # None

\* POST jobs/:jobId/dry-run
DryRun(j, o) ==
    /\ j \in WordPress /\ Planned(j)
    /\ status' = [status EXCEPT ![j] = Verdict(j, o, content[j])]
    /\ UNCHANGED <<upload, content, late, site, request, made>>

\* POST qingyan/dry-run and qyctl import: the job is made with its rehearsal.
CreateDryRun(j, f, o) ==
    /\ j \in QingYan /\ status[j] = "none"
    /\ content' = [content EXCEPT ![j] = f]
    /\ status' = [status EXCEPT ![j] = Verdict(j, o, f)]
    /\ UNCHANGED <<upload, late, site, request, made>>

-----------------------------------------------------------------------------
(* Applying.                                                                *)

\* The first check; a conflict is answered at once.  Then the backup starts.
Ask(r, j, o) ==
    /\ request[r] = Idle /\ Planned(j)
    /\ ~Conflicts(j, o, content[j])
    /\ request' = [request EXCEPT ![r] = [job |-> j, option |-> o]]
    /\ UNCHANGED <<rows, site, made>>

\* Slips: the transaction trusts the first check; the record is forgotten.
NeverRefused(j, o) == FALSE
KeepNoRecord(j, new) == record

Refused(j, o) == Conflicts(j, o, content[j])
Fits(p) == \A c \in New(p) : Attaches(p, c)
Recorded(j, new) == [c \in Comment |-> IF c \in new THEN j ELSE record[c]]

Image(j) ==
    IF \E c \in live : record[c] = j THEN late \cup {j} ELSE late \ {j}

\* The image is complete, the row names it, and in the same turn of the event
\* loop the transaction checks again and imports, or rolls back.
Merge(r) ==
    LET j == request[r].job
        o == request[r].option
        p == content[j]
        new == IF ImportsData(j, o) THEN New(p) ELSE {}
    IN  /\ request[r] # Idle
        /\ ~Refused(j, o)
        /\ ImportsData(j, o) => Fits(p)
        /\ late' = Image(j)
        /\ status' = [status EXCEPT ![j] = "applied"]
        /\ record' = Recorded(j, new)
        /\ live' = live \cup new
        /\ under' = [c \in Comment |-> IF c \in new THEN Parent[c] ELSE under[c]]
        /\ settings' = IF ImportsSettings(j, o) THEN "exported" ELSE settings
        /\ made' = [c \in Comment |-> IF c \in new THEN made[c] + 1 ELSE made[c]]
        /\ request' = [request EXCEPT ![r] = Idle]
        /\ UNCHANGED <<upload, content>>

\* The backup is named by the row, but the second check or the import throws;
\* or the process dies between the two.
BackUpOnly(r) ==
    LET j == request[r].job IN
    /\ request[r] # Idle
    /\ late' = Image(j)
    /\ request' = [request EXCEPT ![r] = Idle]
    /\ UNCHANGED <<status, upload, content, site, made>>

\* The backup fails: the request is answered with the error.
BackUpFails(r) ==
    /\ request[r] # Idle
    /\ request' = [request EXCEPT ![r] = Idle]
    /\ UNCHANGED <<rows, site, made>>

\* The process ends and starts again: the requests are gone.
Interrupt ==
    /\ request' = [r \in Request |-> Idle]
    /\ UNCHANGED <<rows, site, made>>

-----------------------------------------------------------------------------
(* What others do to the site meanwhile.                                    *)

\* A page is deleted for good, with its comments; import records stay.
RemovePage(g) ==
    /\ live' = {c \in live : Page[c] # g}
    /\ UNCHANGED <<rows, record, under, settings, request, made>>

EditSettings ==
    /\ settings' \in Setting \ {settings}
    /\ UNCHANGED <<rows, record, live, under, request, made>>

ImportNext ==
    \/ \E j \in Job :
        \/ \E f \in Feeds : Analyze(j, f)
        \/ Convert(j)
        \/ \E o \in Options(j) :
            \/ DryRun(j, o)
            \/ \E f \in Exports : CreateDryRun(j, f, o)
            \/ \E r \in Request : Ask(r, j, o)
    \/ \E r \in Request : Merge(r) \/ BackUpOnly(r) \/ BackUpFails(r)
    \/ Interrupt
    \/ \E c \in live : RemovePage(Page[c])
    \/ EditSettings

ImportSpec == ImportInit /\ [][ImportNext]_importVars

-----------------------------------------------------------------------------
(* Properties.                                                              *)

(* Every variable keeps its type: jobs, what is imported, requests.         *)
ImportTypeOK ==
    /\ status \in [Job -> Status]
    /\ upload \in [Job -> Feeds \cup {<<>>}]
    /\ content \in [Job -> Seq(Comment) \cup {None}]
    /\ late \subseteq Job
    /\ record \in [Comment -> Job \cup {None}] /\ live \subseteq Known
    /\ under \in [Comment -> Comment \cup {None}]
    /\ settings \in Setting
    /\ request \in [Request -> Applying \cup {Idle}]
    /\ made \in [Comment -> Nat]

(* However many jobs hold a comment and however their applies interleave,   *)
(* it is inserted once, also after its page was deleted for good.           *)
ImportedOnce == \A c \in Comment : made[c] <= 1

(* An imported reply hangs under the imported copy of the comment it        *)
(* answered, though files may list it first and jobs may overlap.           *)
RepliesKeepTheirParent ==
    \A c \in live : under[c] = Parent[c] /\ Parent[c] \in live \cup {None}

(* A feed that loses no parent can be imported whole: its plan meets every  *)
(* comment before the replies to it, and only a parent that was imported    *)
(* before and is gone with its page can turn a reply away.                  *)
PlansAreImportable ==
    \A j \in WordPress : Planned(j) /\ ~Orphaned(j, content[j]) =>
        \A c \in New(content[j]) : Attaches(content[j], c) \/ Parent[c] \in Known \ live

(* An import is complete or leaves nothing, and what changed while the      *)
(* backup was made counts: under fail_on_existing none of its comments was  *)
(* there and settings that were to be kept are as they were.                *)
MergesAsChecked ==
    [][record' # record =>
        \E r \in Request :
            LET j == request[r].job
                o == request[r].option
            IN  /\ request[r] # Idle
                /\ Known' = Known \cup ToSet(content[j])
                /\ o.skip \/ Known \cap ToSet(content[j]) = {}
                /\ o.replace \/ settings' = settings
      ]_importVars

(* docs/configuration.md: the backup named by a job keeps the state before  *)
(* the merge, so it holds none of the comments the job imported.            *)
BackupPrecedesMerge ==
    \A j \in late : status[j] # "applied"
=============================================================================
