------------------------------ MODULE Lifecycle ------------------------------
(***************************************************************************)
(* An instance from installation through its upgrades: what the config     *)
(* directory and the database hold, in which mode the server starts, the   *)
(* installer's requests, and the upgrades confirmed on the web page and on *)
(* the command line.                                                       *)
(*                                                                         *)
(* The server is one process.  Its requests run without a pause between    *)
(* two awaits; the command line is a process of its own, so its steps      *)
(* interleave with the server's everywhere.  Either may end between any    *)
(* two writes.                                                             *)
(*                                                                         *)
(* A request names the file of its database.  One file is followed, which  *)
(* may be any; of the others only that requests name them.                 *)
(***************************************************************************)
EXTENDS Integers

CONSTANTS Attempt,     \* installation requests
          Here,        \* those that name the database followed
          Web, Cli,    \* confirmed upgrades: web requests, command line runs
          MaxVersion,  \* bound: program versions; version v brings migration v
          MaxDeploys,  \* bound
          MaxCrashes   \* bound

Upgrader == Web \cup Cli

ASSUME LifecycleAssumption ==
    /\ MaxVersion \in Nat \ {0} /\ MaxDeploys \in Nat /\ MaxCrashes \in Nat
    /\ Here \subseteq Attempt /\ Web \cap Cli = {}
    /\ {"none", "legacy"} \cap Attempt = {}

\* The ledger __qingyan_upgrades: no such table, no row, or the version last written.
Absent == -1
Empty == 0

VARIABLES
    prog,     \* package.json's version
    mode,     \* what the server process is
    config,   \* the database that the startup config names
    lock,     \* the database that qingyan.installed.lock names
    marker,   \* partial-upgrade.json exists
    schema,   \* migrations applied, whether they are recorded, and the ledger
    seeded,   \* whose bootstrap row, and whether site and system settings exist
    install,  \* where each installation request is
    upgrade,  \* where each upgrade is
    plan,     \* what the upgrade writes to the ledger: the version, or no row
    saved,    \* database states of which a backup exists
    before,   \* history: the database before an upgrade's changes, none when whole
    deploys, crashes  \* bounds

server   == <<prog, mode>>
files    == <<config, lock>>
upgrades == <<marker, upgrade, plan, saved, before>>
bounds   == <<deploys, crashes>>
vars == <<server, files, schema, seeded, install, upgrades, bounds>>

File(i) == IF i \in Here THEN "this" ELSE "other"

Whole == [level |-> -1, recorded |-> TRUE, ledger |-> Absent]
Schema == [level : 0..MaxVersion, recorded : BOOLEAN, ledger : Absent..MaxVersion]
Step == {"idle", "detected", "marked", "saved", "ledger", "over"}

\* A new instance, or one of before the ledgers.
Init ==
    /\ prog \in 1..MaxVersion
    /\ mode = "off"
    /\ marker = FALSE
    /\ \/ /\ config = "none" /\ lock = "none"
          /\ schema = [level |-> 0, recorded |-> FALSE, ledger |-> Absent]
          /\ seeded = [boot |-> "none", site |-> FALSE, settings |-> FALSE]
       \/ /\ config = "this" /\ lock = "this"
          /\ schema \in [level : {1}, recorded : BOOLEAN, ledger : {Absent}]
          /\ seeded = [boot |-> "legacy", site |-> TRUE, settings |-> TRUE]
    /\ install = [i \in Attempt |-> "idle"]
    /\ upgrade = [a \in Upgrader |-> "idle"]
    /\ plan = [a \in Upgrader |-> "version"]
    /\ saved = {}
    /\ before = Whole
    /\ deploys = 0 /\ crashes = 0

-----------------------------------------------------------------------------
(* The migrations and what a start makes of the database.                  *)

Migrated(s) == s.recorded /\ s.level >= prog

\* Each migration is a transaction; the first creates an empty ledger.
NextMigration(s) ==
    IF ~s.recorded THEN [s EXCEPT !.recorded = TRUE]
    ELSE [level |-> s.level + 1, recorded |-> TRUE,
          ledger |-> IF s.level = 0 THEN Empty ELSE s.ledger]

\* All of them, when nothing comes between.
AllMigrations(s) ==
    IF Migrated(s) THEN s
    ELSE [level |-> IF s.level >= prog THEN s.level ELSE prog, recorded |-> TRUE,
          ledger |-> IF s.level = 0 THEN Empty ELSE s.ledger]

\* The configured database is this one, and no detector calls it not installed.
\* A lock over a database without rows is not followed further.
HasRows == seeded.boot # "none" /\ seeded.site
Installed == config = "this" /\ HasRows

\* An empty ledger asks for nothing, whatever the version.
Required ==
    \/ ~schema.recorded
    \/ schema.ledger = Absent
    \/ /\ HasRows
       /\ schema.ledger \notin {Empty, prog}

Plan == IF schema.recorded THEN "version" ELSE "none"

Running == {a \in Upgrader : upgrade[a] \notin {"idle", "over"}}

Deploy(v) ==
    /\ mode = "off" /\ Running = {}
    /\ v # prog /\ deploys < MaxDeploys
    /\ prog' = v
    /\ deploys' = deploys + 1
    /\ UNCHANGED <<mode, files, schema, seeded, install, upgrades, crashes>>

\* Looking whether the instance is installed migrates the configured database.
Looked == IF config = "this" THEN AllMigrations(schema) ELSE schema

StartInstall ==
    /\ mode = "off" /\ lock = "none"
    /\ mode' = "install"
    /\ schema' = Looked
    /\ UNCHANGED <<prog, files, seeded, install, upgrades, bounds>>

\* Recovery is the upgrade application, which then refuses to apply.
MustUpgrade == marker \/ Required

StartUpgrade ==
    /\ mode = "off" /\ lock # "none" /\ Installed
    /\ MustUpgrade
    /\ mode' = "upgrade"
    /\ UNCHANGED <<prog, files, schema, seeded, install, upgrades, bounds>>

\* The normal start migrates before it listens.
StartNormal ==
    /\ mode = "off" /\ lock # "none" /\ Installed
    /\ ~MustUpgrade
    /\ mode' = "starting"
    /\ UNCHANGED <<prog, files, schema, seeded, install, upgrades, bounds>>

StartMigrates ==
    /\ mode = "starting" /\ ~Migrated(schema)
    /\ schema' = NextMigration(schema)
    /\ UNCHANGED <<server, files, seeded, install, upgrades, bounds>>

Listen ==
    /\ mode = "starting" /\ Migrated(schema)
    /\ mode' = "normal"
    /\ UNCHANGED <<prog, files, schema, seeded, install, upgrades, bounds>>

-----------------------------------------------------------------------------
(* The installer.                                                          *)

To(i, s) == install' = [install EXCEPT ![i] = s]

Post(i) ==
    /\ mode = "install" /\ install[i] = "idle"
    /\ lock = "none"
    /\ schema' = Looked
    /\ To(i, "open")
    /\ UNCHANGED <<server, files, seeded, upgrades, bounds>>

WriteConfig(i) ==
    /\ mode = "install" /\ install[i] = "open"
    /\ config' = File(i)
    /\ To(i, "configured")
    /\ UNCHANGED <<server, lock, schema, seeded, upgrades, bounds>>

Seeds(i) == [boot |-> i, site |-> TRUE, settings |-> TRUE]

\* A slip: a bootstrap row that exists already is replaced.
SeedReplaces(i) ==
    /\ i \in Here /\ mode = "install" /\ install[i] = "configured"
    /\ schema' = AllMigrations(schema)
    /\ seeded' = Seeds(i) /\ To(i, "seeded")
    /\ UNCHANGED <<server, files, upgrades, bounds>>

\* The bootstrap row has the key 1: a second one is refused.
Seed(i) ==
    /\ i \in Here /\ mode = "install" /\ install[i] = "configured"
    /\ schema' = AllMigrations(schema)
    /\ IF seeded.boot = "none"
       THEN seeded' = Seeds(i) /\ To(i, "seeded")
       ELSE UNCHANGED seeded /\ To(i, "failed")
    /\ UNCHANGED <<server, files, upgrades, bounds>>

\* The rows of another database; a bootstrap row there, or a conflict, and it fails.
SeedOther(i) ==
    /\ i \notin Here /\ mode = "install" /\ install[i] = "configured"
    /\ To(i, "seeded") \/ To(i, "failed")
    /\ UNCHANGED <<server, files, schema, seeded, upgrades, bounds>>

\* The restore has a conflict, after everything else was written.
RestoreFails(i) ==
    /\ i \in Here /\ mode = "install" /\ install[i] = "configured"
    /\ seeded.boot = "none"
    /\ schema' = AllMigrations(schema)
    /\ seeded' = Seeds(i) /\ To(i, "failed")
    /\ UNCHANGED <<server, files, upgrades, bounds>>

\* A slip: the lock before the rows.
WriteLockEarly(i) ==
    /\ mode = "install" /\ install[i] \in {"configured", "seeded"}
    /\ lock' = File(i)
    /\ To(i, "done")
    /\ UNCHANGED <<server, config, schema, seeded, upgrades, bounds>>

\* And the answer, 201.
WriteLock(i) ==
    /\ mode = "install" /\ install[i] = "seeded"
    /\ lock' = File(i)
    /\ To(i, "done")
    /\ UNCHANGED <<server, config, schema, seeded, upgrades, bounds>>

-----------------------------------------------------------------------------
(* A confirmed upgrade.                                                    *)

At(a, s) == upgrade' = [upgrade EXCEPT ![a] = s]

\* Detected and marked in one go: no other request comes between.
Apply(w) ==
    /\ mode = "upgrade" /\ upgrade[w] = "idle"
    /\ ~marker /\ Required
    /\ plan' = [plan EXCEPT ![w] = Plan]
    /\ marker' = TRUE
    /\ At(w, "marked")
    /\ UNCHANGED <<server, files, schema, seeded, install, saved, before, bounds>>

\* An operator upgrades an installed instance, whatever the server does.
Detect(c) ==
    /\ lock # "none" /\ Installed /\ upgrade[c] = "idle"
    /\ ~marker /\ Required
    /\ plan' = [plan EXCEPT ![c] = Plan]
    /\ At(c, "detected")
    /\ UNCHANGED <<server, files, schema, seeded, install, marker, saved, before, bounds>>

Mark(c) ==
    /\ upgrade[c] = "detected"
    /\ marker' = TRUE
    /\ At(c, "marked")
    /\ UNCHANGED <<server, files, schema, seeded, install, plan, saved, before, bounds>>

\* A slip: the marker only.
BackupSkipped(a) ==
    /\ upgrade[a] = "marked"
    /\ marker' = TRUE
    /\ At(a, "saved")
    /\ UNCHANGED <<server, files, schema, seeded, install, plan, saved, before, bounds>>

\* A marker that another upgrade removed is written anew.
Backup(a) ==
    /\ upgrade[a] = "marked"
    /\ saved' = saved \cup {schema}
    /\ marker' = TRUE
    /\ At(a, "saved")
    /\ UNCHANGED <<server, files, schema, seeded, install, plan, before, bounds>>

Migrate(a) ==
    /\ upgrade[a] = "saved" /\ ~Migrated(schema)
    /\ schema' = NextMigration(schema)
    /\ before' = IF before = Whole THEN schema ELSE before
    /\ UNCHANGED <<server, files, seeded, install, marker, upgrade, plan, saved, bounds>>

Ledger(a) ==
    [schema EXCEPT !.ledger = CASE plan[a] = "version" -> prog
                                [] @ = Absent -> Empty
                                [] OTHER -> @]

\* A slip: the migrations may still be under way.
WriteLedgerEarly(a) ==
    /\ upgrade[a] = "saved"
    /\ schema' = Ledger(a)
    /\ marker' = TRUE
    /\ before' = Whole
    /\ At(a, "ledger")
    /\ UNCHANGED <<server, files, seeded, install, plan, saved, bounds>>

WriteLedger(a) ==
    /\ upgrade[a] = "saved" /\ Migrated(schema)
    /\ schema' = Ledger(a)
    /\ marker' = TRUE
    /\ before' = Whole
    /\ At(a, "ledger")
    /\ UNCHANGED <<server, files, seeded, install, plan, saved, bounds>>

Unmark(a) ==
    /\ upgrade[a] = "ledger"
    /\ marker' = FALSE
    /\ At(a, "over")
    /\ UNCHANGED <<server, files, schema, seeded, install, plan, saved, before, bounds>>

\* A slip: a failed upgrade takes its marker away.
FailUnmarked(a) ==
    /\ upgrade[a] \in {"marked", "saved"}
    /\ marker' = FALSE
    /\ At(a, "over")
    /\ UNCHANGED <<server, files, schema, seeded, install, plan, saved, before, bounds>>

\* A backup, a migration or the ledger fails: the marker takes the error.
Fail(a) ==
    /\ upgrade[a] \in {"marked", "saved"}
    /\ marker' = TRUE
    /\ At(a, "over")
    /\ UNCHANGED <<server, files, schema, seeded, install, plan, saved, before, bounds>>

-----------------------------------------------------------------------------
(* Ends, and the operator.                                                 *)

\* Stopped or dead, with the requests it served.
Ended ==
    /\ mode' = "off"
    /\ install' = [i \in Attempt |-> IF install[i] \in {"idle", "done"} THEN install[i] ELSE "failed"]
    /\ upgrade' = [a \in Upgrader |-> IF a \in Web /\ upgrade[a] # "idle" THEN "over" ELSE upgrade[a]]
    /\ crashes' = crashes + 1

Crash ==
    /\ mode # "off" /\ crashes < MaxCrashes
    /\ Ended
    /\ UNCHANGED <<prog, files, schema, seeded, marker, plan, saved, before, deploys>>

\* In the middle of the seeds: a prefix of the migrations and of the rows.
SeedCut(i) ==
    /\ i \in Here /\ mode = "install" /\ install[i] = "configured" /\ crashes < MaxCrashes
    /\ seeded.boot = "none"
    /\ \/ ~Migrated(schema) /\ schema' = NextMigration(schema) /\ UNCHANGED seeded
       \/ /\ schema' = AllMigrations(schema)
          /\ seeded' \in [boot : {i}, site : BOOLEAN, settings : {FALSE}]
    /\ Ended
    /\ UNCHANGED <<prog, files, marker, plan, saved, before, deploys>>

CliEnds(c) ==
    /\ c \in Running /\ crashes < MaxCrashes
    /\ At(c, "over")
    /\ crashes' = crashes + 1
    /\ UNCHANGED <<server, files, schema, seeded, install, marker, plan, saved, before, deploys>>

\* The backup made before the changes comes back, and the marker goes.
Recover ==
    /\ mode = "off" /\ Running = {}
    /\ marker
    /\ schema' = IF before = Whole THEN schema ELSE before
    /\ before \in saved \cup {Whole}
    /\ before' = Whole
    /\ marker' = FALSE
    /\ UNCHANGED <<server, files, seeded, install, upgrade, plan, saved, bounds>>

-----------------------------------------------------------------------------
ServerStep ==
    StartInstall \/ StartUpgrade \/ StartNormal \/ StartMigrates \/ Listen \/ Crash

InstallStep(i) ==
    \/ Post(i) \/ WriteConfig(i) \/ WriteLock(i)
    \/ Seed(i) \/ SeedOther(i) \/ RestoreFails(i) \/ SeedCut(i)

UpgradeStep(a) ==
    Backup(a) \/ Migrate(a) \/ WriteLedger(a) \/ Unmark(a) \/ Fail(a)

Next ==
    \/ ServerStep
    \/ Recover
    \/ \E v \in 1..MaxVersion : Deploy(v)
    \/ \E i \in Attempt : InstallStep(i)
    \/ \E w \in Web : Apply(w)
    \/ \E c \in Cli : Detect(c) \/ Mark(c) \/ CliEnds(c)
    \/ \E a \in Upgrader : UpgradeStep(a)

Spec == Init /\ [][Next]_vars

-----------------------------------------------------------------------------
\* The types.
TypeOK ==
    /\ prog \in 1..MaxVersion
    /\ mode \in {"off", "install", "upgrade", "starting", "normal"}
    /\ config \in {"none", "this", "other"} /\ lock \in {"none", "this", "other"} /\ marker \in BOOLEAN
    /\ schema \in Schema
    /\ seeded \in [boot : Attempt \cup {"none", "legacy"}, site : BOOLEAN, settings : BOOLEAN]
    /\ install \in [Attempt -> {"idle", "open", "configured", "seeded", "failed", "done"}]
    /\ upgrade \in [Upgrader -> Step]
    /\ plan \in [Upgrader -> {"version", "none"}]
    /\ saved \subseteq Schema
    /\ before \in Schema \cup {Whole}
    /\ deploys \in 0..MaxDeploys /\ crashes \in 0..MaxCrashes

\* The lock, on whose sight the installer closes for good (state.ts:71), names a
\* database (install-service.ts:1091) in which the whole installation is:
\* administrator, site and settings, however many requests installed it or others
\* at a time and wherever one was cut off.  It is the configured one where no request
\* named another; where one did, the configuration may name that one, without rows.
LockMeansWhole ==
    /\ lock # "none" => config # "none"
    /\ lock = "this" =>
           /\ HasRows /\ seeded.settings
           /\ config = "this" \/ \E i \in Attempt \ Here : install[i] # "idle"

\* Two operators who install one database at once are not both told that their
\* administrator is the one, also while others install other databases
\* (install-service.ts:849, install-app.ts:1075).
OneInstalls == \A i \in Here : install[i] = "done" => seeded.boot = i

\* A database between two versions is never served nor upgraded anew: the marker
\* stays until the ledger is written, through failures, ends of either process and
\* upgrades that overlap (configuration.md:401, upgrade-service.ts:174).
HalfIsHeld == before # Whole => marker /\ mode \notin {"starting", "normal"}

\* Whoever changes the schema in an upgrade, a backup exists of the database as it
\* was before the first change (upgrade-service.ts:194).
BackupBeforeChange == before # Whole => before \in saved

\* The ledger names no version whose migrations are not all applied, through failed,
\* repeated and overlapping upgrades, recoveries and older programs
\* (upgrade-service.ts:231).
LedgerNeverAhead == schema.ledger > Empty => schema.recorded /\ schema.level >= schema.ledger

\* Seen through its backup the database is upgraded in one step or not at all, by
\* however many upgrades that overlap, fail or are cut off, it is not served
\* meanwhile, and it never loses a migration (upgrade-service.ts:182-259).
Database == IF before = Whole THEN schema ELSE before
Transaction == INSTANCE UpgradeTransaction WITH
    image   <- Database,
    version <- prog,
    open    <- before # Whole,
    served  <- mode \in {"starting", "normal"}
UpgradesInOneStep == Transaction!Spec
=============================================================================
