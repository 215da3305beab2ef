-------------------------- MODULE Database_proofs ---------------------------
(***************************************************************************)
(* What is done to a database as a whole.  For any number of installation  *)
(* requests, upgrades, versions and ends of the processes: the lock names  *)
(* a whole installation, a half upgraded database has its backup and       *)
(* its marker and is not served, and the ledger is never ahead.  For any   *)
(* number of import jobs, files and requests: what is imported is imported *)
(* once, as it was checked, and keeps its threads together.                *)
(***************************************************************************)
EXTENDS Lifecycle, ImportJobs, FiniteSetTheorems, SequenceTheorems, TLAPS

-----------------------------------------------------------------------------
(* Installation and upgrade.                                               *)

\* What every migration keeps of a schema.
Grows(s) == (s.ledger > Empty => s.recorded /\ s.level >= s.ledger) /\ (~s.recorded => s.ledger = Absent)

\* TypeOK, of all but the database.
Places ==
    /\ prog \in 1..MaxVersion
    /\ mode \in {"off", "install", "upgrade", "starting", "normal"}
    /\ config \in {"none", "this", "other"} /\ lock \in {"none", "this", "other"} /\ marker \in BOOLEAN
    /\ seeded \in [boot : Attempt \cup {"none", "legacy"}, site : BOOLEAN, settings : BOOLEAN]
    /\ install \in [Attempt -> {"idle", "open", "configured", "seeded", "failed", "done"}]
    /\ upgrade \in [Upgrader -> Step]
    /\ plan \in [Upgrader -> {"version", "none"}]
    /\ deploys \in 0..MaxDeploys /\ crashes \in 0..MaxCrashes

\* The database, its backups and the state before an upgrade's changes.
Data ==
    /\ schema \in Schema /\ Grows(schema)
    /\ saved \subseteq Schema
    /\ before \in Schema \cup {Whole}
    /\ before # Whole => Grows(before) /\ before.level >= 1 /\ before \in saved

\* A request named another database.
OtherAsked == \E i \in Attempt \ Here : install[i] # "idle"

\* What the lock and each installation request have written so far.
Rows ==
    /\ LockMeansWhole
    /\ seeded.boot # "none" => schema.level >= 1
    /\ config = "other" => OtherAsked
    /\ \A i \in Attempt : install[i] \in {"configured", "seeded", "done"} => config # "none"
    /\ \A i \in Here : install[i] \in {"seeded", "done"} =>
           seeded.boot = i /\ seeded.site /\ seeded.settings

\* Only an installed instance is upgraded or served.
Locked ==
    /\ mode \in {"upgrade", "starting", "normal"} => lock # "none" /\ HasRows
    /\ \A a \in Upgrader : upgrade[a] # "idle" => lock # "none" /\ HasRows
    /\ before # Whole => lock # "none" /\ HasRows

\* What is served asked for no upgrade, and does not begin to.
Served == mode \in {"starting", "normal"} => ~Required

\* What each upgrade under way relies on, also where another one overtakes it.
Moving == \A a \in Upgrader :
    /\ upgrade[a] = "detected" => Required \/ Migrated(schema)
    /\ upgrade[a] \in {"marked", "saved"} => marker \/ Migrated(schema)
    /\ upgrade[a] = "saved" => Migrated(schema) \/ before # Whole \/ schema \in saved
    /\ upgrade[a] = "ledger" => Migrated(schema) /\ before = Whole
    /\ upgrade[a] \notin {"idle", "over"} /\ mode \in {"starting", "normal"} => Migrated(schema)

IInv == Places /\ Data /\ Rows /\ Locked /\ Served /\ Moving /\ HalfIsHeld

-----------------------------------------------------------------------------
LEMMA WholeIsNoSchema == Whole \notin Schema
BY DEF Whole, Schema

LEMMA NextMigrationGrows ==
    ASSUME NEW s \in Schema, Grows(s), prog \in 1..MaxVersion, ~Migrated(s)
    PROVE  /\ NextMigration(s) \in Schema /\ Grows(NextMigration(s))
           /\ NextMigration(s).recorded /\ NextMigration(s).level >= s.level
           /\ s.level >= 1 => NextMigration(s).ledger = s.ledger
           /\ NextMigration(s).ledger \in {Empty, s.ledger}
<1>1. s = [level |-> s.level, recorded |-> s.recorded, ledger |-> s.ledger]
      /\ s.level \in 0..MaxVersion /\ s.recorded \in BOOLEAN /\ s.ledger \in Absent..MaxVersion
  BY DEF Schema
<1>2. CASE ~s.recorded
  <2>1. NextMigration(s) = [level |-> s.level, recorded |-> TRUE, ledger |-> s.ledger]
    BY <1>1, <1>2 DEF NextMigration
  <2>. QED
    BY <1>1, <1>2, <2>1, LifecycleAssumption DEF Schema, Grows, Absent, Empty
<1>3. CASE s.recorded
  <2>1. NextMigration(s) = [level |-> s.level + 1, recorded |-> TRUE,
                            ledger |-> IF s.level = 0 THEN Empty ELSE s.ledger]
    BY <1>3 DEF NextMigration
  <2>2. s.level + 1 \in 0..MaxVersion
    BY <1>1, <1>3, LifecycleAssumption DEF Migrated
  <2>3. NextMigration(s).ledger \in Absent..MaxVersion
    BY <1>1, <2>1, LifecycleAssumption DEF Absent, Empty
  <2>. QED
    BY <1>1, <1>3, <2>1, <2>2, <2>3, LifecycleAssumption DEF Schema, Grows, Absent, Empty
<1>. QED
  BY <1>1, <1>2, <1>3

LEMMA AllMigrationsGrow ==
    ASSUME NEW s \in Schema, Grows(s), prog \in 1..MaxVersion
    PROVE  /\ AllMigrations(s) \in Schema /\ Grows(AllMigrations(s))
           /\ Migrated(AllMigrations(s))
           /\ AllMigrations(s).level >= 1 /\ AllMigrations(s).level >= s.level
<1>1. s = [level |-> s.level, recorded |-> s.recorded, ledger |-> s.ledger]
      /\ s.level \in 0..MaxVersion /\ s.recorded \in BOOLEAN /\ s.ledger \in Absent..MaxVersion
  BY DEF Schema
<1>2. CASE Migrated(s)
  BY <1>1, <1>2, LifecycleAssumption DEF AllMigrations, Migrated
<1>3. CASE ~Migrated(s)
  <2>1. AllMigrations(s) = [level |-> IF s.level >= prog THEN s.level ELSE prog, recorded |-> TRUE,
                            ledger |-> IF s.level = 0 THEN Empty ELSE s.ledger]
    BY <1>3 DEF AllMigrations
  <2>2. AllMigrations(s).level \in 0..MaxVersion /\ AllMigrations(s).level >= prog
        /\ AllMigrations(s).level >= s.level
    BY <1>1, <2>1, LifecycleAssumption
  <2>3. AllMigrations(s).ledger \in Absent..MaxVersion
    BY <1>1, <2>1, LifecycleAssumption DEF Absent, Empty
  <2>4. AllMigrations(s) \in Schema
    BY <2>1, <2>2, <2>3, LifecycleAssumption DEF Schema
  <2>. QED
    BY <1>1, <2>1, <2>2, <2>3, <2>4, LifecycleAssumption DEF Grows, Migrated, Absent, Empty
<1>. QED
  BY <1>2, <1>3

LEMMA LookedGrows ==
    ASSUME IInv
    PROVE  /\ Looked \in Schema /\ Grows(Looked)
           /\ Looked.level >= schema.level
           /\ Looked # schema => Migrated(Looked)
<1>1. schema \in Schema /\ Grows(schema) /\ prog \in 1..MaxVersion /\ schema.level \in 0..MaxVersion
  BY DEF IInv, Data, Places, Schema
<1>. QED
  BY <1>1, AllMigrationsGrow, LifecycleAssumption DEF Looked

LEMMA LedgerGrows ==
    ASSUME IInv, NEW a \in Upgrader, Migrated(schema)
    PROVE  /\ Ledger(a) \in Schema /\ Grows(Ledger(a))
           /\ Migrated(Ledger(a))
           /\ Ledger(a).level = schema.level
           /\ Ledger(a).ledger \in {prog, Empty, schema.ledger}
           /\ Ledger(a).ledger # Absent
<1>1. schema = [level |-> schema.level, recorded |-> schema.recorded, ledger |-> schema.ledger]
      /\ schema.level \in 0..MaxVersion /\ schema.recorded \in BOOLEAN
      /\ schema.ledger \in Absent..MaxVersion /\ prog \in 1..MaxVersion /\ Grows(schema)
  BY DEF IInv, Data, Places, Schema
<1>2. schema.recorded /\ schema.level >= prog
  BY DEF Migrated
<1>3. Ledger(a) = [level |-> schema.level, recorded |-> schema.recorded,
         ledger |-> CASE plan[a] = "version" -> prog
                      [] schema.ledger = Absent -> Empty
                      [] OTHER -> schema.ledger]
  BY <1>1 DEF Ledger
<1>4. /\ Ledger(a).ledger \in Absent..MaxVersion
      /\ Ledger(a).ledger # Absent
      /\ Ledger(a).ledger \in {prog, Empty, schema.ledger}
  BY <1>1, <1>3, LifecycleAssumption DEF Absent, Empty
<1>. QED
  BY <1>1, <1>2, <1>3, <1>4, LifecycleAssumption DEF Schema, Grows, Migrated, Absent, Empty

LEMMA InitIInv == Init => IInv
<1>. SUFFICES ASSUME Init PROVE IInv
  OBVIOUS
<1>1. Places
  <2>1. install \in [Attempt -> {"idle", "open", "configured", "seeded", "failed", "done"}]
    BY DEF Init
  <2>2. upgrade \in [Upgrader -> Step] /\ plan \in [Upgrader -> {"version", "none"}]
    BY DEF Init, Step
  <2>3. seeded \in [boot : Attempt \cup {"none", "legacy"}, site : BOOLEAN, settings : BOOLEAN]
    <3>1. \/ seeded = [boot |-> "none", site |-> FALSE, settings |-> FALSE]
          \/ seeded = [boot |-> "legacy", site |-> TRUE, settings |-> TRUE]
      BY Zenon DEF Init
    <3>2. CASE seeded = [boot |-> "none", site |-> FALSE, settings |-> FALSE]
      BY <3>2
    <3>3. CASE seeded = [boot |-> "legacy", site |-> TRUE, settings |-> TRUE]
      BY <3>3
    <3>. QED
      BY <3>1, <3>2, <3>3
  <2>4. deploys \in 0..MaxDeploys /\ crashes \in 0..MaxCrashes
    BY LifecycleAssumption DEF Init
  <2>. QED
    BY <2>1, <2>2, <2>3, <2>4 DEF Init, Places
<1>2. Data
  <2>1. schema \in Schema /\ schema.ledger = Absent
    <3>1. \/ schema = [level |-> 0, recorded |-> FALSE, ledger |-> Absent]
          \/ schema \in [level : {1}, recorded : BOOLEAN, ledger : {Absent}]
      BY Zenon DEF Init
    <3>2. CASE schema = [level |-> 0, recorded |-> FALSE, ledger |-> Absent]
      BY <3>2, LifecycleAssumption DEF Schema, Absent
    <3>3. CASE schema \in [level : {1}, recorded : BOOLEAN, ledger : {Absent}]
      BY <3>3, LifecycleAssumption DEF Schema, Absent
    <3>. QED
      BY <3>1, <3>2, <3>3
  <2>. QED
    BY <2>1 DEF Init, Data, Grows, Absent, Empty
<1>3. Rows
  BY LifecycleAssumption DEF Init, Rows, LockMeansWhole, HasRows
<1>4. Locked
  BY DEF Init, Locked
<1>5. Served
  BY DEF Init, Served
<1>6. Moving
  BY DEF Init, Moving
<1>7. HalfIsHeld
  BY DEF Init, HalfIsHeld
<1>. QED
  BY <1>1, <1>2, <1>3, <1>4, <1>5, <1>6, <1>7 DEF IInv

LEMMA StartInstallKeeps ==
    ASSUME IInv, StartInstall
    PROVE  IInv'
<1>0. /\ schema' \in Schema /\ Grows(schema)' /\ schema'.level >= schema.level
      /\ schema' = schema \/ Migrated(schema)'
  BY LookedGrows DEF StartInstall, server, Migrated, Grows
<1>1. Places'
  BY <1>0, LifecycleAssumption DEF IInv, Places, Step, Upgrader, Plan, StartInstall, files,
     upgrades, bounds
<1>2. Data'
  BY <1>0, LifecycleAssumption, WholeIsNoSchema DEF IInv, Data, Places, StartInstall, files,
     upgrades, bounds
<1>3. Rows'
  BY <1>0, LifecycleAssumption DEF IInv, Rows, LockMeansWhole, HasRows, OtherAsked, File,
     Places, Data, StartInstall, files, upgrades, bounds, Schema
<1>4. Locked'
  BY <1>0, LifecycleAssumption DEF IInv, Locked, HasRows, Places, Data, StartInstall, files,
     upgrades, bounds
<1>5. Served'
  BY <1>0, LifecycleAssumption DEF IInv, Served, Required, Locked, Rows, LockMeansWhole,
     HasRows, Places, Data, StartInstall, files, upgrades, bounds
<1>6. Moving'
  BY <1>0, LifecycleAssumption DEF IInv, Moving, Migrated, Required, Locked, Rows,
     LockMeansWhole, HasRows, Served, Places, Data, Step, Upgrader, StartInstall, files, upgrades,
     bounds
<1>7. HalfIsHeld'
  BY <1>0, LifecycleAssumption DEF IInv, HalfIsHeld, Locked, Moving, Places, StartInstall, files,
     upgrades, bounds
<1>. QED
  BY <1>1, <1>2, <1>3, <1>4, <1>5, <1>6, <1>7 DEF IInv

LEMMA StartUpgradeKeeps ==
    ASSUME IInv, StartUpgrade
    PROVE  IInv'
<1>1. Places'
  BY LifecycleAssumption DEF IInv, Places, Step, Upgrader, Plan, StartUpgrade, MustUpgrade, files,
     upgrades, bounds
<1>2. Data'
  BY LifecycleAssumption, WholeIsNoSchema DEF IInv, Data, Places, StartUpgrade, MustUpgrade,
     files, upgrades, bounds, Schema
<1>3. Rows'
  BY LifecycleAssumption DEF IInv, Rows, LockMeansWhole, HasRows, OtherAsked, File, Places,
     Data, StartUpgrade, MustUpgrade, files, upgrades, bounds
<1>4. Locked'
  BY LifecycleAssumption DEF IInv, Locked, HasRows, Installed, Places, Data, StartUpgrade,
     MustUpgrade, files, upgrades, bounds
<1>5. Served'
  BY LifecycleAssumption DEF IInv, Served, Required, Locked, Rows, LockMeansWhole, HasRows,
     Places, Data, StartUpgrade, MustUpgrade, files, upgrades, bounds
<1>6. Moving'
  BY LifecycleAssumption DEF IInv, Moving, Migrated, Required, Locked, Rows, LockMeansWhole,
     HasRows, Served, Places, Data, Step, Upgrader, StartUpgrade, MustUpgrade, files, upgrades,
     bounds
<1>7. HalfIsHeld'
  BY LifecycleAssumption DEF IInv, HalfIsHeld, Locked, Moving, Places, StartUpgrade, MustUpgrade,
     files, upgrades, bounds
<1>. QED
  BY <1>1, <1>2, <1>3, <1>4, <1>5, <1>6, <1>7 DEF IInv

LEMMA StartNormalKeeps ==
    ASSUME IInv, StartNormal
    PROVE  IInv'
<1>1. Places'
  BY LifecycleAssumption DEF IInv, Places, Step, Upgrader, Plan, StartNormal, MustUpgrade, files,
     upgrades, bounds
<1>2. Data'
  BY LifecycleAssumption, WholeIsNoSchema DEF IInv, Data, Places, StartNormal, MustUpgrade, files,
     upgrades, bounds, Schema
<1>3. Rows'
  BY LifecycleAssumption DEF IInv, Rows, LockMeansWhole, HasRows, OtherAsked, File, Places,
     Data, StartNormal, MustUpgrade, files, upgrades, bounds
<1>4. Locked'
  BY LifecycleAssumption DEF IInv, Locked, HasRows, Installed, Places, Data, StartNormal,
     MustUpgrade, files, upgrades, bounds
<1>5. Served'
  BY LifecycleAssumption DEF IInv, Served, Required, Locked, Rows, LockMeansWhole, HasRows,
     Places, Data, StartNormal, MustUpgrade, files, upgrades, bounds
<1>6. Moving'
  BY LifecycleAssumption DEF IInv, Moving, Migrated, Required, Locked, Rows, LockMeansWhole,
     HasRows, Served, Places, Data, Step, Upgrader, StartNormal, MustUpgrade, files, upgrades,
     bounds
<1>7. HalfIsHeld'
  BY LifecycleAssumption DEF IInv, HalfIsHeld, Locked, Moving, Places, StartNormal, MustUpgrade,
     files, upgrades, bounds
<1>. QED
  BY <1>1, <1>2, <1>3, <1>4, <1>5, <1>6, <1>7 DEF IInv

LEMMA StartMigratesKeeps ==
    ASSUME IInv, StartMigrates
    PROVE  IInv'
<1>0. /\ schema \in Schema /\ schema.level >= 1
      /\ schema' \in Schema /\ Grows(schema)' /\ schema'.level >= schema.level
      /\ schema'.recorded /\ schema'.ledger = schema.ledger
  <2>1. schema \in Schema /\ Grows(schema) /\ prog \in 1..MaxVersion
    BY DEF IInv, Data, Places
  <2>2. schema.level >= 1
    BY DEF IInv, Rows, Locked, HasRows, StartMigrates
  <2>. QED
    BY <2>1, <2>2, NextMigrationGrows DEF StartMigrates, Grows
<1>1. Places'
  BY <1>0, LifecycleAssumption DEF IInv, Places, Step, Upgrader, Plan, StartMigrates, server,
     files, upgrades, bounds
<1>2. Data'
  BY <1>0, LifecycleAssumption, WholeIsNoSchema DEF IInv, Data, Places, StartMigrates, server,
     files, upgrades, bounds
<1>3. Rows'
  BY <1>0, LifecycleAssumption DEF IInv, Rows, LockMeansWhole, HasRows, OtherAsked, File,
     Places, Data, StartMigrates, server, files, upgrades, bounds, Schema
<1>4. Locked'
  BY <1>0, LifecycleAssumption DEF IInv, Locked, HasRows, Places, Data, StartMigrates, server,
     files, upgrades, bounds
<1>5. Served'
  BY <1>0, LifecycleAssumption DEF IInv, Served, Required, Locked, Rows, LockMeansWhole,
     HasRows, Places, Data, StartMigrates, server, files, upgrades, bounds
<1>6. Moving'
  BY <1>0, LifecycleAssumption DEF IInv, Moving, Migrated, Required, Locked, Rows,
     LockMeansWhole, HasRows, Served, Places, Data, Step, Upgrader, StartMigrates, server, files,
     upgrades, bounds
<1>7. HalfIsHeld'
  BY <1>0, LifecycleAssumption DEF IInv, HalfIsHeld, Locked, Moving, Places, StartMigrates,
     server, files, upgrades, bounds
<1>. QED
  BY <1>1, <1>2, <1>3, <1>4, <1>5, <1>6, <1>7 DEF IInv

LEMMA ListenKeeps ==
    ASSUME IInv, Listen
    PROVE  IInv'
<1>1. Places'
  BY LifecycleAssumption DEF IInv, Places, Step, Upgrader, Plan, Listen, files, upgrades, bounds
<1>2. Data'
  BY LifecycleAssumption, WholeIsNoSchema DEF IInv, Data, Places, Listen, files, upgrades, bounds,
     Schema
<1>3. Rows'
  BY LifecycleAssumption DEF IInv, Rows, LockMeansWhole, HasRows, OtherAsked, File, Places,
     Data, Listen, files, upgrades, bounds
<1>4. Locked'
  BY LifecycleAssumption DEF IInv, Locked, HasRows, Places, Data, Listen, files, upgrades, bounds
<1>5. Served'
  BY LifecycleAssumption DEF IInv, Served, Required, Locked, Rows, LockMeansWhole, HasRows,
     Places, Data, Listen, files, upgrades, bounds
<1>6. Moving'
  BY LifecycleAssumption DEF IInv, Moving, Migrated, Required, Locked, Rows, LockMeansWhole,
     HasRows, Served, Places, Data, Step, Upgrader, Listen, files, upgrades, bounds
<1>7. HalfIsHeld'
  BY LifecycleAssumption DEF IInv, HalfIsHeld, Locked, Moving, Places, Listen, files, upgrades,
     bounds
<1>. QED
  BY <1>1, <1>2, <1>3, <1>4, <1>5, <1>6, <1>7 DEF IInv

LEMMA CrashKeeps ==
    ASSUME IInv, Crash
    PROVE  IInv'
<1>1. Places'
  BY LifecycleAssumption DEF IInv, Places, Step, Upgrader, Plan, Crash, Ended, files
<1>2. Data'
  BY LifecycleAssumption, WholeIsNoSchema DEF IInv, Data, Places, Crash, Ended, files, Schema
<1>3. Rows'
  BY LifecycleAssumption DEF IInv, Rows, LockMeansWhole, HasRows, OtherAsked, File, Places,
     Data, Crash, Ended, files
<1>4. Locked'
  BY LifecycleAssumption DEF IInv, Locked, HasRows, Places, Data, Crash, Ended, files
<1>5. Served'
  BY LifecycleAssumption DEF IInv, Served, Required, Locked, Rows, LockMeansWhole, HasRows,
     Places, Data, Crash, Ended, files
<1>6. Moving'
  BY LifecycleAssumption DEF IInv, Moving, Migrated, Required, Locked, Rows, LockMeansWhole,
     HasRows, Served, Places, Data, Step, Upgrader, Crash, Ended, files
<1>7. HalfIsHeld'
  BY LifecycleAssumption DEF IInv, HalfIsHeld, Locked, Moving, Places, Crash, Ended, files
<1>. QED
  BY <1>1, <1>2, <1>3, <1>4, <1>5, <1>6, <1>7 DEF IInv

LEMMA RecoverKeeps ==
    ASSUME IInv, Recover
    PROVE  IInv'
<1>1. Places'
  BY LifecycleAssumption DEF IInv, Places, Step, Upgrader, Plan, Recover, Running, server, files,
     bounds
<1>2. Data'
  BY LifecycleAssumption, WholeIsNoSchema DEF IInv, Data, Places, Recover, Running, server, files,
     bounds, Schema
<1>3. Rows'
  BY LifecycleAssumption DEF IInv, Rows, LockMeansWhole, HasRows, OtherAsked, File, Places,
     Data, Recover, Running, server, files, bounds
<1>4. Locked'
  BY LifecycleAssumption DEF IInv, Locked, HasRows, Places, Data, Recover, Running, server,
     files, bounds
<1>5. Served'
  BY LifecycleAssumption DEF IInv, Served, Required, Locked, Rows, LockMeansWhole, HasRows,
     Places, Data, Recover, Running, server, files, bounds
<1>6. Moving'
  BY LifecycleAssumption DEF IInv, Moving, Migrated, Required, Locked, Rows, LockMeansWhole,
     HasRows, Served, Places, Data, Step, Upgrader, Recover, Running, server, files, bounds
<1>7. HalfIsHeld'
  BY LifecycleAssumption DEF IInv, HalfIsHeld, Locked, Moving, Places, Recover, Running, server,
     files, bounds
<1>. QED
  BY <1>1, <1>2, <1>3, <1>4, <1>5, <1>6, <1>7 DEF IInv

LEMMA DeployKeeps ==
    ASSUME NEW v \in 1..MaxVersion, IInv, Deploy(v)
    PROVE  IInv'
<1>1. Places'
  BY LifecycleAssumption DEF IInv, Places, Step, Upgrader, Plan, Deploy, Running, files, upgrades
<1>2. Data'
  BY LifecycleAssumption, WholeIsNoSchema DEF IInv, Data, Places, Deploy, Running, files,
     upgrades, Schema
<1>3. Rows'
  BY LifecycleAssumption DEF IInv, Rows, LockMeansWhole, HasRows, OtherAsked, File, Places,
     Data, Deploy, Running, files, upgrades
<1>4. Locked'
  BY LifecycleAssumption DEF IInv, Locked, HasRows, Places, Data, Deploy, Running, files, upgrades
<1>5. Served'
  BY LifecycleAssumption DEF IInv, Served, Required, Locked, Rows, LockMeansWhole, HasRows,
     Places, Data, Deploy, Running, files, upgrades
<1>6. Moving'
  BY LifecycleAssumption DEF IInv, Moving, Migrated, Required, Locked, Rows, LockMeansWhole,
     HasRows, Served, Places, Data, Step, Upgrader, Deploy, Running, files, upgrades
<1>7. HalfIsHeld'
  BY LifecycleAssumption DEF IInv, HalfIsHeld, Locked, Moving, Places, Deploy, Running, files,
     upgrades
<1>. QED
  BY <1>1, <1>2, <1>3, <1>4, <1>5, <1>6, <1>7 DEF IInv

LEMMA PostKeeps ==
    ASSUME NEW i \in Attempt, IInv, Post(i)
    PROVE  IInv'
<1>0. /\ schema' \in Schema /\ Grows(schema)' /\ schema'.level >= schema.level
      /\ schema' = schema \/ Migrated(schema)'
  BY LookedGrows DEF Post, server, Migrated, Grows
<1>1. Places'
  BY <1>0, LifecycleAssumption DEF IInv, Places, Step, Upgrader, Plan, Post, To, server, files,
     upgrades, bounds
<1>2. Data'
  BY <1>0, LifecycleAssumption, WholeIsNoSchema DEF IInv, Data, Places, Post, To, server, files,
     upgrades, bounds
<1>3. Rows'
  BY <1>0, LifecycleAssumption DEF IInv, Rows, LockMeansWhole, HasRows, OtherAsked, File,
     Places, Data, Post, To, server, files, upgrades, bounds, Schema
<1>4. Locked'
  BY <1>0, LifecycleAssumption DEF IInv, Locked, HasRows, Places, Data, Post, To, server, files,
     upgrades, bounds
<1>5. Served'
  BY <1>0, LifecycleAssumption DEF IInv, Served, Required, Locked, Rows, LockMeansWhole,
     HasRows, Places, Data, Post, To, server, files, upgrades, bounds
<1>6. Moving'
  BY <1>0, LifecycleAssumption DEF IInv, Moving, Migrated, Required, Locked, Rows,
     LockMeansWhole, HasRows, Served, Places, Data, Step, Upgrader, Post, To, server, files,
     upgrades, bounds
<1>7. HalfIsHeld'
  BY <1>0, LifecycleAssumption DEF IInv, HalfIsHeld, Locked, Moving, Places, Post, To, server,
     files, upgrades, bounds
<1>. QED
  BY <1>1, <1>2, <1>3, <1>4, <1>5, <1>6, <1>7 DEF IInv

LEMMA WriteConfigKeeps ==
    ASSUME NEW i \in Attempt, IInv, WriteConfig(i)
    PROVE  IInv'
<1>1. Places'
  BY LifecycleAssumption DEF IInv, Places, Step, Upgrader, Plan, File, WriteConfig, To, server,
     upgrades, bounds
<1>2. Data'
  BY LifecycleAssumption, WholeIsNoSchema DEF IInv, Data, Places, WriteConfig, To, server,
     upgrades, bounds, Schema
<1>3. Rows'
  BY LifecycleAssumption DEF IInv, Rows, LockMeansWhole, HasRows, OtherAsked, File, Places,
     Data, WriteConfig, To, server, upgrades, bounds
<1>4. Locked'
  BY LifecycleAssumption DEF IInv, Locked, HasRows, Places, Data, WriteConfig, To, server,
     upgrades, bounds
<1>5. Served'
  BY LifecycleAssumption DEF IInv, Served, Required, Locked, Rows, LockMeansWhole, HasRows,
     Places, Data, WriteConfig, To, server, upgrades, bounds
<1>6. Moving'
  BY LifecycleAssumption DEF IInv, Moving, Migrated, Required, Locked, Rows, LockMeansWhole,
     HasRows, Served, Places, Data, Step, Upgrader, WriteConfig, To, server, upgrades, bounds
<1>7. HalfIsHeld'
  BY LifecycleAssumption DEF IInv, HalfIsHeld, Locked, Moving, Places, WriteConfig, To, server,
     upgrades, bounds
<1>. QED
  BY <1>1, <1>2, <1>3, <1>4, <1>5, <1>6, <1>7 DEF IInv

LEMMA SeedKeeps ==
    ASSUME NEW i \in Attempt, IInv, Seed(i)
    PROVE  IInv'
<1>0. /\ schema' \in Schema /\ Grows(schema)' /\ schema'.level >= schema.level
      /\ Migrated(schema)' /\ schema'.level >= 1
  <2>1. schema \in Schema /\ Grows(schema) /\ prog \in 1..MaxVersion
    BY DEF IInv, Data, Places
  <2>. QED
    BY <2>1, AllMigrationsGrow DEF Seed, server, Migrated, Grows
<1>1. Places'
  <2>1. seeded' \in [boot : Attempt \cup {"none", "legacy"}, site : BOOLEAN, settings : BOOLEAN]
    <3>1. seeded' = seeded \/ seeded' = [boot |-> i, site |-> TRUE, settings |-> TRUE]
      BY Zenon DEF Seed, Seeds
    <3>2. CASE seeded' = seeded
      BY <3>2 DEF IInv, Places
    <3>3. CASE seeded' = [boot |-> i, site |-> TRUE, settings |-> TRUE]
      BY <3>3
    <3>. QED
      BY <3>1, <3>2, <3>3
  <2>2. install' \in [Attempt -> {"idle", "open", "configured", "seeded", "failed", "done"}]
    BY DEF IInv, Places, Seed, To
  <2>. QED
    BY <2>1, <2>2 DEF IInv, Places, Seed, server, files, upgrades, bounds
<1>2. Data'
  BY <1>0, LifecycleAssumption, WholeIsNoSchema DEF IInv, Data, Places, Seed, Seeds, To, server,
     files, upgrades, bounds
<1>3. Rows'
  BY <1>0, LifecycleAssumption DEF IInv, Rows, LockMeansWhole, HasRows, OtherAsked, File,
     Places, Data, Seed, Seeds, To, server, files, upgrades, bounds, Schema
<1>4. Locked'
  BY <1>0, LifecycleAssumption DEF IInv, Locked, HasRows, Places, Data, Seed, Seeds, To, server,
     files, upgrades, bounds
<1>5. Served'
  BY <1>0, LifecycleAssumption DEF IInv, Served, Required, Locked, Rows, LockMeansWhole,
     HasRows, Places, Data, Seed, Seeds, To, server, files, upgrades, bounds
<1>6. Moving'
  BY <1>0, LifecycleAssumption DEF IInv, Moving, Migrated, Required, Locked, Rows,
     LockMeansWhole, HasRows, Served, Places, Data, Step, Upgrader, Seed, Seeds, To, server, files,
     upgrades, bounds
<1>7. HalfIsHeld'
  BY <1>0, LifecycleAssumption DEF IInv, HalfIsHeld, Locked, Moving, Places, Seed, Seeds, To,
     server, files, upgrades, bounds
<1>. QED
  BY <1>1, <1>2, <1>3, <1>4, <1>5, <1>6, <1>7 DEF IInv

LEMMA RestoreFailsKeeps ==
    ASSUME NEW i \in Attempt, IInv, RestoreFails(i)
    PROVE  IInv'
<1>0. /\ schema' \in Schema /\ Grows(schema)' /\ schema'.level >= schema.level
      /\ Migrated(schema)' /\ schema'.level >= 1
  <2>1. schema \in Schema /\ Grows(schema) /\ prog \in 1..MaxVersion
    BY DEF IInv, Data, Places
  <2>. QED
    BY <2>1, AllMigrationsGrow DEF RestoreFails, server, Migrated, Grows
<1>1. Places'
  BY <1>0, LifecycleAssumption DEF IInv, Places, Step, Upgrader, Plan, RestoreFails, Seeds, To,
     server, files, upgrades, bounds
<1>2. Data'
  BY <1>0, LifecycleAssumption, WholeIsNoSchema DEF IInv, Data, Places, RestoreFails, Seeds, To,
     server, files, upgrades, bounds
<1>3. Rows'
  BY <1>0, LifecycleAssumption DEF IInv, Rows, LockMeansWhole, HasRows, OtherAsked, File,
     Places, Data, RestoreFails, Seeds, To, server, files, upgrades, bounds, Schema
<1>4. Locked'
  BY <1>0, LifecycleAssumption DEF IInv, Locked, HasRows, Places, Data, RestoreFails, Seeds, To,
     server, files, upgrades, bounds
<1>5. Served'
  BY <1>0, LifecycleAssumption DEF IInv, Served, Required, Locked, Rows, LockMeansWhole,
     HasRows, Places, Data, RestoreFails, Seeds, To, server, files, upgrades, bounds
<1>6. Moving'
  BY <1>0, LifecycleAssumption DEF IInv, Moving, Migrated, Required, Locked, Rows,
     LockMeansWhole, HasRows, Served, Places, Data, Step, Upgrader, RestoreFails, Seeds, To,
     server, files, upgrades, bounds
<1>7. HalfIsHeld'
  BY <1>0, LifecycleAssumption DEF IInv, HalfIsHeld, Locked, Moving, Places, RestoreFails, Seeds,
     To, server, files, upgrades, bounds
<1>. QED
  BY <1>1, <1>2, <1>3, <1>4, <1>5, <1>6, <1>7 DEF IInv

LEMMA SeedCutKeeps ==
    ASSUME NEW i \in Attempt, IInv, SeedCut(i)
    PROVE  IInv'
<1>0. schema' \in Schema /\ Grows(schema)' /\ schema'.level >= schema.level
  <2>1. schema \in Schema /\ Grows(schema) /\ prog \in 1..MaxVersion
    BY DEF IInv, Data, Places
  <2>. QED
    BY <2>1, AllMigrationsGrow, NextMigrationGrows DEF SeedCut, Grows
<1>1. Places'
  <2>1. seeded' \in [boot : Attempt \cup {"none", "legacy"}, site : BOOLEAN, settings : BOOLEAN]
    BY DEF IInv, Places, SeedCut
  <2>2. install' \in [Attempt -> {"idle", "open", "configured", "seeded", "failed", "done"}]
    BY DEF IInv, Places, SeedCut, Ended
  <2>3. upgrade' \in [Upgrader -> Step]
    BY DEF IInv, Places, SeedCut, Ended, Step
  <2>4. crashes' \in 0..MaxCrashes
    BY LifecycleAssumption DEF IInv, Places, SeedCut, Ended
  <2>. QED
    BY <2>1, <2>2, <2>3, <2>4 DEF IInv, Places, SeedCut, Ended, files
<1>2. Data'
  BY <1>0, LifecycleAssumption, WholeIsNoSchema DEF IInv, Data, Places, SeedCut, Ended, files
<1>3. Rows'
  <2>1. /\ lock' = lock /\ config' = config /\ lock # "this" /\ i \in Here
        /\ seeded.boot = "none" /\ config # "none"
    BY DEF SeedCut, files, IInv, Rows, LockMeansWhole, HasRows
  <2>2. seeded'.boot # "none" => schema'.level >= 1
    <3>1. schema \in Schema /\ Grows(schema) /\ prog \in 1..MaxVersion
      BY DEF IInv, Data, Places
    <3>. QED
      BY <2>1, <3>1, AllMigrationsGrow DEF SeedCut
  <2>3. /\ \A j \in Attempt : install'[j] # "idle" <=> install[j] # "idle"
        /\ \A j \in Here : install'[j] \notin {"seeded", "done"}
        /\ \A j \in Attempt : install'[j] = "done" => install[j] = "done"
        /\ \A j \in Attempt : install'[j] \notin {"configured", "seeded"}
    BY <2>1, LifecycleAssumption DEF SeedCut, Ended, IInv, Rows, Places
  <2>. QED
    BY <2>1, <2>2, <2>3, LifecycleAssumption DEF IInv, Rows, LockMeansWhole, OtherAsked
<1>4. Locked'
  BY <1>0, LifecycleAssumption DEF IInv, Locked, HasRows, Places, Data, SeedCut, Ended, files
<1>5. Served'
  BY <1>0, LifecycleAssumption DEF IInv, Served, Required, Locked, Rows, LockMeansWhole,
     HasRows, Places, Data, SeedCut, Ended, files
<1>6. Moving'
  BY <1>0, LifecycleAssumption DEF IInv, Moving, Migrated, Required, Locked, Rows,
     LockMeansWhole, HasRows, Served, Places, Data, Step, Upgrader, SeedCut, Ended, files
<1>7. HalfIsHeld'
  BY <1>0, LifecycleAssumption DEF IInv, HalfIsHeld, Locked, Moving, Places, SeedCut, Ended, files
<1>. QED
  BY <1>1, <1>2, <1>3, <1>4, <1>5, <1>6, <1>7 DEF IInv

LEMMA SeedOtherKeeps ==
    ASSUME NEW i \in Attempt, IInv, SeedOther(i)
    PROVE  IInv'
<1>0. /\ UNCHANGED <<server, files, schema, seeded, upgrades, bounds>>
      /\ i \notin Here /\ install[i] = "configured"
      /\ install' \in [Attempt -> {"idle", "open", "configured", "seeded", "failed", "done"}]
      /\ \A j \in Attempt : j # i => install'[j] = install[j]
      /\ install'[i] \in {"seeded", "failed"}
  BY DEF SeedOther, To, IInv, Places
<1>1. Places' /\ Data'
  BY <1>0 DEF IInv, Places, Data, Grows, server, files, upgrades, bounds
<1>2. Rows'
  BY <1>0, LifecycleAssumption DEF IInv, Rows, LockMeansWhole, HasRows, OtherAsked, files
<1>3. Locked' /\ HalfIsHeld' /\ Served' /\ Moving'
  BY <1>0 DEF IInv, Locked, HasRows, HalfIsHeld, Served, Moving, Required, Migrated, server,
     files, upgrades
<1>. QED
  BY <1>1, <1>2, <1>3 DEF IInv

LEMMA WriteLockKeeps ==
    ASSUME NEW i \in Attempt, IInv, WriteLock(i)
    PROVE  IInv'
<1>1. Places'
  BY LifecycleAssumption DEF IInv, Places, Step, Upgrader, Plan, File, WriteLock, To, server,
     upgrades, bounds
<1>2. Data'
  BY LifecycleAssumption, WholeIsNoSchema DEF IInv, Data, Places, WriteLock, To, server, upgrades,
     bounds, Schema
<1>3. Rows'
  BY LifecycleAssumption DEF IInv, Rows, LockMeansWhole, HasRows, OtherAsked, File, Places,
     Data, WriteLock, To, server, upgrades, bounds
<1>4. Locked'
  BY LifecycleAssumption DEF IInv, Locked, HasRows, File, Places, Data, WriteLock, To, server,
     upgrades, bounds
<1>5. Served'
  BY LifecycleAssumption DEF IInv, Served, Required, Locked, Rows, LockMeansWhole, HasRows,
     Places, Data, WriteLock, To, server, upgrades, bounds
<1>6. Moving'
  BY LifecycleAssumption DEF IInv, Moving, Migrated, Required, Locked, Rows, LockMeansWhole,
     HasRows, Served, Places, Data, Step, Upgrader, WriteLock, To, server, upgrades, bounds
<1>7. HalfIsHeld'
  BY LifecycleAssumption DEF IInv, HalfIsHeld, Locked, Moving, Places, WriteLock, To, server,
     upgrades, bounds
<1>. QED
  BY <1>1, <1>2, <1>3, <1>4, <1>5, <1>6, <1>7 DEF IInv

LEMMA ApplyKeeps ==
    ASSUME NEW a \in Web, IInv, Apply(a)
    PROVE  IInv'
<1>1. Places'
  BY LifecycleAssumption DEF IInv, Places, Step, Upgrader, Plan, Apply, At, server, files, bounds
<1>2. Data'
  BY LifecycleAssumption, WholeIsNoSchema DEF IInv, Data, Places, Apply, At, server, files,
     bounds, Schema
<1>3. Rows'
  BY LifecycleAssumption DEF IInv, Rows, LockMeansWhole, HasRows, OtherAsked, File, Places,
     Data, Apply, At, server, files, bounds
<1>4. Locked'
  BY LifecycleAssumption DEF IInv, Locked, HasRows, Places, Data, Apply, At, server, files, bounds
<1>5. Served'
  BY LifecycleAssumption DEF IInv, Served, Required, Locked, Rows, LockMeansWhole, HasRows,
     Places, Data, Apply, At, server, files, bounds
<1>6. Moving'
  BY LifecycleAssumption DEF IInv, Moving, Migrated, Required, Locked, Rows, LockMeansWhole,
     HasRows, Served, Places, Data, Step, Upgrader, Apply, At, server, files, bounds
<1>7. HalfIsHeld'
  BY LifecycleAssumption DEF IInv, HalfIsHeld, Locked, Moving, Places, Apply, At, server, files,
     bounds
<1>. QED
  BY <1>1, <1>2, <1>3, <1>4, <1>5, <1>6, <1>7 DEF IInv

LEMMA DetectKeeps ==
    ASSUME NEW a \in Cli, IInv, Detect(a)
    PROVE  IInv'
<1>1. Places'
  BY LifecycleAssumption DEF IInv, Places, Step, Upgrader, Plan, Detect, At, server, files, bounds
<1>2. Data'
  BY LifecycleAssumption, WholeIsNoSchema DEF IInv, Data, Places, Detect, At, server, files,
     bounds, Schema
<1>3. Rows'
  BY LifecycleAssumption DEF IInv, Rows, LockMeansWhole, HasRows, OtherAsked, File, Places,
     Data, Detect, At, server, files, bounds
<1>4. Locked'
  BY LifecycleAssumption DEF IInv, Locked, HasRows, Installed, Places, Data, Detect, At, server,
     files, bounds
<1>5. Served'
  BY LifecycleAssumption DEF IInv, Served, Required, Locked, Rows, LockMeansWhole, HasRows,
     Places, Data, Detect, At, server, files, bounds
<1>6. Moving'
  BY LifecycleAssumption DEF IInv, Moving, Migrated, Required, Locked, Rows, LockMeansWhole,
     HasRows, Served, Places, Data, Step, Upgrader, Detect, At, server, files, bounds
<1>7. HalfIsHeld'
  BY LifecycleAssumption DEF IInv, HalfIsHeld, Locked, Moving, Places, Detect, At, server, files,
     bounds
<1>. QED
  BY <1>1, <1>2, <1>3, <1>4, <1>5, <1>6, <1>7 DEF IInv

LEMMA MarkKeeps ==
    ASSUME NEW a \in Cli, IInv, Mark(a)
    PROVE  IInv'
<1>1. Places'
  BY LifecycleAssumption DEF IInv, Places, Step, Upgrader, Plan, Mark, At, server, files, bounds
<1>2. Data'
  BY LifecycleAssumption, WholeIsNoSchema DEF IInv, Data, Places, Mark, At, server, files, bounds,
     Schema
<1>3. Rows'
  BY LifecycleAssumption DEF IInv, Rows, LockMeansWhole, HasRows, OtherAsked, File, Places,
     Data, Mark, At, server, files, bounds
<1>4. Locked'
  BY LifecycleAssumption DEF IInv, Locked, HasRows, Places, Data, Mark, At, server, files, bounds
<1>5. Served'
  BY LifecycleAssumption DEF IInv, Served, Required, Locked, Rows, LockMeansWhole, HasRows,
     Places, Data, Mark, At, server, files, bounds
<1>6. Moving'
  BY LifecycleAssumption DEF IInv, Moving, Migrated, Required, Locked, Rows, LockMeansWhole,
     HasRows, Served, Places, Data, Step, Upgrader, Mark, At, server, files, bounds
<1>7. HalfIsHeld'
  BY LifecycleAssumption DEF IInv, HalfIsHeld, Locked, Moving, Places, Mark, At, server, files,
     bounds
<1>. QED
  BY <1>1, <1>2, <1>3, <1>4, <1>5, <1>6, <1>7 DEF IInv

LEMMA CliEndsKeeps ==
    ASSUME NEW a \in Cli, IInv, CliEnds(a)
    PROVE  IInv'
<1>1. Places'
  BY LifecycleAssumption DEF IInv, Places, Step, Upgrader, Plan, CliEnds, At, Running, server,
     files
<1>2. Data'
  BY LifecycleAssumption, WholeIsNoSchema DEF IInv, Data, Places, CliEnds, At, Running, server,
     files, Schema
<1>3. Rows'
  BY LifecycleAssumption DEF IInv, Rows, LockMeansWhole, HasRows, OtherAsked, File, Places,
     Data, CliEnds, At, Running, server, files
<1>4. Locked'
  BY LifecycleAssumption DEF IInv, Locked, HasRows, Places, Data, CliEnds, At, Running, server,
     files
<1>5. Served'
  BY LifecycleAssumption DEF IInv, Served, Required, Locked, Rows, LockMeansWhole, HasRows,
     Places, Data, CliEnds, At, Running, server, files
<1>6. Moving'
  BY LifecycleAssumption DEF IInv, Moving, Migrated, Required, Locked, Rows, LockMeansWhole,
     HasRows, Served, Places, Data, Step, Upgrader, CliEnds, At, Running, server, files
<1>7. HalfIsHeld'
  BY LifecycleAssumption DEF IInv, HalfIsHeld, Locked, Moving, Places, CliEnds, At, Running,
     server, files
<1>. QED
  BY <1>1, <1>2, <1>3, <1>4, <1>5, <1>6, <1>7 DEF IInv

LEMMA BackupKeeps ==
    ASSUME NEW a \in Upgrader, IInv, Backup(a)
    PROVE  IInv'
<1>1. Places'
  BY LifecycleAssumption DEF IInv, Places, Step, Upgrader, Plan, Backup, At, server, files, bounds
<1>2. Data'
  BY LifecycleAssumption, WholeIsNoSchema DEF IInv, Data, Places, Backup, At, server, files,
     bounds, Schema
<1>3. Rows'
  BY LifecycleAssumption DEF IInv, Rows, LockMeansWhole, HasRows, OtherAsked, File, Places,
     Data, Backup, At, server, files, bounds
<1>4. Locked'
  BY LifecycleAssumption DEF IInv, Locked, HasRows, Places, Data, Backup, At, server, files,
     bounds
<1>5. Served'
  BY LifecycleAssumption DEF IInv, Served, Required, Locked, Rows, LockMeansWhole, HasRows,
     Places, Data, Backup, At, server, files, bounds
<1>6. Moving'
  BY LifecycleAssumption DEF IInv, Moving, Migrated, Required, Locked, Rows, LockMeansWhole,
     HasRows, Served, Places, Data, Step, Upgrader, Backup, At, server, files, bounds
<1>7. HalfIsHeld'
  BY LifecycleAssumption DEF IInv, HalfIsHeld, Locked, Moving, Places, Backup, At, server, files,
     bounds
<1>. QED
  BY <1>1, <1>2, <1>3, <1>4, <1>5, <1>6, <1>7 DEF IInv

LEMMA MigrateKeeps ==
    ASSUME NEW a \in Upgrader, IInv, Migrate(a)
    PROVE  IInv'
<1>0. /\ schema \in Schema /\ schema.level >= 1
      /\ schema' \in Schema /\ Grows(schema)' /\ schema'.level >= schema.level
      /\ schema'.recorded /\ schema'.ledger = schema.ledger
  <2>1. schema \in Schema /\ Grows(schema) /\ prog \in 1..MaxVersion
    BY DEF IInv, Data, Places
  <2>2. schema.level >= 1
    BY DEF IInv, Rows, Locked, HasRows, Migrate
  <2>. QED
    BY <2>1, <2>2, NextMigrationGrows DEF Migrate, Grows
<1>1. Places'
  BY <1>0, LifecycleAssumption DEF IInv, Places, Step, Upgrader, Plan, Migrate, server, files,
     bounds
<1>2. Data'
  <2>1. CASE before = Whole
    <3>1. schema \in saved /\ before' = schema
      BY <2>1 DEF IInv, Moving, Migrate
    <3>. QED
      BY <1>0, <3>1 DEF IInv, Data, Migrate, Grows
  <2>2. CASE before # Whole
    BY <1>0, <2>2 DEF IInv, Data, Migrate, Grows
  <2>. QED
    BY <2>1, <2>2
<1>3. Rows'
  BY <1>0, LifecycleAssumption DEF IInv, Rows, LockMeansWhole, HasRows, OtherAsked, File,
     Places, Data, Migrate, server, files, bounds, Schema
<1>4. Locked'
  BY <1>0, LifecycleAssumption DEF IInv, Locked, HasRows, Places, Data, Migrate, server, files,
     bounds
<1>5. Served'
  BY <1>0, LifecycleAssumption DEF IInv, Served, Required, Locked, Rows, LockMeansWhole,
     HasRows, Places, Data, Migrate, server, files, bounds
<1>6. Moving'
  <2>1. before' # Whole /\ upgrade' = upgrade /\ marker' = marker
    BY <1>0, WholeIsNoSchema DEF IInv, Migrate
  <2>2. marker /\ mode \notin {"starting", "normal"} /\ lock # "none"
    BY DEF IInv, Moving, Locked, Migrate
  <2>3. ~Migrated(schema) /\ prog' = prog /\ mode' = mode /\ seeded' = seeded
    BY DEF Migrate, server
  <2>4. \A b \in Upgrader : upgrade[b] # "ledger"
    BY <2>3 DEF IInv, Moving
  <2>5. ASSUME NEW b \in Upgrader, upgrade[b] = "detected"
        PROVE  Required' \/ Migrated(schema)'
    <3>1. Required
      BY <2>3, <2>5 DEF IInv, Moving
    <3>2. ~schema.recorded => schema.ledger = Absent
      BY DEF IInv, Data, Grows
    <3>. QED
      BY <1>0, <2>3, <3>1, <3>2 DEF Required, HasRows
  <2>. QED
    BY <2>1, <2>2, <2>3, <2>4, <2>5 DEF Moving
<1>7. HalfIsHeld'
  BY <1>0, LifecycleAssumption DEF IInv, HalfIsHeld, Locked, Moving, Places, Migrate, server,
     files, bounds
<1>. QED
  BY <1>1, <1>2, <1>3, <1>4, <1>5, <1>6, <1>7 DEF IInv

LEMMA WriteLedgerKeeps ==
    ASSUME NEW a \in Upgrader, IInv, WriteLedger(a)
    PROVE  IInv'
<1>0. /\ schema' \in Schema /\ Grows(schema)' /\ schema'.level = schema.level
      /\ Migrated(schema)' /\ schema'.ledger # Absent
      /\ schema'.ledger \in {prog, Empty, schema.ledger}
  BY LedgerGrows DEF WriteLedger, server, Migrated, Grows
<1>1. Places'
  BY <1>0, LifecycleAssumption DEF IInv, Places, Step, Upgrader, Plan, WriteLedger, At, server,
     files, bounds
<1>2. Data'
  BY <1>0, LifecycleAssumption, WholeIsNoSchema DEF IInv, Data, Places, WriteLedger, At, server,
     files, bounds
<1>3. Rows'
  BY <1>0, LifecycleAssumption DEF IInv, Rows, LockMeansWhole, HasRows, OtherAsked, File,
     Places, Data, WriteLedger, At, server, files, bounds, Schema
<1>4. Locked'
  BY <1>0, LifecycleAssumption DEF IInv, Locked, HasRows, Places, Data, WriteLedger, At, server,
     files, bounds
<1>5. Served'
  <2>. SUFFICES ASSUME mode' \in {"starting", "normal"} PROVE ~Required'
    BY DEF Served
  <2>1. ~Required /\ prog' = prog /\ seeded' = seeded
    BY DEF IInv, Served, WriteLedger, server
  <2>2. schema'.recorded /\ schema'.ledger # Absent
    BY <1>0 DEF Migrated
  <2>3. schema'.ledger \in {Empty, prog} \/ schema'.ledger = schema.ledger
    BY <1>0
  <2>. QED
    BY <2>1, <2>2, <2>3 DEF Required, HasRows
<1>6. Moving'
  BY <1>0, LifecycleAssumption DEF IInv, Moving, Migrated, Required, Locked, Rows,
     LockMeansWhole, HasRows, Served, Places, Data, Step, Upgrader, WriteLedger, At, server, files,
     bounds
<1>7. HalfIsHeld'
  BY <1>0, LifecycleAssumption DEF IInv, HalfIsHeld, Locked, Moving, Places, WriteLedger, At,
     server, files, bounds
<1>. QED
  BY <1>1, <1>2, <1>3, <1>4, <1>5, <1>6, <1>7 DEF IInv

LEMMA UnmarkKeeps ==
    ASSUME NEW a \in Upgrader, IInv, Unmark(a)
    PROVE  IInv'
<1>1. Places'
  BY LifecycleAssumption DEF IInv, Places, Step, Upgrader, Plan, Unmark, At, server, files, bounds
<1>2. Data'
  BY LifecycleAssumption, WholeIsNoSchema DEF IInv, Data, Places, Unmark, At, server, files,
     bounds, Schema
<1>3. Rows'
  BY LifecycleAssumption DEF IInv, Rows, LockMeansWhole, HasRows, OtherAsked, File, Places,
     Data, Unmark, At, server, files, bounds
<1>4. Locked'
  BY LifecycleAssumption DEF IInv, Locked, HasRows, Places, Data, Unmark, At, server, files,
     bounds
<1>5. Served'
  BY LifecycleAssumption DEF IInv, Served, Required, Locked, Rows, LockMeansWhole, HasRows,
     Places, Data, Unmark, At, server, files, bounds
<1>6. Moving'
  BY LifecycleAssumption DEF IInv, Moving, Migrated, Required, Locked, Rows, LockMeansWhole,
     HasRows, Served, Places, Data, Step, Upgrader, Unmark, At, server, files, bounds
<1>7. HalfIsHeld'
  BY LifecycleAssumption DEF IInv, HalfIsHeld, Locked, Moving, Places, Unmark, At, server, files,
     bounds
<1>. QED
  BY <1>1, <1>2, <1>3, <1>4, <1>5, <1>6, <1>7 DEF IInv

LEMMA FailKeeps ==
    ASSUME NEW a \in Upgrader, IInv, Fail(a)
    PROVE  IInv'
<1>1. Places'
  BY LifecycleAssumption DEF IInv, Places, Step, Upgrader, Plan, Fail, At, server, files, bounds
<1>2. Data'
  BY LifecycleAssumption, WholeIsNoSchema DEF IInv, Data, Places, Fail, At, server, files, bounds,
     Schema
<1>3. Rows'
  BY LifecycleAssumption DEF IInv, Rows, LockMeansWhole, HasRows, OtherAsked, File, Places,
     Data, Fail, At, server, files, bounds
<1>4. Locked'
  BY LifecycleAssumption DEF IInv, Locked, HasRows, Places, Data, Fail, At, server, files, bounds
<1>5. Served'
  BY LifecycleAssumption DEF IInv, Served, Required, Locked, Rows, LockMeansWhole, HasRows,
     Places, Data, Fail, At, server, files, bounds
<1>6. Moving'
  BY LifecycleAssumption DEF IInv, Moving, Migrated, Required, Locked, Rows, LockMeansWhole,
     HasRows, Served, Places, Data, Step, Upgrader, Fail, At, server, files, bounds
<1>7. HalfIsHeld'
  BY LifecycleAssumption DEF IInv, HalfIsHeld, Locked, Moving, Places, Fail, At, server, files,
     bounds
<1>. QED
  BY <1>1, <1>2, <1>3, <1>4, <1>5, <1>6, <1>7 DEF IInv

-----------------------------------------------------------------------------
LEMMA NextKeeps == ASSUME IInv, Next PROVE IInv'
<1>1. CASE ServerStep
  BY <1>1, StartInstallKeeps, StartUpgradeKeeps, StartNormalKeeps, StartMigratesKeeps,
     ListenKeeps, CrashKeeps DEF ServerStep
<1>2. CASE Recover \/ \E v \in 1..MaxVersion : Deploy(v)
  BY <1>2, RecoverKeeps, DeployKeeps
<1>3. CASE \E i \in Attempt : InstallStep(i)
  BY <1>3, PostKeeps, WriteConfigKeeps, SeedKeeps, SeedOtherKeeps, RestoreFailsKeeps,
     SeedCutKeeps, WriteLockKeeps
     DEF InstallStep
<1>4. CASE \/ \E w \in Web : Apply(w)
           \/ \E c \in Cli : Detect(c) \/ Mark(c) \/ CliEnds(c)
  BY <1>4, ApplyKeeps, DetectKeeps, MarkKeeps, CliEndsKeeps
<1>5. CASE \E a \in Upgrader : UpgradeStep(a)
  BY <1>5, BackupKeeps, MigrateKeeps, WriteLedgerKeeps, UnmarkKeeps, FailKeeps DEF UpgradeStep
<1>. QED
  BY <1>1, <1>2, <1>3, <1>4, <1>5 DEF Next

LEMMA StutterKeeps == ASSUME IInv, UNCHANGED vars PROVE IInv'
<1>. USE DEF vars, server, files, upgrades, bounds
<1>1. Places' /\ Data'
  BY DEF IInv, Places, Data, Grows
<1>2. Rows' /\ Locked' /\ HalfIsHeld'
  BY DEF IInv, Rows, LockMeansWhole, OtherAsked, Locked, HasRows, HalfIsHeld
<1>3. Served' /\ Moving'
  BY DEF IInv, Served, Moving, Required, HasRows, Migrated
<1>. QED
  BY <1>1, <1>2, <1>3 DEF IInv

(* The lock, the marker, the ledger and the backups are kept by every      *)
(* request, start, end of a process and recovery.                          *)
THEOREM Invariance == Spec => []IInv
<1>. QED
  BY InitIInv, NextKeeps, StutterKeeps, PTL DEF Spec

(* Files, database, requests and upgrades keep their types.                *)
THEOREM TypeCorrect == Spec => []TypeOK
<1>1. IInv => TypeOK
  BY DEF IInv, Places, Data, TypeOK
<1>. QED
  BY Invariance, <1>1, PTL

(* The database that the lock names has its administrator, site and       *)
(* settings, and is the configured one unless a request named another.     *)
THEOREM LockIsWhole == Spec => []LockMeansWhole
<1>1. IInv => LockMeansWhole
  BY DEF IInv, Rows
<1>. QED
  BY Invariance, <1>1, PTL

(* Of the requests for one database, only the one it is of was answered.   *)
THEOREM AnsweredIsInstalled == Spec => []OneInstalls
<1>1. IInv => OneInstalls
  BY DEF IInv, Rows, OneInstalls
<1>. QED
  BY Invariance, <1>1, PTL

(* A half upgraded database has its marker and is not served.              *)
THEOREM HalfStaysHeld == Spec => []HalfIsHeld
<1>1. IInv => HalfIsHeld
  BY DEF IInv
<1>. QED
  BY Invariance, <1>1, PTL

(* And a backup from before the first change.                              *)
THEOREM HalfHasBackup == Spec => []BackupBeforeChange
<1>1. IInv => BackupBeforeChange
  BY DEF IInv, Data, BackupBeforeChange
<1>. QED
  BY Invariance, <1>1, PTL

(* The ledger names no version whose migrations are not applied.           *)
THEOREM LedgerFollows == Spec => []LedgerNeverAhead
<1>1. IInv => LedgerNeverAhead
  BY DEF IInv, Data, Grows, LedgerNeverAhead
<1>. QED
  BY Invariance, <1>1, PTL

-----------------------------------------------------------------------------
(* Refinement: an upgrade is one step of the database, or none.            *)

\* The migrations of the database, and those of an upgrade under way.
Later == schema'.level >= schema.level /\ (schema.recorded => schema'.recorded)
Ahead == before # Whole => schema.level >= before.level /\ (before.recorded => schema.recorded)

\* A step of neither the upgrade's migrations nor their end, nor the operator's.
Quiet ==
    /\ UNCHANGED <<before, prog>> /\ Later
    /\ \/ (mode' \in {"starting", "normal"}) = (mode \in {"starting", "normal"})
       \/ mode' = "off" /\ schema' = schema

LEMMA MigrationsAreLater ==
    ASSUME IInv
    PROVE  /\ schema' = schema => Later
           /\ schema' = AllMigrations(schema) => Later
           /\ schema' = NextMigration(schema) /\ ~Migrated(schema) => Later
<1>1. schema \in Schema /\ Grows(schema) /\ prog \in 1..MaxVersion /\ schema.level \in 0..MaxVersion
  BY DEF IInv, Data, Places, Schema
<1>2. schema' = AllMigrations(schema) => Later
  BY <1>1, AllMigrationsGrow DEF Later, Migrated
<1>3. schema' = NextMigration(schema) /\ ~Migrated(schema) => Later
  BY <1>1, NextMigrationGrows DEF Later
<1>. QED
  BY <1>1, <1>2, <1>3, LifecycleAssumption DEF Later

LEMMA ServerIsQuiet ==
    ASSUME IInv, StartInstall \/ StartUpgrade \/ StartMigrates \/ Listen \/ Crash
    PROVE  Quiet
<1>1. \/ schema' = schema \/ schema' = AllMigrations(schema)
      \/ schema' = NextMigration(schema) /\ ~Migrated(schema)
  BY Zenon DEF StartInstall, Looked, StartUpgrade, StartMigrates, Listen, Crash
<1>2. Later
  BY <1>1, MigrationsAreLater
<1>. QED
  BY <1>2 DEF Quiet, StartInstall, StartUpgrade, StartMigrates, Listen, Crash, Ended, server,
     upgrades

LEMMA InstallIsQuiet == ASSUME IInv, NEW i \in Attempt, InstallStep(i) PROVE Quiet
<1>1. \/ schema' = schema \/ schema' = AllMigrations(schema)
      \/ schema' = NextMigration(schema) /\ ~Migrated(schema)
  BY Zenon DEF InstallStep, Post, Looked, WriteConfig, Seed, SeedOther, RestoreFails, SeedCut,
     WriteLock
<1>2. Later
  BY <1>1, MigrationsAreLater
<1>3. UNCHANGED <<before, prog>> /\ mode = "install" /\ mode' \in {mode, "off"}
  BY DEF InstallStep, Post, WriteConfig, Seed, SeedOther, RestoreFails, SeedCut, WriteLock,
     Ended, server, upgrades
<1>. QED
  BY <1>2, <1>3 DEF Quiet

LEMMA UpgraderIsQuiet ==
    ASSUME IInv, NEW a, Apply(a) \/ Detect(a) \/ Mark(a) \/ CliEnds(a) \/ Backup(a) \/ Unmark(a) \/ Fail(a)
    PROVE  Quiet
<1>1. UNCHANGED <<before, prog, schema, mode>>
  BY DEF Apply, Detect, Mark, CliEnds, Backup, Unmark, Fail, server
<1>. QED
  BY <1>1, MigrationsAreLater DEF Quiet

\* What is left: the operator, a start, an upgrade's changes and their end.
LEMMA StepCases ==
    ASSUME IInv, [Next]_vars
    PROVE  \/ Quiet \/ Recover \/ StartNormal
           \/ \E v \in 1..MaxVersion : Deploy(v)
           \/ \E a \in Upgrader : Migrate(a) \/ WriteLedger(a)
<1>1. CASE UNCHANGED vars
  BY <1>1, MigrationsAreLater DEF vars, server, upgrades, Quiet
<1>2. CASE Next
  BY <1>2, ServerIsQuiet, InstallIsQuiet, UpgraderIsQuiet, Zenon DEF Next, ServerStep, UpgradeStep
<1>. QED
  BY <1>1, <1>2

LEMMA BeforeIsTyped ==
    ASSUME IInv
    PROVE  /\ schema \in Schema /\ schema.level \in 0..MaxVersion /\ schema # Whole
           /\ before # Whole => before \in Schema /\ before.level \in 0..MaxVersion
BY WholeIsNoSchema DEF IInv, Data, Schema

LEMMA LedgerIsLater ==
    ASSUME IInv, NEW a \in Upgrader, WriteLedger(a)
    PROVE  Later /\ schema'.recorded /\ schema'.level = schema.level /\ schema.level >= prog
<1>1. Migrated(schema) /\ schema' = Ledger(a)
  BY DEF WriteLedger
<1>2. Migrated(Ledger(a)) /\ Ledger(a).level = schema.level
  BY <1>1, LedgerGrows
<1>. QED
  BY <1>1, <1>2, BeforeIsTyped, LifecycleAssumption DEF Later, Migrated

LEMMA MigrateIsLater ==
    ASSUME IInv, NEW a \in Upgrader, Migrate(a)
    PROVE  Later
BY MigrationsAreLater DEF Migrate

LEMMA AheadKept == ASSUME IInv, IInv', Ahead, [Next]_vars PROVE Ahead'
<1>1. CASE Quiet
  BY <1>1, BeforeIsTyped DEF Quiet, Later, Ahead, IInv, Data, Schema
<1>2. CASE Recover
  BY <1>2 DEF Recover, Ahead
<1>3. CASE StartNormal
  BY <1>3 DEF StartNormal, upgrades, Ahead
<1>4. ASSUME NEW v \in 1..MaxVersion, Deploy(v) PROVE Ahead'
  BY <1>4 DEF Deploy, upgrades, Ahead
<1>5. ASSUME NEW a \in Upgrader, Migrate(a) PROVE Ahead'
  <2>1. Later /\ before' = IF before = Whole THEN schema ELSE before
    BY <1>5, MigrateIsLater DEF Migrate
  <2>. QED
    BY <2>1, BeforeIsTyped DEF Later, Ahead, IInv, Data, Schema
<1>6. ASSUME NEW a \in Upgrader, WriteLedger(a) PROVE Ahead'
  BY <1>6 DEF WriteLedger, Ahead
<1>. QED
  BY <1>1, <1>2, <1>3, <1>4, <1>5, <1>6, StepCases

LEMMA OneStep ==
    ASSUME IInv, IInv', Ahead, [Next]_vars
    PROVE  [Transaction!Next]_(Transaction!vars)
<1>. USE DEF Database
<1>1. CASE Quiet
  <2>1. before' = before /\ prog' = prog /\ Later
    BY <1>1 DEF Quiet
  <2>2. CASE before # Whole
    <3>1. UNCHANGED <<Database, prog>> /\ (before # Whole)' /\ mode \notin {"starting", "normal"}
          /\ mode' \notin {"starting", "normal"}
      BY <2>1, <2>2 DEF IInv, HalfIsHeld
    <3>. QED
      BY <2>1, <3>1 DEF Transaction!vars
  <2>3. CASE before = Whole
    <3>1. Database = schema /\ Database' = schema'
      BY <2>1, <2>3
    <3>2. CASE (mode' \in {"starting", "normal"}) = (mode \in {"starting", "normal"})
      BY <2>1, <2>3, <3>1, <3>2 DEF Later, Transaction!Next, Transaction!Extend, Transaction!Grows
    <3>3. CASE mode' = "off" /\ schema' = schema
      BY <2>1, <2>3, <3>1, <3>3 DEF Transaction!Next, Transaction!Stop, Transaction!vars
    <3>. QED
      BY <1>1, <3>2, <3>3 DEF Quiet
  <2>. QED
    BY <2>2, <2>3
<1>2. CASE Recover
  <2>1. /\ UNCHANGED <<prog, mode>> /\ before' = Whole
        /\ schema' = IF before = Whole THEN schema ELSE before
    BY <1>2 DEF Recover, server
  <2>. QED
    BY <2>1 DEF Transaction!Next, Transaction!RollBack, Transaction!vars
<1>3. CASE StartNormal
  <2>1. /\ UNCHANGED <<prog, schema, before>> /\ mode = "off" /\ mode' = "starting"
        /\ before = Whole
    BY <1>3 DEF StartNormal, MustUpgrade, upgrades, IInv, HalfIsHeld
  <2>. QED
    BY <2>1 DEF Transaction!Next, Transaction!Serve
<1>4. ASSUME NEW v \in 1..MaxVersion, Deploy(v) PROVE Transaction!Next
  <2>1. UNCHANGED <<schema, before, mode>> /\ mode = "off"
    BY <1>4 DEF Deploy, upgrades
  <2>. QED
    BY <2>1 DEF Transaction!Next, Transaction!Deploy
<1>5. ASSUME NEW a \in Upgrader, Migrate(a) PROVE [Transaction!Next]_(Transaction!vars)
  <2>1. UNCHANGED <<prog, mode>> /\ before' = IF before = Whole THEN schema ELSE before
    BY <1>5 DEF Migrate, server
  <2>2. mode \notin {"starting", "normal"}
    BY <1>5 DEF Migrate, IInv, Moving
  <2>3. CASE before = Whole
    BY <2>1, <2>2, <2>3, BeforeIsTyped DEF Transaction!Next, Transaction!Begin
  <2>4. CASE before # Whole
    BY <2>1, <2>4 DEF Transaction!vars
  <2>. QED
    BY <2>3, <2>4
<1>6. ASSUME NEW a \in Upgrader, WriteLedger(a) PROVE Transaction!Next
  <2>1. UNCHANGED <<prog, mode>> /\ before' = Whole
    BY <1>6 DEF WriteLedger, server
  <2>2. Later /\ schema'.recorded /\ schema'.level = schema.level /\ schema.level >= prog
    BY <1>6, LedgerIsLater
  <2>3. CASE before = Whole
    BY <2>1, <2>2, <2>3 DEF Later, Transaction!Next, Transaction!Extend, Transaction!Grows
  <2>4. CASE before # Whole
    BY <2>1, <2>2, <2>4 DEF Ahead, Transaction!Next, Transaction!Commit, Transaction!Grows
  <2>. QED
    BY <2>3, <2>4
<1>. QED
  BY <1>1, <1>2, <1>3, <1>4, <1>5, <1>6, StepCases

(* However upgrades overlap, fail or are cut off, the database seen through *)
(* its backup is upgraded in one step or not at all.                        *)
THEOREM UpgradeRefinement == Spec => UpgradesInOneStep
<1>1. Init => Transaction!Init /\ Ahead
  BY DEF Init, Transaction!Init, Ahead
<1>2. IInv /\ IInv' /\ Ahead /\ [Next]_vars => Ahead' /\ [Transaction!Next]_(Transaction!vars)
  BY AheadKept, OneStep
<1>. QED
  BY Invariance, <1>1, <1>2, PTL DEF Spec, UpgradesInOneStep, Transaction!Spec

-----------------------------------------------------------------------------
(* Import jobs.                                                            *)

LEMMA FilesAreFinite ==
    ASSUME NEW f \in Feeds \cup {<<>>}
    PROVE  IsFiniteSet(ToSet(f)) /\ ToSet(f) \subseteq Comment
<1>1. f \in Seq(Comment)
  BY FilesAreTrees, EmptySeq
<1>2. IsFiniteSet(DOMAIN f)
  <2>1. DOMAIN f = 1..Len(f) /\ Len(f) \in Nat
    BY <1>1
  <2>. QED
    BY <2>1, FS_Interval
<1>3. f \in Surjection(DOMAIN f, ToSet(f))
  BY <1>1 DEF Surjection, ToSet
<1>. QED
  BY <1>1, <1>2, <1>3, FS_Surjection DEF ToSet

\* A comment and those it answers within a file.
Closed(F, T) == \A c \in T : Parent[c] \in F => Parent[c] \in T
Chain(F, c) == {b \in F : \A T \in SUBSET F : c \in T /\ Closed(F, T) => b \in T}

LEMMA ChainOfReply ==
    ASSUME NEW F \in SUBSET Comment, NEW c \in F
    PROVE  Chain(F, c) = {c} \cup (IF Parent[c] \in F THEN Chain(F, Parent[c]) ELSE {})
<1>. DEFINE above == IF Parent[c] \in F THEN Chain(F, Parent[c]) ELSE {}
<1>1. {c} \cup above \in SUBSET F
  BY DEF Chain
<1>2. Closed(F, {c} \cup above)
  <2>1. CASE Parent[c] \in F
    <3>1. Parent[c] \in above
      BY <2>1 DEF Chain
    <3>2. \A b \in above : Parent[b] \in F => Parent[b] \in above
      BY <2>1 DEF Chain, Closed
    <3>. QED
      BY <3>1, <3>2 DEF Closed
  <2>2. CASE Parent[c] \notin F
    BY <2>2 DEF Closed
  <2>. QED
    BY <2>1, <2>2
<1>3. Chain(F, c) \subseteq {c} \cup above
  BY <1>1, <1>2 DEF Chain
<1>4. ASSUME NEW T \in SUBSET F, c \in T, Closed(F, T)
      PROVE  {c} \cup above \subseteq T
  BY <1>4 DEF Chain, Closed
<1>. QED
  BY <1>1, <1>3, <1>4 DEF Chain

LEMMA NotAboveItself ==
    ASSUME NEW F \in SUBSET Comment, NEW c \in F, Parent[c] \in F
    PROVE  c \notin Chain(F, Parent[c])
<1>. SUFFICES ASSUME c \in Chain(F, Parent[c]) PROVE FALSE
  OBVIOUS
<1>. DEFINE S == {b \in F : c \in Chain(F, b)}
<1>1. c \in S /\ Parent[c] \in S
  BY ChainOfReply
<1>2. PICK b \in S : Parent[b] \notin S
  BY <1>1, FilesAreTrees, Zenon
<1>3. b # c /\ c \in Chain(F, b)
  BY <1>1, <1>2
<1>4. Parent[b] \in F /\ c \in Chain(F, Parent[b])
  BY <1>3, ChainOfReply
<1>. QED
  BY <1>2, <1>4

LEMMA ChainIsFinite ==
    ASSUME NEW F \in SUBSET Comment, IsFiniteSet(F), NEW c
    PROVE  IsFiniteSet(Chain(F, c)) /\ Cardinality(Chain(F, c)) \in Nat
<1>1. Chain(F, c) \subseteq F
  BY DEF Chain
<1>. QED
  BY <1>1, FS_Subset, FS_CardinalityType

DepthEquation(F, d) == d = [c \in F |-> IF Parent[c] \in F THEN d[Parent[c]] + 1 ELSE 1]

LEMMA DepthExists ==
    ASSUME NEW F \in SUBSET Comment, IsFiniteSet(F)
    PROVE  \E d : DepthEquation(F, d)
<1>. DEFINE d == [c \in F |-> Cardinality(Chain(F, c))]
<1>1. ASSUME NEW c \in F, Parent[c] \in F
      PROVE  d[c] = d[Parent[c]] + 1
  <2>1. Chain(F, c) = Chain(F, Parent[c]) \cup {c}
    BY <1>1, ChainOfReply
  <2>2. Cardinality(Chain(F, Parent[c]) \cup {c}) = Cardinality(Chain(F, Parent[c])) + 1
    BY <1>1, NotAboveItself, ChainIsFinite, FS_AddElement
  <2>. QED
    BY <1>1, <2>1, <2>2
<1>2. ASSUME NEW c \in F, Parent[c] \notin F
      PROVE  d[c] = 1
  <2>1. Chain(F, c) = {c}
    BY <1>2, ChainOfReply
  <2>. QED
    BY <2>1, FS_Singleton
<1>3. DepthEquation(F, d)
  BY <1>1, <1>2 DEF DepthEquation
<1>. QED
  BY <1>3

\* computeDepth: one more than the depth of the comment answered.
LEMMA DepthOf ==
    ASSUME NEW f \in Feeds \cup {<<>>}
    PROVE  DepthEquation(ToSet(f), Depth(f))
<1>1. \E d : DepthEquation(ToSet(f), d)
  BY FilesAreFinite, DepthExists
<1>2. Depth(f) = CHOOSE d : DepthEquation(ToSet(f), d)
  BY DEF Depth, DepthEquation
<1>. QED
  BY <1>1, <1>2

LEMMA ParentIsShallower ==
    ASSUME NEW f \in Feeds \cup {<<>>}, NEW c \in ToSet(f), Parent[c] \in ToSet(f)
    PROVE  Shallower(f, Parent[c], c)
<1>. DEFINE F == ToSet(f)
            d == Depth(f)
            S == {b \in F : d[b] \notin Nat}
<1>1. F \subseteq Comment /\ DepthEquation(F, d)
  BY FilesAreFinite, DepthOf
<1>2. \A b \in F : d[b] = IF Parent[b] \in F THEN d[Parent[b]] + 1 ELSE 1
  BY <1>1, Zenon DEF DepthEquation
<1>3. S = {}
  <2>. SUFFICES ASSUME S # {} PROVE FALSE
    OBVIOUS
  <2>1. PICK b \in S : Parent[b] \notin S
    BY <1>1, FilesAreTrees, Zenon
  <2>2. Parent[b] \in F => d[Parent[b]] \in Nat
    BY <2>1
  <2>. QED
    BY <1>2, <2>1, <2>2
<1>4. d[Parent[c]] \in Nat /\ d[c] = d[Parent[c]] + 1
  BY <1>2, <1>3
<1>. QED
  BY <1>4 DEF Shallower

\* A plan of a feed lists every comment before the replies to it.
LEMMA ParentsFirst ==
    ASSUME NEW f \in Feeds \cup {<<>>}, NEW p \in PlansOf(f),
           NEW c \in ToSet(p), Parent[c] \in ToSet(p)
    PROVE  Precedes(p, Parent[c], c)
<1>. DEFINE kept == ToSet(f) \ Skipped
<1>1. p \in [1..Cardinality(kept) -> kept]
  BY DEF PlansOf
<1>2. PICK m \in DOMAIN p : p[m] = Parent[c]
  BY DEF ToSet
<1>3. PICK n \in DOMAIN p : p[n] = c
  BY DEF ToSet
<1>4. ToSet(p) \subseteq ToSet(f)
  BY <1>1 DEF ToSet
<1>5. Shallower(f, p[m], p[n])
  BY <1>2, <1>3, <1>4, ParentIsShallower
<1>6. m # n
  BY <1>2, <1>3, <1>4, FilesAreFinite, NotAboveItself, ChainOfReply
<1>7. Page[p[m]] = Page[p[n]]
  <2>1. c \in Comment /\ Parent[c] # None
    BY <1>4, FilesAreFinite, FilesAreTrees
  <2>. QED
    BY <1>2, <1>3, <2>1, FilesAreTrees
<1>8. ~ (n < m)
  BY <1>5, <1>7 DEF PlansOf
<1>9. m \in Int /\ n \in Int
  BY <1>1
<1>. QED
  BY <1>2, <1>3, <1>6, <1>8, <1>9 DEF Precedes

LEMMA PlansAreSequences ==
    ASSUME NEW f \in Feeds \cup {<<>>}, NEW p \in PlansOf(f)
    PROVE  p \in Seq(Comment)
<1>1. Cardinality(ToSet(f) \ Skipped) \in Nat
  BY FilesAreFinite, FS_Subset, FS_CardinalityType
<1>2. p \in [1..Cardinality(ToSet(f) \ Skipped) -> ToSet(f) \ Skipped]
  BY DEF PlansOf
<1>3. p \in Seq(ToSet(f) \ Skipped)
  BY <1>1, <1>2, SeqDef, Zenon
<1>. QED
  BY <1>3, FilesAreFinite, SeqMonotonic

-----------------------------------------------------------------------------
\* What an apply that waits is to import are comments.
Asked ==
    \A r \in Request : request[r] # Idle =>
        /\ request[r] \in Applying
        /\ content[request[r].job] \in Seq(Comment)

\* A comment without a record was never inserted.
Records == \A c \in Comment : made[c] <= 1 /\ (record[c] = None => made[c] = 0)

\* What a WordPress job is to import is the plan of a feed.
FeedPlans ==
    \A j \in WordPress :
        content[j] = None \/ \E f \in Feeds \cup {<<>>} : content[j] \in PlansOf(f)

Imports == ImportTypeOK /\ Asked /\ Records /\ FeedPlans /\ RepliesKeepTheirParent

LEMMA MergeKeeps ==
    ASSUME Imports, NEW r \in Request, Merge(r)
    PROVE  Imports' /\ (record' # record =>
                LET j == request[r].job
                    o == request[r].option
                IN  /\ request[r] # Idle
                    /\ Known' = Known \cup ToSet(content[j])
                    /\ o.skip \/ Known \cap ToSet(content[j]) = {}
                    /\ o.replace \/ settings' = settings)
<1>. DEFINE j == request[r].job
            o == request[r].option
            p == content[j]
            new == IF ImportsData(j, o) THEN New(p) ELSE {}
<1>1. request[r] # Idle /\ j \in Job /\ o \in Option /\ p \in Seq(Comment)
  BY DEF Merge, Imports, Asked, Applying
<1>2. ToSet(p) \subseteq Comment /\ new \subseteq Comment /\ new \cap Known = {}
  BY <1>1 DEF New, ToSet
<1>3. j # None
  BY <1>1, FilesAreTrees
<1>4. record' = [c \in Comment |-> IF c \in new THEN j ELSE record[c]]
  BY DEF Merge, Recorded
<1>5. Known' = Known \cup new /\ live' = live \cup new
  BY <1>2, <1>3, <1>4 DEF Merge, Known
<1>6. \A c \in new : Parent[c] = None \/ (Parent[c] \in ToSet(p) /\ Parent[c] \in new \cup live)
  BY <1>1 DEF Merge, Fits, Attaches, Precedes, ToSet
<1>7. /\ status' = [status EXCEPT ![j] = "applied"] /\ late' \in {late \cup {j}, late \ {j}}
      /\ under' = [c \in Comment |-> IF c \in new THEN Parent[c] ELSE under[c]]
      /\ made' = [c \in Comment |-> IF c \in new THEN made[c] + 1 ELSE made[c]]
      /\ settings' \in {"exported", settings}
      /\ request' = [request EXCEPT ![r] = Idle] /\ UNCHANGED <<upload, content>>
  BY DEF Merge, Image
<1>8. ImportTypeOK' /\ Asked' /\ Records' /\ FeedPlans'
  <2>. HIDE DEF new, p, o
  <2>1. ImportTypeOK'
    BY <1>1, <1>2, <1>4, <1>5, <1>6, <1>7 DEF Imports, ImportTypeOK, Status, Setting
  <2>2. Asked'
    BY <1>1, <1>7 DEF Imports, ImportTypeOK, Asked
  <2>3. Records'
    BY <1>2, <1>3, <1>4, <1>7 DEF Imports, ImportTypeOK, Records, Known
  <2>4. FeedPlans'
    BY <1>7 DEF Imports, FeedPlans
  <2>. QED
    BY <2>1, <2>2, <2>3, <2>4
<1>9. RepliesKeepTheirParent'
  BY <1>2, <1>5, <1>6 DEF Imports, ImportTypeOK, RepliesKeepTheirParent, Merge, Known
<1>10. ASSUME record' # record
       PROVE  Known' = Known \cup ToSet(p) /\ (o.skip \/ Known \cap ToSet(p) = {})
  <2>1. new # {}
    BY <1>4, <1>10 DEF Imports, ImportTypeOK
  <2>. QED
    BY <2>1, <1>2, <1>5 DEF Merge, Refused, Conflicts, Repeated, New
<1>11. o.replace \/ settings' = settings
  BY DEF Merge, Refused, Conflicts, Differ
<1>. QED
  BY <1>1, <1>8, <1>9, <1>10, <1>11 DEF Imports

-----------------------------------------------------------------------------
LEMMA ImportInitHolds == ImportInit => Imports
BY FilesAreTrees DEF ImportInit, Imports, ImportTypeOK, Asked, Records, FeedPlans,
   RepliesKeepTheirParent, Status, Setting, Known, Idle

LEMMA AnalyzeKeeps == ASSUME Imports, NEW j \in Job, NEW f \in Feeds, Analyze(j, f) PROVE Imports'
BY DEF Imports, ImportTypeOK, Asked, Records, FeedPlans, RepliesKeepTheirParent, Analyze,
   Status, site, Known

LEMMA ConvertKeeps == ASSUME Imports, NEW j \in Job, Convert(j) PROVE Imports'
<1>1. PICK p \in PlansOf(upload[j]) : content' = [content EXCEPT ![j] = p]
  BY DEF Convert
<1>2. p \in Seq(Comment)
  BY PlansAreSequences DEF Imports, ImportTypeOK
<1>3. FeedPlans'
  BY <1>1 DEF Imports, ImportTypeOK, FeedPlans
<1>. QED
  BY <1>1, <1>2, <1>3 DEF Imports, ImportTypeOK, Asked, Applying, Records,
     RepliesKeepTheirParent, Convert, Status, site, Known

LEMMA DryRunKeeps == ASSUME Imports, NEW j \in Job, NEW o \in Options(j), DryRun(j, o) PROVE Imports'
<1>1. Verdict(j, o, content[j]) \in Status
  BY DEF Verdict, Status
<1>. QED
  BY <1>1 DEF Imports, ImportTypeOK, Asked, Records, FeedPlans, RepliesKeepTheirParent, DryRun,
     site, Known

LEMMA CreateDryRunKeeps ==
    ASSUME Imports, NEW j \in Job, NEW o \in Options(j), NEW f \in Exports, CreateDryRun(j, f, o)
    PROVE  Imports'
<1>1. Verdict(j, o, f) \in Status /\ f \in Seq(Comment)
  BY FilesAreTrees DEF Verdict, Status
<1>2. FeedPlans'
  BY FilesAreTrees DEF Imports, ImportTypeOK, FeedPlans, CreateDryRun
<1>. QED
  BY <1>1, <1>2 DEF Imports, ImportTypeOK, Asked, Applying, Records, RepliesKeepTheirParent,
     CreateDryRun, site, Known

LEMMA AskKeeps ==
    ASSUME Imports, NEW r \in Request, NEW j \in Job, NEW o \in Options(j), Ask(r, j, o)
    PROVE  Imports'
<1>1. [job |-> j, option |-> o] \in Applying /\ content[j] \in Seq(Comment)
  BY DEF Applying, Options, Ask, Planned, Imports, ImportTypeOK
<1>. QED
  BY <1>1 DEF Imports, ImportTypeOK, Asked, Records, FeedPlans, RepliesKeepTheirParent, Ask,
     rows, site, Known

LEMMA ForgottenKeeps ==
    ASSUME Imports, NEW r \in Request, BackUpOnly(r) \/ BackUpFails(r)
    PROVE  Imports'
<1>1. request' = [request EXCEPT ![r] = Idle]
  BY DEF BackUpOnly, BackUpFails
<1>2. late' \subseteq Job
  BY DEF Imports, ImportTypeOK, Asked, Applying, BackUpOnly, BackUpFails, Image, rows
<1>3. UNCHANGED <<status, upload, content, record, live, under, settings, made>>
  BY DEF BackUpOnly, BackUpFails, rows, site
<1>. QED
  BY <1>1, <1>2, <1>3 DEF Imports, ImportTypeOK, Asked, Records, FeedPlans,
     RepliesKeepTheirParent, Known

LEMMA InterruptKeeps == ASSUME Imports, Interrupt PROVE Imports'
BY DEF Imports, ImportTypeOK, Asked, Records, FeedPlans, RepliesKeepTheirParent, Interrupt,
   rows, site, Known

LEMMA RemovePageKeeps == ASSUME Imports, NEW c \in live, RemovePage(Page[c]) PROVE Imports'
<1>1. ImportTypeOK' /\ Asked' /\ Records' /\ FeedPlans'
  BY DEF Imports, ImportTypeOK, Asked, Records, FeedPlans, RemovePage, rows, Known
<1>2. RepliesKeepTheirParent'
  BY FilesAreTrees DEF Imports, ImportTypeOK, RepliesKeepTheirParent, RemovePage, Known
<1>. QED
  BY <1>1, <1>2 DEF Imports

LEMMA OthersKeep == ASSUME Imports, EditSettings \/ UNCHANGED importVars PROVE Imports'
BY DEF Imports, ImportTypeOK, Asked, Records, FeedPlans, RepliesKeepTheirParent, EditSettings,
   importVars, rows, site, Known, Setting

\* Only a merge records anything.
LEMMA ImportStep ==
    ASSUME Imports, [ImportNext]_importVars
    PROVE  Imports' /\ (record' = record \/ \E r \in Request : Merge(r))
<1>1. ASSUME NEW j \in Job, NEW f \in Feeds, Analyze(j, f)
      PROVE  Imports' /\ record' = record
  BY <1>1, AnalyzeKeeps DEF Analyze, site
<1>2. ASSUME NEW j \in Job, Convert(j)
      PROVE  Imports' /\ record' = record
  BY <1>2, ConvertKeeps DEF Convert, site
<1>3. ASSUME NEW j \in Job, NEW o \in Options(j), DryRun(j, o)
      PROVE  Imports' /\ record' = record
  BY <1>3, DryRunKeeps DEF DryRun, site
<1>4. ASSUME NEW j \in Job, NEW o \in Options(j), NEW f \in Exports, CreateDryRun(j, f, o)
      PROVE  Imports' /\ record' = record
  BY <1>4, CreateDryRunKeeps DEF CreateDryRun, site
<1>5. ASSUME NEW j \in Job, NEW o \in Options(j), NEW r \in Request, Ask(r, j, o)
      PROVE  Imports' /\ record' = record
  BY <1>5, AskKeeps DEF Ask, site
<1>6. ASSUME NEW r \in Request, Merge(r) PROVE Imports'
  BY <1>6, MergeKeeps
<1>7. ASSUME NEW r \in Request, BackUpOnly(r) \/ BackUpFails(r)
      PROVE  Imports' /\ record' = record
  BY <1>7, ForgottenKeeps DEF BackUpOnly, BackUpFails, site
<1>8. ASSUME Interrupt PROVE Imports' /\ record' = record
  BY <1>8, InterruptKeeps DEF Interrupt, site
<1>9. ASSUME NEW c \in live, RemovePage(Page[c]) PROVE Imports' /\ record' = record
  BY <1>9, RemovePageKeeps DEF RemovePage
<1>10. ASSUME EditSettings \/ UNCHANGED importVars PROVE Imports' /\ record' = record
  BY <1>10, OthersKeep DEF EditSettings, importVars, site
<1>. QED
  BY <1>1, <1>2, <1>3, <1>4, <1>5, <1>6, <1>7, <1>8, <1>9, <1>10 DEF ImportNext

\* The invariant of the import jobs: whatever is asked, backed up, rehearsed or
\* cut off at once.
THEOREM ImportInvariance == ImportSpec => []Imports
<1>1. Imports /\ [ImportNext]_importVars => Imports'
  BY ImportStep
<1>. QED
  BY ImportInitHolds, <1>1, PTL DEF ImportSpec

\* Jobs, what they import, and the requests that wait keep their types.
THEOREM ImportsTyped == ImportSpec => []ImportTypeOK
BY ImportInvariance, PTL DEF Imports

\* However many jobs hold a comment and however their applies interleave, it
\* is inserted once.
THEOREM NothingComesTwice == ImportSpec => []ImportedOnce
<1>1. Imports => ImportedOnce
  BY DEF Imports, Records, ImportedOnce
<1>. QED
  BY ImportInvariance, <1>1, PTL

\* An imported reply hangs under the imported copy of the comment it answered,
\* whatever the order of the files, the jobs and the pages' removals.
THEOREM ThreadsStayTogether == ImportSpec => []RepliesKeepTheirParent
BY ImportInvariance, PTL DEF Imports

\* Whatever was converted, merged and removed since: a feed that loses no parent
\* has a plan that can be imported whole, but for parents gone with their page.
THEOREM PlansCanBeImported == ImportSpec => []PlansAreImportable
<1>1. Imports => PlansAreImportable
  <2>. SUFFICES ASSUME Imports, NEW j \in WordPress, Planned(j), ~Orphaned(j, content[j]),
                       NEW c \in New(content[j]), Parent[c] \notin Known \ live
                PROVE  Attaches(content[j], c)
    BY DEF PlansAreImportable
  <2>1. PICK f \in Feeds \cup {<<>>} : content[j] \in PlansOf(f)
    BY DEF Imports, FeedPlans, Planned
  <2>2. c \in ToSet(content[j]) /\ (Parent[c] = None \/ Parent[c] \in ToSet(content[j]))
    BY DEF New, Orphaned
  <2>3. Parent[c] = None \/ Precedes(content[j], Parent[c], c)
    BY <2>1, <2>2, ParentsFirst
  <2>. QED
    BY <2>2, <2>3 DEF Attaches, New
<1>. QED
  BY ImportInvariance, <1>1, PTL

\* An import is complete or leaves nothing, and is as the options of its request
\* allow in the state in which it happens.
THEOREM MergesAreAsChecked == ImportSpec => MergesAsChecked
<1>1. Imports /\ [ImportNext]_importVars =>
        [record' # record =>
            \E r \in Request :
                LET j == request[r].job
                    o == request[r].option
                IN  /\ request[r] # Idle
                    /\ Known' = Known \cup ToSet(content[j])
                    /\ o.skip \/ Known \cap ToSet(content[j]) = {}
                    /\ o.replace \/ settings' = settings
        ]_importVars
  BY ImportStep, MergeKeeps
<1>. QED
  BY ImportInvariance, <1>1, PTL DEF ImportSpec, MergesAsChecked
=============================================================================
