------------------------- MODULE UpgradeTransaction -------------------------
(***************************************************************************)
(* What upgrades promise the operator, with no marker, backups or          *)
(* processes: the database is one image.  An upgrade is a transaction on   *)
(* it: open, it cannot be seen and nothing is served; it ends with an      *)
(* image that is whole for the program's version, or with the very image   *)
(* it began with.  Nothing ever takes a migration out of the image.        *)
(***************************************************************************)
EXTENDS Integers

VARIABLES image,    \* the database: its migrations, and whether they are recorded
          version,  \* the program's version
          open,     \* an upgrade has changed the database and is not over
          served    \* a server works with the database
vars == <<image, version, open, served>>

Init == ~open /\ ~served

Grows == image'.level >= image.level /\ (image.recorded => image'.recorded)

Begin ==
    /\ ~open /\ ~served
    /\ open'
    /\ UNCHANGED <<image, version, served>>

Commit ==
    /\ open /\ ~open'
    /\ Grows /\ image'.recorded /\ image'.level >= version
    /\ UNCHANGED <<version, served>>

RollBack ==
    /\ open /\ ~open'
    /\ UNCHANGED <<image, version, served>>

\* The installation, a plain start and the ledger change it without an upgrade.
Extend ==
    /\ ~open /\ ~open'
    /\ Grows
    /\ UNCHANGED <<version, served>>

Serve ==
    /\ ~open /\ ~served
    /\ served'
    /\ UNCHANGED <<image, version, open>>

Stop ==
    /\ served /\ ~served'
    /\ UNCHANGED <<image, version, open>>

Deploy ==
    /\ ~served
    /\ UNCHANGED <<image, open, served>>

Next == Begin \/ Commit \/ RollBack \/ Extend \/ Serve \/ Stop \/ Deploy

Spec == Init /\ [][Next]_vars
=============================================================================
