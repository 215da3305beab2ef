----------------------------- MODULE AdminAccess -----------------------------
(***************************************************************************)
(* Who may use the admin console: accounts and their groups, passwords,    *)
(* sessions, and the ban of an address that guesses.                       *)
(*                                                                         *)
(* The statements of a request run without a pause, so a request is one    *)
(* action; but they are no transaction: an unknown site or a crash stops   *)
(* it after its first statements.  A failed login first waits for the log. *)
(* The guessing comes from one address.  A password is the number of the   *)
(* change that made it.  What only refuses a request is left out: the      *)
(* login captcha, a login block, a password that must be changed first;    *)
(* and so are site grants and profile data.                                *)
(***************************************************************************)
EXTENDS Integers, FiniteSets

CONSTANTS User, Initial, Session, None,
          MaxFailures,  \* rateLimit.adminLogin.maxFailures
          MaxLogging,   \* bound: failed logins waiting for the log
          MaxBans,      \* bound: bans waiting for the log
          MaxChanges    \* bound: new passwords

Statuses == {"active", "disabled", "deleted"}
Groups == {"admin", "site"}

ASSUME AccessAssumption ==
    /\ Initial \in User /\ None \notin User \cup Statuses \cup Groups
    /\ MaxFailures \in Nat \ {0} /\ MaxLogging \in Nat /\ MaxBans \in Nat
    /\ MaxChanges \in Nat

VARIABLES
    status, gone, group,  \* of each account; those with a deletedAt
    pw, boot,             \* each account's password; the one of admin_bootstrap_state
    made,                 \* bound: passwords so far
    tokens,               \* mailed confirmations of a new password
    owner, revoked,       \* each session's account; revoked sessions
    failures, banned,     \* failures counted for the address; a live rule against it
    logging, banning,     \* failed logins, and bans, waiting for the log
    up,
    cut,                  \* history: sessions that a request cut off should have revoked
    wrong, bans           \* history: guesses and bans since the last amnesty

accounts  == <<status, gone, group>>
passwords == <<pw, boot, made, tokens>>
sessions  == <<owner, revoked, cut>>
guesses   == <<failures, banned, logging, banning, wrong, bans>>
vars == <<accounts, passwords, sessions, guesses, up>>

Init ==
    /\ status = [u \in User |-> IF u = Initial THEN "active" ELSE "absent"]
    /\ group = [u \in User |-> IF u = Initial THEN "admin" ELSE None]
    /\ gone = {}
    /\ pw = [u \in User |-> 0] /\ boot = 0 /\ made = 0 /\ tokens = {}
    /\ owner = [s \in Session |-> None] /\ revoked = {} /\ cut = {}
    /\ failures = 0 /\ banned = FALSE /\ logging = 0 /\ banning = 0
    /\ wrong = 0 /\ bans = 0
    /\ up = TRUE

-----------------------------------------------------------------------------
(* Logging in.                                                             *)

Active(u) == status[u] = "active" /\ u \notin gone

\* Whoever succeeds or comes after a restart starts to count again; the
\* failures still waiting for the log are counted yet.
Amnesty(waiting) == wrong' = waiting /\ bans' = 0

Login(u, s) ==
    /\ up /\ ~banned /\ Active(u)
    /\ owner[s] = None
    /\ owner' = [owner EXCEPT ![s] = u]
    /\ failures' = 0 /\ Amnesty(logging)
    /\ UNCHANGED <<accounts, passwords, revoked, cut, banned, logging, banning, up>>

Guess ==
    /\ up /\ ~banned /\ logging < MaxLogging
    /\ logging' = logging + 1
    /\ wrong' = wrong + 1
    /\ UNCHANGED <<accounts, passwords, sessions, failures, banned, banning, bans, up>>

\* A slip: the limit is met once and passed by.
TooManyOnce(n) == n = MaxFailures

TooMany(n) == n >= MaxFailures

CountFailure ==
    /\ up /\ logging > 0
    /\ logging' = logging - 1
    /\ failures' = failures + 1
    /\ IF TooMany(failures')
       THEN /\ banning < MaxBans /\ bans' = bans + 1
            /\ banned' = TRUE /\ banning' = banning + 1
       ELSE UNCHANGED <<banned, banning, bans>>
    /\ UNCHANGED <<accounts, passwords, sessions, wrong, up>>

\* The ban is in the log; the failures are forgotten.
Banned ==
    /\ up /\ banning > 0
    /\ banning' = banning - 1
    /\ failures' = 0
    /\ Amnesty(logging)
    /\ UNCHANGED <<accounts, passwords, sessions, banned, logging, up>>

BanEnds ==
    /\ banned /\ banned' = FALSE
    /\ UNCHANGED <<accounts, passwords, sessions, failures, logging, banning, wrong, bans,
                   up>>

-----------------------------------------------------------------------------
(* Sessions.                                                               *)

Accepted(s) ==
    up /\ owner[s] # None /\ s \notin revoked /\ Active(owner[s]) /\ group[owner[s]] # None

Of(u) == {s \in Session : owner[s] = u}

\* By logout or by its expiry.
SessionEnds(s) ==
    /\ up /\ owner[s] # None
    /\ owner' = [owner EXCEPT ![s] = None]
    /\ revoked' = revoked \ {s} /\ cut' = cut \ {s}
    /\ UNCHANGED <<accounts, passwords, guesses, up>>

ShutOut(u) ==
    /\ revoked' = revoked \cup Of(u)
    /\ cut' = cut \ Of(u)
    /\ UNCHANGED owner

-----------------------------------------------------------------------------
(* Accounts.                                                               *)

IsAdmin(s) == Accepted(s) /\ group[owner[s]] = "admin"

MayGrant(s, g) == g = "admin" => owner[s] = Initial

\* A slip: only a live administrator needs the initial one.
MayTargetDormant(s, u) ==
    \/ owner[s] = u
    \/ u # Initial /\ (group[u] = "admin" /\ status[u] = "active" => owner[s] = Initial)

MayTarget(s, u) ==
    \/ owner[s] = u
    \/ u # Initial /\ (group[u] = "admin" => owner[s] = Initial)

Powerful(u) == Active(u) /\ group[u] = "admin"

\* Accounts marked active are counted, even with a deletedAt.
OtherAdmins(u) == {v \in User \ {u} : status[v] = "active" /\ group[v] = "admin"}

\* A slip: the initial administrator is nobody special.
ProtectedNever(u, st, g) == FALSE

Protected(u, st, g) == u = Initial /\ (st \in {"disabled", "deleted"} \/ g = "site")

MayUpdate(s, u, st, g) ==
    /\ IsAdmin(s) /\ group[u] # None
    /\ ~Protected(u, st, g)
    /\ MayTarget(s, u) /\ MayGrant(s, g)
    /\ group[u] = "admin" /\ status[u] = "active" /\ (st \in {"disabled", "deleted"} \/ g = "site")
         => OtherAdmins(u) # {}

\* The account's row; None leaves its status.
Row(u, st) ==
    /\ status' = IF st = None THEN status ELSE [status EXCEPT ![u] = st]
    /\ gone' = IF st = "deleted" THEN gone \cup {u} ELSE gone

Grouped(u, g) == IF g = None THEN group ELSE [group EXCEPT ![u] = g]

\* A slip: only a disabled account is shut out.
EndsDisabled(st) == st = "disabled"

Ends(st) == st \in {"disabled", "deleted"}

UpdateUser(s, u, st, g) ==
    /\ MayUpdate(s, u, st, g)
    /\ Row(u, st)
    /\ group' = Grouped(u, g)
    /\ IF Ends(st) THEN ShutOut(u) ELSE UNCHANGED sessions
    /\ UNCHANGED <<passwords, guesses, up>>

Dies == up' = FALSE

\* A site of the request does not exist, or the process ends: the group may
\* be changed, the sessions are not revoked.
HalfUpdate(s, u, st, g) ==
    /\ MayUpdate(s, u, st, g)
    /\ Row(u, st)
    /\ \/ Grouped(u, g)[u] = "site" /\ group' = Grouped(u, g) /\ UNCHANGED up
       \/ group' \in {group, Grouped(u, g)} /\ Dies
    /\ cut' = IF Ends(st) THEN cut \cup (Of(u) \ revoked) ELSE cut
    /\ UNCHANGED <<passwords, owner, revoked, guesses>>

CreateUser(s, u, g) ==
    /\ IsAdmin(s) /\ MayGrant(s, g) /\ status[u] = "absent"
    /\ status' = [status EXCEPT ![u] = "active"]
    /\ \/ group' = [group EXCEPT ![u] = g] /\ UNCHANGED up
       \/ UNCHANGED group /\ Dies
    /\ UNCHANGED <<gone, passwords, sessions, guesses>>

\* An administrator logs an account out everywhere.
RevokeSessions(s, u) ==
    /\ IsAdmin(s) /\ group[u] # None /\ MayTarget(s, u)
    /\ ShutOut(u)
    /\ UNCHANGED <<accounts, passwords, guesses, up>>

-----------------------------------------------------------------------------
(* Passwords.                                                              *)

New == made < MaxChanges /\ made' = made + 1

SetPassword(u, n) == pw' = [pw EXCEPT ![u] = n]

ResetPassword(s, u) ==
    /\ IsAdmin(s) /\ group[u] # None /\ MayTarget(s, u)
    /\ New /\ SetPassword(u, made')
    /\ \/ ShutOut(u) /\ UNCHANGED up
       \/ UNCHANGED sessions /\ Dies
    /\ UNCHANGED <<accounts, boot, tokens, guesses>>

\* A user's own change keeps the sessions; with mail it waits for a token.
ChangePassword(s) ==
    /\ Accepted(s)
    /\ New /\ SetPassword(owner[s], made')
    /\ UNCHANGED <<accounts, boot, tokens, sessions, guesses, up>>

AskForToken(s) ==
    /\ Accepted(s)
    /\ New
    /\ tokens' = tokens \cup {<<owner[s], made'>>}
    /\ UNCHANGED <<accounts, pw, boot, sessions, guesses, up>>

Confirm(s, t) ==
    /\ Accepted(s) /\ t[1] = owner[s]
    /\ SetPassword(t[1], t[2])
    /\ \/ tokens' = tokens \ {t} /\ UNCHANGED up
       \/ UNCHANGED tokens /\ Dies
    /\ UNCHANGED <<accounts, boot, made, sessions, guesses>>

TokenEnds(t) ==
    /\ tokens' = tokens \ {t}
    /\ UNCHANGED <<accounts, pw, boot, made, sessions, guesses, up>>

-----------------------------------------------------------------------------
(* The command line and the process.                                       *)

\* qyctl admin repass: the bootstrap's password, and all sessions.
Repass ==
    /\ New /\ boot' = made'
    /\ owner' = [s \in Session |-> None] /\ revoked' = {} /\ cut' = {}
    /\ UNCHANGED <<accounts, pw, tokens, guesses, up>>

Crash ==
    /\ up /\ Dies
    /\ UNCHANGED <<accounts, passwords, sessions, guesses>>

\* The initial administrator is written anew from the bootstrap.
Restart ==
    /\ ~up /\ up' = TRUE
    /\ SetPassword(Initial, boot)
    /\ status' = [status EXCEPT ![Initial] = "active"]
    /\ group' = [group EXCEPT ![Initial] = "admin"]
    /\ failures' = 0 /\ logging' = 0 /\ banning' = 0
    /\ wrong' = 0 /\ bans' = 0
    /\ UNCHANGED <<gone, boot, made, tokens, sessions, banned>>

-----------------------------------------------------------------------------

ByUser(s) ==
    \/ \E u \in User : Login(u, s)
    \/ SessionEnds(s) \/ ChangePassword(s) \/ AskForToken(s)
    \/ \E t \in tokens : Confirm(s, t)

    \/ \E u \in User, st \in Statuses \cup {None}, g \in Groups \cup {None} :
           UpdateUser(s, u, st, g) \/ HalfUpdate(s, u, st, g)
    \/ \E u \in User, g \in Groups : CreateUser(s, u, g)
    \/ \E u \in User : RevokeSessions(s, u) \/ ResetPassword(s, u)
ByClock ==
    \/ Guess \/ CountFailure \/ Banned \/ BanEnds
    \/ \E t \in tokens : TokenEnds(t)
    \/ Repass \/ Crash \/ Restart

Next == (\E s \in Session : ByUser(s)) \/ ByClock
Spec == Init /\ [][Next]_vars

-----------------------------------------------------------------------------

(* The type invariant of accounts, sessions and failures                   *)
(* (admin/admin-users-repository.ts, admin/session-service.ts).            *)
TypeOK ==
    /\ status \in [User -> Statuses \cup {"absent"}]
    /\ group \in [User -> Groups \cup {None}]
    /\ gone \subseteq User
    /\ pw \in [User -> 0..MaxChanges] /\ boot \in 0..MaxChanges /\ made \in 0..MaxChanges
    /\ tokens \subseteq User \X (0..MaxChanges)
    /\ owner \in [Session -> User \cup {None}]
    /\ revoked \subseteq Session /\ \A s \in revoked : owner[s] # None
    /\ cut \subseteq Session
    /\ failures \in Nat /\ wrong \in Nat /\ bans \in Nat
    /\ logging \in 0..MaxLogging /\ banning \in 0..MaxBans
    /\ banned \in BOOLEAN /\ up \in BOOLEAN

(* No session sleeps under an account that was disabled or deleted, to be  *)
(* accepted again once the account is enabled; but where the request that  *)
(* disabled it failed or was cut off after its first statement.            *)
NoSleeper ==
    \A s \in Session :
        owner[s] # None /\ ~Active(owner[s]) => s \in revoked \cup cut

(* Some account can always administer, though the last administrator is    *)
(* looked for among accounts that may be deleted.                          *)
AdminRemains == \E u \in User : Powerful(u)

(* Nobody becomes an administrator, nor becomes one again, but while the   *)
(* initial administrator is logged in to do it.                            *)
PowerIsGranted ==
    [][\A u \in User : Powerful(u)' /\ ~Powerful(u)
           => \E s \in Session : Accepted(s) /\ owner[s] = Initial]_vars

(* Between two amnesties an address guesses fewer than MaxFailures times,  *)
(* once more for each ban, and those that wait for the log.                *)
GuessesBounded == wrong < MaxFailures + bans + logging

=============================================================================
