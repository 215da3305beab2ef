------------------------- MODULE AdminAccess_proofs -------------------------
(***************************************************************************)
(* For all accounts, sessions and limits: an administrator remains, power  *)
(* comes from the initial administrator, no revocation is missed and the   *)
(* guesses of an address are counted.                                      *)
(***************************************************************************)
EXTENDS AdminAccess, TLAPS

\* TypeOK, of the accounts and sessions and of what is counted.
Access ==
    /\ status \in [User -> Statuses \cup {"absent"}]
    /\ group \in [User -> Groups \cup {None}]
    /\ gone \subseteq User
    /\ \A u \in User : status[u] = "absent" => group[u] = None
    /\ owner \in [Session -> User \cup {None}]
    /\ revoked \subseteq Session /\ \A s \in revoked : owner[s] # None
    /\ cut \subseteq Session
    /\ banned \in BOOLEAN /\ up \in BOOLEAN

Ledger ==
    /\ pw \in [User -> 0..MaxChanges] /\ boot \in 0..MaxChanges /\ made \in 0..MaxChanges
    /\ tokens \subseteq User \X (0..MaxChanges)
    /\ failures \in Nat /\ wrong \in Nat /\ bans \in Nat
    /\ logging \in 0..MaxLogging /\ banning \in 0..MaxBans

\* The initial administrator is the one that remains.
Rooted == Powerful(Initial)

\* Every guess is counted, or waits for the log.
Counted == wrong <= failures + logging /\ failures < MaxFailures + bans

\* The step of PowerIsGranted.
Granted ==
    \A u \in User : Powerful(u)' /\ ~Powerful(u)
        => \E s \in Session : Accepted(s) /\ owner[s] = Initial

IInv == Access /\ Ledger /\ NoSleeper /\ Rooted /\ Counted

-----------------------------------------------------------------------------
LEMMA InitIInv == Init => IInv
<1>. SUFFICES ASSUME Init PROVE IInv
  OBVIOUS
<1>1. Access
  <2>0. Initial \in User
    BY AccessAssumption
  <2>1. status \in [User -> Statuses \cup {"absent"}]
    BY DEF Init, Statuses
  <2>2. group \in [User -> Groups \cup {None}]
    BY DEF Init, Groups
  <2>. QED
    BY <2>0, <2>1, <2>2 DEF Init, Access
<1>2. Ledger
  BY AccessAssumption DEF Init, Ledger
<1>3. NoSleeper
  BY DEF Init, NoSleeper
<1>4. Rooted
  BY AccessAssumption DEF Init, Rooted, Powerful, Active
<1>5. Counted
  BY AccessAssumption DEF Init, Counted
<1>. QED
  BY <1>1, <1>2, <1>3, <1>4, <1>5 DEF IInv

LEMMA LoginKeeps ==
    ASSUME NEW u \in User, NEW s \in Session, IInv, Login(u, s)
    PROVE  IInv' /\ Granted
<1>1. Access'
  BY AccessAssumption DEF IInv, Access, Login, Statuses, Groups, Active, accounts, passwords
<1>2. Ledger'
  BY AccessAssumption DEF IInv, Ledger, Access, Login, Amnesty, accounts, passwords
<1>3. NoSleeper'
  BY AccessAssumption DEF IInv, NoSleeper, Access, Login, Active, accounts, passwords
<1>4. Rooted'
  BY AccessAssumption DEF IInv, Rooted, Access, Login, Powerful, Active, accounts, passwords
<1>5. Counted'
  BY AccessAssumption DEF IInv, Counted, Ledger, Login, Amnesty, accounts, passwords
<1>6. Granted
  BY AccessAssumption DEF IInv, Granted, Access, Rooted, Login, Powerful, Active, accounts,
     passwords
<1>. QED
  BY <1>1, <1>2, <1>3, <1>4, <1>5, <1>6 DEF IInv

LEMMA SessionEndsKeeps ==
    ASSUME NEW s \in Session, IInv, SessionEnds(s)
    PROVE  IInv' /\ Granted
<1>1. Access'
  BY AccessAssumption DEF IInv, Access, SessionEnds, Statuses, Groups, accounts, passwords, guesses
<1>2. Ledger'
  BY AccessAssumption DEF IInv, Ledger, Access, SessionEnds, accounts, passwords, guesses
<1>3. NoSleeper'
  BY AccessAssumption DEF IInv, NoSleeper, Access, SessionEnds, Active, accounts, passwords, guesses
<1>4. Rooted'
  BY AccessAssumption DEF IInv, Rooted, Access, SessionEnds, Powerful, Active, accounts, passwords,
     guesses
<1>5. Counted'
  BY AccessAssumption DEF IInv, Counted, Ledger, SessionEnds, accounts, passwords, guesses
<1>6. Granted
  BY AccessAssumption DEF IInv, Granted, Access, Rooted, SessionEnds, Powerful, Active, accounts,
     passwords, guesses
<1>. QED
  BY <1>1, <1>2, <1>3, <1>4, <1>5, <1>6 DEF IInv

LEMMA ChangePasswordKeeps ==
    ASSUME NEW s \in Session, IInv, ChangePassword(s)
    PROVE  IInv' /\ Granted
<1>1. Access'
  BY AccessAssumption DEF IInv, Access, ChangePassword, Statuses, Groups, Active, accounts,
     sessions, guesses
<1>2. Ledger'
  <2>1. made' \in 0..MaxChanges
    BY AccessAssumption DEF ChangePassword, New, IInv, Ledger
  <2>2. pw' \in [User -> 0..MaxChanges]
    BY <2>1 DEF ChangePassword, SetPassword, IInv, Ledger
  <2>. QED
    BY <2>1, <2>2 DEF ChangePassword, sessions, guesses, IInv, Ledger
<1>3. NoSleeper'
  BY AccessAssumption DEF IInv, NoSleeper, Access, ChangePassword, Active, accounts, sessions,
     guesses
<1>4. Rooted'
  BY AccessAssumption DEF IInv, Rooted, Access, ChangePassword, Powerful, Active, accounts,
     sessions, guesses
<1>5. Counted'
  BY AccessAssumption DEF IInv, Counted, Ledger, ChangePassword, accounts, sessions, guesses
<1>6. Granted
  BY AccessAssumption DEF IInv, Granted, Access, Rooted, ChangePassword, Powerful, Active, Accepted,
     accounts, sessions, guesses
<1>. QED
  BY <1>1, <1>2, <1>3, <1>4, <1>5, <1>6 DEF IInv

LEMMA AskForTokenKeeps ==
    ASSUME NEW s \in Session, IInv, AskForToken(s)
    PROVE  IInv' /\ Granted
<1>1. Access'
  BY AccessAssumption DEF IInv, Access, AskForToken, Statuses, Groups, Active, accounts, sessions,
     guesses
<1>2. Ledger'
  <2>1. made' \in 0..MaxChanges
    BY AccessAssumption DEF AskForToken, New, IInv, Ledger
  <2>2. owner[s] \in User
    BY DEF AskForToken, Accepted, IInv, Access
  <2>. QED
    BY <2>1, <2>2 DEF AskForToken, sessions, guesses, IInv, Ledger
<1>3. NoSleeper'
  BY AccessAssumption DEF IInv, NoSleeper, Access, AskForToken, Active, accounts, sessions, guesses
<1>4. Rooted'
  BY AccessAssumption DEF IInv, Rooted, Access, AskForToken, Powerful, Active, accounts, sessions,
     guesses
<1>5. Counted'
  BY AccessAssumption DEF IInv, Counted, Ledger, AskForToken, accounts, sessions, guesses
<1>6. Granted
  BY AccessAssumption DEF IInv, Granted, Access, Rooted, AskForToken, Powerful, Active, Accepted,
     accounts, sessions, guesses
<1>. QED
  BY <1>1, <1>2, <1>3, <1>4, <1>5, <1>6 DEF IInv

LEMMA ConfirmKeeps ==
    ASSUME NEW s \in Session, NEW t \in tokens, IInv, Confirm(s, t)
    PROVE  IInv' /\ Granted
<1>1. Access'
  BY AccessAssumption DEF IInv, Access, Confirm, Statuses, Groups, Active, Dies, accounts, sessions,
     guesses
<1>2. Ledger'
  BY AccessAssumption DEF IInv, Ledger, Access, Confirm, SetPassword, accounts, sessions, guesses
<1>3. NoSleeper'
  BY AccessAssumption DEF IInv, NoSleeper, Access, Confirm, Active, accounts, sessions, guesses
<1>4. Rooted'
  BY AccessAssumption DEF IInv, Rooted, Access, Confirm, Powerful, Active, accounts, sessions,
     guesses
<1>5. Counted'
  BY AccessAssumption DEF IInv, Counted, Ledger, Confirm, accounts, sessions, guesses
<1>6. Granted
  BY AccessAssumption DEF IInv, Granted, Access, Rooted, Confirm, Powerful, Active, Accepted,
     accounts, sessions, guesses
<1>. QED
  BY <1>1, <1>2, <1>3, <1>4, <1>5, <1>6 DEF IInv

LEMMA UpdateUserKeeps ==
    ASSUME NEW s \in Session, NEW u \in User, NEW st \in Statuses \cup {None}, NEW g \in Groups \cup {None}, IInv, UpdateUser(s, u, st, g)
    PROVE  IInv' /\ Granted
<1>1. Access'
  BY AccessAssumption DEF IInv, Access, UpdateUser, Statuses, Groups, Active, Of, ShutOut, IsAdmin,
     MayUpdate, Row, Grouped, Ends, passwords, sessions, guesses
<1>2. Ledger'
  BY AccessAssumption DEF IInv, Ledger, Access, UpdateUser, passwords, sessions, guesses
<1>3. NoSleeper'
  <2>. SUFFICES ASSUME NEW r \in Session, owner'[r] # None, r \notin revoked',
                       status'[owner'[r]] # "active" \/ owner'[r] \in gone'
                PROVE  r \in cut'
    BY DEF NoSleeper, Active
  <2>1. owner' = owner /\ owner[r] \in User
    BY DEF UpdateUser, ShutOut, sessions, IInv, Access
  <2>2. CASE owner[r] = u /\ Ends(st)
    BY <2>1, <2>2 DEF UpdateUser, ShutOut, Of, Ends, IInv, Access
  <2>3. CASE ~(owner[r] = u /\ Ends(st))
    <3>1. ~Active(owner[r])
      BY <2>1, <2>3, AccessAssumption DEF UpdateUser, Row, Active, Ends, Statuses, IInv, Access
    <3>2. r \in cut /\ r \notin revoked
      BY <2>1, <3>1 DEF UpdateUser, ShutOut, sessions, IInv, NoSleeper
    <3>. QED
      BY <2>1, <2>3, <3>2 DEF UpdateUser, ShutOut, Of, sessions
  <2>. QED
    BY <2>2, <2>3
<1>4. Rooted'
  <2>1. Initial \in User /\ Powerful(Initial)
    BY AccessAssumption DEF IInv, Rooted
  <2>2. CASE u # Initial
    BY <2>1, <2>2 DEF UpdateUser, Row, Grouped, Powerful, Active, Rooted, IInv, Access
  <2>3. CASE u = Initial
    <3>1. st \in {"active", None} /\ g \in {"admin", None}
      BY <2>3 DEF UpdateUser, MayUpdate, Protected, Statuses, Groups
    <3>2. status'[u] = "active" /\ gone' = gone
      BY <2>1, <2>3, <3>1, AccessAssumption DEF Statuses, UpdateUser, Row, Powerful, Active, IInv,
         Access
    <3>3. group'[u] = "admin"
      BY <2>1, <2>3, <3>1 DEF UpdateUser, Grouped, Powerful, IInv, Access
    <3>. QED
      BY <2>1, <2>3, <3>2, <3>3 DEF Powerful, Active, Rooted
  <2>. QED
    BY <2>2, <2>3
<1>5. Counted'
  BY AccessAssumption DEF IInv, Counted, Ledger, UpdateUser, passwords, sessions, guesses
<1>6. Granted
  BY AccessAssumption DEF IInv, Granted, Access, Rooted, UpdateUser, Powerful, Active, Accepted,
     IsAdmin, MayGrant, MayTarget, Protected, MayUpdate, Row, Grouped, passwords, sessions, guesses
<1>. QED
  BY <1>1, <1>2, <1>3, <1>4, <1>5, <1>6 DEF IInv

LEMMA HalfUpdateKeeps ==
    ASSUME NEW s \in Session, NEW u \in User, NEW st \in Statuses \cup {None}, NEW g \in Groups \cup {None}, IInv, HalfUpdate(s, u, st, g)
    PROVE  IInv' /\ Granted
<1>1. Access'
  <2>1. status' \in [User -> Statuses \cup {"absent"}] /\ gone' \subseteq User
    BY DEF IInv, Access, HalfUpdate, Row
  <2>2. group' \in [User -> Groups \cup {None}]
    BY DEF IInv, Access, HalfUpdate, Grouped
  <2>3. \A v \in User : status'[v] = "absent" => group'[v] = None
    <3>1. status[u] # "absent" /\ group[u] # None
      BY DEF IInv, Access, HalfUpdate, MayUpdate
    <3>2. status'[u] # "absent"
      BY <3>1 DEF HalfUpdate, Row, Statuses, IInv, Access
    <3>3. \A v \in User \ {u} : status'[v] = status[v] /\ group'[v] = group[v]
      BY DEF HalfUpdate, Row, Grouped, IInv, Access
    <3>. QED
      BY <3>2, <3>3 DEF IInv, Access
  <2>4. cut' \subseteq Session /\ up' \in BOOLEAN
    BY DEF IInv, Access, HalfUpdate, Of, Dies
  <2>. QED
    BY <2>1, <2>2, <2>3, <2>4 DEF IInv, Access, HalfUpdate, guesses
<1>2. Ledger'
  BY AccessAssumption DEF IInv, Ledger, Access, HalfUpdate, passwords, guesses
<1>3. NoSleeper'
  <2>. SUFFICES ASSUME NEW r \in Session, owner'[r] # None, r \notin revoked',
                       status'[owner'[r]] # "active" \/ owner'[r] \in gone'
                PROVE  r \in cut'
    BY DEF NoSleeper, Active
  <2>1. owner' = owner /\ owner[r] \in User
    BY DEF HalfUpdate, ShutOut, sessions, IInv, Access
  <2>2. CASE owner[r] = u /\ Ends(st)
    BY <2>1, <2>2 DEF HalfUpdate, ShutOut, Of, Ends, IInv, Access
  <2>3. CASE ~(owner[r] = u /\ Ends(st))
    <3>1. ~Active(owner[r])
      BY <2>1, <2>3, AccessAssumption DEF HalfUpdate, Row, Active, Ends, Statuses, IInv, Access
    <3>2. r \in cut /\ r \notin revoked
      BY <2>1, <3>1 DEF HalfUpdate, ShutOut, sessions, IInv, NoSleeper
    <3>. QED
      BY <2>1, <2>3, <3>2 DEF HalfUpdate, ShutOut, Of, sessions
  <2>. QED
    BY <2>2, <2>3
<1>4. Rooted'
  <2>1. Initial \in User /\ Powerful(Initial)
    BY AccessAssumption DEF IInv, Rooted
  <2>2. CASE u # Initial
    BY <2>1, <2>2 DEF HalfUpdate, Row, Grouped, Powerful, Active, Rooted, IInv, Access
  <2>3. CASE u = Initial
    <3>1. st \in {"active", None} /\ g \in {"admin", None}
      BY <2>3 DEF HalfUpdate, MayUpdate, Protected, Statuses, Groups
    <3>2. status'[u] = "active" /\ gone' = gone
      BY <2>1, <2>3, <3>1, AccessAssumption DEF Statuses, HalfUpdate, Row, Powerful, Active, IInv,
         Access
    <3>3. group'[u] = "admin"
      BY <2>1, <2>3, <3>1 DEF HalfUpdate, Grouped, Powerful, IInv, Access
    <3>. QED
      BY <2>1, <2>3, <3>2, <3>3 DEF Powerful, Active, Rooted
  <2>. QED
    BY <2>2, <2>3
<1>5. Counted'
  BY AccessAssumption DEF IInv, Counted, Ledger, HalfUpdate, passwords, guesses
<1>6. Granted
  BY AccessAssumption DEF IInv, Granted, Access, Rooted, HalfUpdate, Powerful, Active, Accepted,
     IsAdmin, MayGrant, MayTarget, Protected, MayUpdate, Row, Grouped, passwords, guesses
<1>. QED
  BY <1>1, <1>2, <1>3, <1>4, <1>5, <1>6 DEF IInv

LEMMA CreateUserKeeps ==
    ASSUME NEW s \in Session, NEW u \in User, NEW h \in Groups, IInv, CreateUser(s, u, h)
    PROVE  IInv' /\ Granted
<1>1. Access'
  BY AccessAssumption DEF IInv, Access, CreateUser, Statuses, Groups, Active, IsAdmin, Dies,
     passwords, sessions, guesses
<1>2. Ledger'
  BY AccessAssumption DEF IInv, Ledger, Access, CreateUser, passwords, sessions, guesses
<1>3. NoSleeper'
  BY AccessAssumption DEF IInv, NoSleeper, Access, CreateUser, Active, passwords, sessions, guesses
<1>4. Rooted'
  BY AccessAssumption DEF IInv, Rooted, Access, CreateUser, Powerful, Active, passwords, sessions,
     guesses
<1>5. Counted'
  BY AccessAssumption DEF IInv, Counted, Ledger, CreateUser, passwords, sessions, guesses
<1>6. Granted
  BY AccessAssumption DEF IInv, Granted, Access, Rooted, CreateUser, Powerful, Active, Accepted,
     IsAdmin, MayGrant, passwords, sessions, guesses
<1>. QED
  BY <1>1, <1>2, <1>3, <1>4, <1>5, <1>6 DEF IInv

LEMMA RevokeSessionsKeeps ==
    ASSUME NEW s \in Session, NEW u \in User, IInv, RevokeSessions(s, u)
    PROVE  IInv' /\ Granted
<1>1. Access'
  BY AccessAssumption DEF IInv, Access, RevokeSessions, Statuses, Groups, Active, Of, ShutOut,
     IsAdmin, accounts, passwords, guesses
<1>2. Ledger'
  BY AccessAssumption DEF IInv, Ledger, Access, RevokeSessions, accounts, passwords, guesses
<1>3. NoSleeper'
  BY AccessAssumption DEF IInv, NoSleeper, Access, RevokeSessions, Active, Of, ShutOut, accounts,
     passwords, guesses
<1>4. Rooted'
  BY AccessAssumption DEF IInv, Rooted, Access, RevokeSessions, Powerful, Active, accounts,
     passwords, guesses
<1>5. Counted'
  BY AccessAssumption DEF IInv, Counted, Ledger, RevokeSessions, accounts, passwords, guesses
<1>6. Granted
  BY AccessAssumption DEF IInv, Granted, Access, Rooted, RevokeSessions, Powerful, Active, Accepted,
     IsAdmin, MayTarget, accounts, passwords, guesses
<1>. QED
  BY <1>1, <1>2, <1>3, <1>4, <1>5, <1>6 DEF IInv

LEMMA ResetPasswordKeeps ==
    ASSUME NEW s \in Session, NEW u \in User, IInv, ResetPassword(s, u)
    PROVE  IInv' /\ Granted
<1>1. Access'
  BY AccessAssumption DEF IInv, Access, ResetPassword, Statuses, Groups, Active, Of, ShutOut,
     IsAdmin, Dies, accounts, sessions, guesses
<1>2. Ledger'
  BY AccessAssumption DEF IInv, Ledger, Access, ResetPassword, New, SetPassword, accounts, sessions,
     guesses
<1>3. NoSleeper'
  BY AccessAssumption DEF IInv, NoSleeper, Access, ResetPassword, Active, Of, ShutOut, accounts,
     sessions, guesses
<1>4. Rooted'
  BY AccessAssumption DEF IInv, Rooted, Access, ResetPassword, Powerful, Active, accounts, sessions,
     guesses
<1>5. Counted'
  BY AccessAssumption DEF IInv, Counted, Ledger, ResetPassword, accounts, sessions, guesses
<1>6. Granted
  BY AccessAssumption DEF IInv, Granted, Access, Rooted, ResetPassword, Powerful, Active, Accepted,
     IsAdmin, MayTarget, accounts, sessions, guesses
<1>. QED
  BY <1>1, <1>2, <1>3, <1>4, <1>5, <1>6 DEF IInv

LEMMA GuessKeeps ==
    ASSUME IInv, Guess
    PROVE  IInv' /\ Granted
<1>1. Access'
  BY AccessAssumption DEF IInv, Access, Guess, Statuses, Groups, accounts, passwords, sessions
<1>2. Ledger'
  BY AccessAssumption DEF IInv, Ledger, Access, Guess, accounts, passwords, sessions
<1>3. NoSleeper'
  BY AccessAssumption DEF IInv, NoSleeper, Access, Guess, Active, accounts, passwords, sessions
<1>4. Rooted'
  BY AccessAssumption DEF IInv, Rooted, Access, Guess, Powerful, Active, accounts, passwords,
     sessions
<1>5. Counted'
  BY AccessAssumption DEF IInv, Counted, Ledger, Guess, accounts, passwords, sessions
<1>6. Granted
  BY AccessAssumption DEF IInv, Granted, Access, Rooted, Guess, Powerful, Active, accounts,
     passwords, sessions
<1>. QED
  BY <1>1, <1>2, <1>3, <1>4, <1>5, <1>6 DEF IInv

LEMMA CountFailureKeeps ==
    ASSUME IInv, CountFailure
    PROVE  IInv' /\ Granted
<1>1. Access'
  BY AccessAssumption DEF IInv, Access, CountFailure, Statuses, Groups, accounts, passwords,
     sessions
<1>2. Ledger'
  BY AccessAssumption DEF IInv, Ledger, Access, CountFailure, TooMany, accounts, passwords, sessions
<1>3. NoSleeper'
  BY AccessAssumption DEF IInv, NoSleeper, Access, CountFailure, Active, accounts, passwords,
     sessions
<1>4. Rooted'
  BY AccessAssumption DEF IInv, Rooted, Access, CountFailure, Powerful, Active, accounts, passwords,
     sessions
<1>5. Counted'
  BY AccessAssumption DEF IInv, Counted, Ledger, CountFailure, TooMany, accounts, passwords,
     sessions
<1>6. Granted
  BY AccessAssumption DEF IInv, Granted, Access, Rooted, CountFailure, Powerful, Active, accounts,
     passwords, sessions
<1>. QED
  BY <1>1, <1>2, <1>3, <1>4, <1>5, <1>6 DEF IInv

LEMMA BannedKeeps ==
    ASSUME IInv, Banned
    PROVE  IInv' /\ Granted
<1>1. Access'
  BY AccessAssumption DEF IInv, Access, Banned, Statuses, Groups, accounts, passwords, sessions
<1>2. Ledger'
  BY AccessAssumption DEF IInv, Ledger, Access, Banned, Amnesty, accounts, passwords, sessions
<1>3. NoSleeper'
  BY AccessAssumption DEF IInv, NoSleeper, Access, Banned, Active, accounts, passwords, sessions
<1>4. Rooted'
  BY AccessAssumption DEF IInv, Rooted, Access, Banned, Powerful, Active, accounts, passwords,
     sessions
<1>5. Counted'
  BY AccessAssumption DEF IInv, Counted, Ledger, Banned, Amnesty, accounts, passwords, sessions
<1>6. Granted
  BY AccessAssumption DEF IInv, Granted, Access, Rooted, Banned, Powerful, Active, accounts,
     passwords, sessions
<1>. QED
  BY <1>1, <1>2, <1>3, <1>4, <1>5, <1>6 DEF IInv

LEMMA BanEndsKeeps ==
    ASSUME IInv, BanEnds
    PROVE  IInv' /\ Granted
<1>1. Access'
  BY AccessAssumption DEF IInv, Access, BanEnds, Statuses, Groups, accounts, passwords, sessions
<1>2. Ledger'
  BY AccessAssumption DEF IInv, Ledger, Access, BanEnds, accounts, passwords, sessions
<1>3. NoSleeper'
  BY AccessAssumption DEF IInv, NoSleeper, Access, BanEnds, Active, accounts, passwords, sessions
<1>4. Rooted'
  BY AccessAssumption DEF IInv, Rooted, Access, BanEnds, Powerful, Active, accounts, passwords,
     sessions
<1>5. Counted'
  BY AccessAssumption DEF IInv, Counted, Ledger, BanEnds, accounts, passwords, sessions
<1>6. Granted
  BY AccessAssumption DEF IInv, Granted, Access, Rooted, BanEnds, Powerful, Active, accounts,
     passwords, sessions
<1>. QED
  BY <1>1, <1>2, <1>3, <1>4, <1>5, <1>6 DEF IInv

LEMMA TokenEndsKeeps ==
    ASSUME NEW t \in tokens, IInv, TokenEnds(t)
    PROVE  IInv' /\ Granted
<1>1. Access'
  BY AccessAssumption DEF IInv, Access, TokenEnds, Statuses, Groups, accounts, sessions, guesses
<1>2. Ledger'
  BY AccessAssumption DEF IInv, Ledger, Access, TokenEnds, accounts, sessions, guesses
<1>3. NoSleeper'
  BY AccessAssumption DEF IInv, NoSleeper, Access, TokenEnds, Active, accounts, sessions, guesses
<1>4. Rooted'
  BY AccessAssumption DEF IInv, Rooted, Access, TokenEnds, Powerful, Active, accounts, sessions,
     guesses
<1>5. Counted'
  BY AccessAssumption DEF IInv, Counted, Ledger, TokenEnds, accounts, sessions, guesses
<1>6. Granted
  BY AccessAssumption DEF IInv, Granted, Access, Rooted, TokenEnds, Powerful, Active, accounts,
     sessions, guesses
<1>. QED
  BY <1>1, <1>2, <1>3, <1>4, <1>5, <1>6 DEF IInv

LEMMA RepassKeeps ==
    ASSUME IInv, Repass
    PROVE  IInv' /\ Granted
<1>1. Access'
  BY AccessAssumption DEF IInv, Access, Repass, Statuses, Groups, accounts, guesses
<1>2. Ledger'
  BY AccessAssumption DEF IInv, Ledger, Access, Repass, New, accounts, guesses
<1>3. NoSleeper'
  BY AccessAssumption DEF IInv, NoSleeper, Access, Repass, Active, accounts, guesses
<1>4. Rooted'
  BY AccessAssumption DEF IInv, Rooted, Access, Repass, Powerful, Active, accounts, guesses
<1>5. Counted'
  BY AccessAssumption DEF IInv, Counted, Ledger, Repass, accounts, guesses
<1>6. Granted
  BY AccessAssumption DEF IInv, Granted, Access, Rooted, Repass, Powerful, Active, accounts, guesses
<1>. QED
  BY <1>1, <1>2, <1>3, <1>4, <1>5, <1>6 DEF IInv

LEMMA CrashKeeps ==
    ASSUME IInv, Crash
    PROVE  IInv' /\ Granted
<1>1. Access'
  BY AccessAssumption DEF IInv, Access, Crash, Statuses, Groups, Dies, accounts, passwords,
     sessions, guesses
<1>2. Ledger'
  BY AccessAssumption DEF IInv, Ledger, Access, Crash, accounts, passwords, sessions, guesses
<1>3. NoSleeper'
  BY AccessAssumption DEF IInv, NoSleeper, Access, Crash, Active, accounts, passwords, sessions,
     guesses
<1>4. Rooted'
  BY AccessAssumption DEF IInv, Rooted, Access, Crash, Powerful, Active, accounts, passwords,
     sessions, guesses
<1>5. Counted'
  BY AccessAssumption DEF IInv, Counted, Ledger, Crash, accounts, passwords, sessions, guesses
<1>6. Granted
  BY AccessAssumption DEF IInv, Granted, Access, Rooted, Crash, Powerful, Active, accounts,
     passwords, sessions, guesses
<1>. QED
  BY <1>1, <1>2, <1>3, <1>4, <1>5, <1>6 DEF IInv

LEMMA RestartKeeps ==
    ASSUME IInv, Restart
    PROVE  IInv' /\ Granted
<1>1. Access'
  BY AccessAssumption DEF IInv, Access, Restart, Statuses, Groups, sessions
<1>2. Ledger'
  BY AccessAssumption DEF IInv, Ledger, Access, Restart, SetPassword, sessions
<1>3. NoSleeper'
  BY AccessAssumption DEF IInv, NoSleeper, Access, Restart, Active, sessions
<1>4. Rooted'
  BY AccessAssumption DEF IInv, Rooted, Access, Restart, Powerful, Active, sessions
<1>5. Counted'
  BY AccessAssumption DEF IInv, Counted, Ledger, Restart, sessions
<1>6. Granted
  BY AccessAssumption DEF IInv, Granted, Access, Rooted, Restart, Powerful, Active, sessions
<1>. QED
  BY <1>1, <1>2, <1>3, <1>4, <1>5, <1>6 DEF IInv

-----------------------------------------------------------------------------
LEMMA NextKeeps == ASSUME IInv, Next PROVE IInv' /\ Granted
<1>1. ASSUME NEW s \in Session, ByUser(s) PROVE IInv' /\ Granted
  <2>1. CASE \E u \in User : Login(u, s) \/ RevokeSessions(s, u) \/ ResetPassword(s, u)
    BY <2>1, LoginKeeps, RevokeSessionsKeeps, ResetPasswordKeeps
  <2>2. CASE \E u \in User, st \in Statuses \cup {None}, g \in Groups \cup {None} :
                 UpdateUser(s, u, st, g) \/ HalfUpdate(s, u, st, g)
    BY <2>2, UpdateUserKeeps, HalfUpdateKeeps
  <2>3. CASE \E u \in User, g \in Groups : CreateUser(s, u, g)
    BY <2>3, CreateUserKeeps
  <2>4. CASE SessionEnds(s) \/ ChangePassword(s) \/ AskForToken(s) \/ \E t \in tokens : Confirm(s, t)
    BY <2>4, SessionEndsKeeps, ChangePasswordKeeps, AskForTokenKeeps, ConfirmKeeps
  <2>. QED
    BY <1>1, <2>1, <2>2, <2>3, <2>4 DEF ByUser
<1>2. CASE ByClock
  BY <1>2, GuessKeeps, CountFailureKeeps, BannedKeeps, BanEndsKeeps, TokenEndsKeeps, RepassKeeps,
     CrashKeeps, RestartKeeps DEF ByClock
<1>. QED
  BY <1>1, <1>2 DEF Next

LEMMA StutterKeeps == ASSUME IInv, UNCHANGED vars PROVE IInv' /\ Granted
BY DEF IInv, Access, Ledger, NoSleeper, Rooted, Counted, Granted, Powerful, Active, vars, accounts,
   passwords, sessions, guesses

(* The types, the revocations, the remaining administrator and the count   *)
(* of guesses are kept by every request, failure, crash and restart.       *)
THEOREM Invariance == Spec => []IInv
<1>. QED
  BY InitIInv, NextKeeps, StutterKeeps, PTL DEF Spec

(* Accounts, sessions and failures keep their types.                       *)
THEOREM TypeCorrect == Spec => []TypeOK
<1>1. IInv => TypeOK
  BY DEF IInv, Access, Ledger, TypeOK
<1>. QED
  BY Invariance, <1>1, PTL

(* No session waits under an account that is not active for the account to *)
(* be enabled, but where disabling it was cut off.                         *)
THEOREM NoneSleeps == Spec => []NoSleeper
<1>1. IInv => NoSleeper
  BY DEF IInv
<1>. QED
  BY Invariance, <1>1, PTL

(* Whatever administrators do to each other and to themselves, one remains. *)
THEOREM OneAdministers == Spec => []AdminRemains
<1>1. IInv => AdminRemains
  BY AccessAssumption DEF IInv, Rooted, AdminRemains
<1>. QED
  BY Invariance, <1>1, PTL

(* Only while the initial administrator is logged in does an account gain  *)
(* or regain an administrator's power.                                     *)
THEOREM PowerComesFromTheFirst == Spec => PowerIsGranted
<1>1. IInv /\ [Next]_vars => [\A u \in User : Powerful(u)' /\ ~Powerful(u)
          => \E s \in Session : Accepted(s) /\ owner[s] = Initial]_vars
  BY NextKeeps DEF Granted
<1>. QED
  BY Invariance, <1>1, PTL DEF Spec, PowerIsGranted

(* An address guesses a bounded number of times between two amnesties.     *)
THEOREM GuessesAreFew == Spec => []GuessesBounded
<1>1. IInv => GuessesBounded
  BY AccessAssumption DEF IInv, Ledger, Counted, GuessesBounded
<1>. QED
  BY Invariance, <1>1, PTL
=============================================================================
