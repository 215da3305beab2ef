------------------------------ MODULE WriteGate ------------------------------
(***************************************************************************)
(* What stands before a visitor's comment, vote or like on one page: the   *)
(* blacklist and the allowlist, the captcha, and behind them the guard     *)
(* that blacklists an address for writing too much.                        *)
(*                                                                         *)
(* The visitors share one address.  A challenge is a row of                *)
(* captcha_sessions; the current one is the latest not expired.  Windows   *)
(* are counted in the process's memory.  A write under way waits for       *)
(* Akismet or the log; a right answer given with it and a wrong answer     *)
(* wait for the log; a widget's token is checked by its provider; all else *)
(* of a request is one action.  While visitors are turned off for a        *)
(* request it has no name: no challenge is asked of it.  Time passes at    *)
(* any moment.  Rules made by hand and the other rate limits only refuse   *)
(* what may also not be asked for, and are left out.                       *)
(***************************************************************************)
EXTENDS Integers, FiniteSets

CONSTANTS Visitor, Challenge, None,
          Max,        \* captchaThresholdMaxActions
          MaxWrong,   \* rateLimit.captchaVerify
          AbuseMax,   \* abuseGuardMaxWriteActions
          MaxFlight,  \* bound: writes under way
          MaxPending, \* bound: a visitor's answers under way
          MaxExcused, \* bound: writes forgiven in a window
          MaxCrashes  \* bound

ASSUME GateAssumption ==
    /\ IsFiniteSet(Visitor) /\ IsFiniteSet(Challenge)
    /\ None \notin Challenge /\ None \notin Visitor
    /\ Max \in Nat \ {0} /\ MaxWrong \in Nat \ {0} /\ AbuseMax \in Nat
    /\ MaxFlight \in Nat /\ MaxPending \in Nat /\ MaxExcused \in Nat /\ MaxCrashes \in Nat

Modes == {"never", "always", "threshold"}
Kinds == {"inline", "widget"}

VARIABLES
    mode,             \* captchaMode of the site
    session, holder,  \* a visitor's current challenge, a challenge's visitor
    kind, solved,     \* of each challenge; those marked verified
    asking,           \* challenges whose token a provider is checking
    used, wrong,      \* writes and wrong answers in the current windows
    failing,          \* wrong answers that wait for the log to be counted
    acts, rule,       \* the address's writes in its window; a live rule of the guard
    allow,            \* an allowlist rule
    flight,           \* writes through the gate and not recorded yet
    waiting,          \* writes that wait for the log of their right answer
    crashes,          \* bound
    guessed,          \* history: wrong answers given in this window
    earned, entered,  \* history: challenges answered rightly; that let a write in
    landed, excused   \* history: writes made in this window; those forgiven

captcha == <<session, holder, kind, solved, asking, earned>>
windows == <<used, wrong, failing, guessed>>
way     == <<flight, waiting>>
guard   == <<acts, rule, allow, landed, excused>>
vars == <<mode, captcha, windows, guard, way, entered, crashes>>

Init ==
    /\ mode = "threshold"
    /\ session = [v \in Visitor |-> None]
    /\ holder = [c \in Challenge |-> None]
    /\ kind = [c \in Challenge |-> "inline"]
    /\ solved = {} /\ asking = {} /\ earned = {} /\ entered = {}
    /\ used = [v \in Visitor |-> 0] /\ wrong = [v \in Visitor |-> 0]
    /\ failing = [v \in Visitor |-> 0] /\ guessed = [v \in Visitor |-> 0]
    /\ acts = 0 /\ landed = 0 /\ excused = 0
    /\ rule = FALSE /\ allow = FALSE
    /\ flight = 0 /\ waiting = 0 /\ crashes = 0

-----------------------------------------------------------------------------
(* The captcha's state.                                                    *)

\* A new challenge takes the place of the visitor's last.
New(v, c, k) ==
    /\ holder[c] = None
    /\ holder' = [holder EXCEPT ![c] = v]
    /\ kind' = [kind EXCEPT ![c] = k]
    /\ session' = [session EXCEPT ![v] = c]
    /\ UNCHANGED <<solved, asking, earned>>

Required(v) == mode = "always" \/ (mode = "threshold" /\ session[v] # None)

\* The page asks what is required; a challenge that stands is shown again.
Show(v, c, k) ==
    /\ Required(v) /\ session[v] = None
    /\ New(v, c, k)
    /\ UNCHANGED <<mode, windows, guard, way, entered, crashes>>

Refresh(v, c, k) ==
    /\ Required(v) /\ session[v] \notin solved
    /\ New(v, c, k)
    /\ UNCHANGED <<mode, windows, guard, way, entered, crashes>>

Open(v, k) == session[v] # None /\ session[v] \notin solved /\ kind[session[v]] = k

\* A slip: it asks one wrong answer too late.
MayTryLate(v) == wrong[v] <= MaxWrong

MayTry(v) == wrong[v] < MaxWrong

Asked(v) == {c \in asking : holder[c] = v}

Verified(c) ==
    /\ solved' = solved \cup {c}
    /\ UNCHANGED <<session, holder, kind>>

Answer(v) ==
    /\ mode # "never" /\ Open(v, "inline") /\ MayTry(v)
    /\ Verified(session[v])
    /\ earned' = earned \cup {session[v]}
    /\ UNCHANGED <<mode, asking, windows, guard, way, entered, crashes>>

Room(v) == failing[v] + Cardinality(Asked(v)) < MaxPending

\* It is refused, and counted when the log is written.
Fail(v) ==
    /\ failing' = [failing EXCEPT ![v] = @ + 1]
    /\ guessed' = [guessed EXCEPT ![v] = @ + 1]

\* Alone or given with a write, which is then refused.
Miss(v) ==
    /\ mode # "never" /\ Open(v, "inline") /\ MayTry(v) /\ Room(v)
    /\ Fail(v)
    /\ UNCHANGED <<mode, captcha, used, wrong, guard, way, entered, crashes>>

CountWrong(v) ==
    /\ failing[v] > 0
    /\ failing' = [failing EXCEPT ![v] = @ - 1]
    /\ wrong' = [wrong EXCEPT ![v] = IF @ < MaxWrong THEN @ + 1 ELSE @]
    /\ UNCHANGED <<mode, captcha, used, guessed, guard, way, entered, crashes>>

AskProvider(v) ==
    /\ Open(v, "widget") /\ MayTry(v) /\ Room(v)
    /\ asking' = asking \cup {session[v]}
    /\ UNCHANGED <<mode, session, holder, kind, solved, earned, windows, guard, way,
                   entered, crashes>>

\* A slip: it marks whatever is current by now.
MarkCurrent(c) == Verified(session[holder[c]])

\* The answer marks the row it was asked for, current or not.
Mark(c) == Verified(c)

Accepted(c) ==
    /\ c \in asking
    /\ asking' = asking \ {c}
    /\ earned' = earned \cup {c}
    /\ Mark(c)
    /\ UNCHANGED <<mode, windows, guard, way, entered, crashes>>

\* A refusal counts as a wrong answer, a failed request does not.
NotAccepted(c) ==
    /\ c \in asking
    /\ asking' = asking \ {c}
    /\ Fail(holder[c]) \/ UNCHANGED <<failing, guessed>>
    /\ UNCHANGED <<mode, session, holder, kind, solved, earned, used, wrong, guard, way,
                   entered, crashes>>

-----------------------------------------------------------------------------
(* A write at the gate.                                                    *)

\* A slip: an exemption is looked for, a rule is not.
BlockedNever == FALSE

Blocked == rule /\ ~allow

Counts(v) == mode = "threshold" /\ session[v] = None

TooMany(v) == used[v] + 1 >= Max

Satisfied(v) == mode = "never" \/ Counts(v) \/ session[v] \in solved

UnderWay == flight + waiting

Passes(v) == entered' = entered \cup {c \in Challenge : mode # "never" /\ c = session[v]}

Enter(v) ==
    /\ UnderWay < MaxFlight
    /\ flight' = flight + 1
    /\ Passes(v)
    /\ UNCHANGED waiting

\* One write too many in the window: a challenge, and the write is refused.
Demand(v, c, k) ==
    /\ ~Blocked /\ Counts(v) /\ TooMany(v)
    /\ New(v, c, k)
    /\ UNCHANGED <<mode, windows, guard, way, entered, crashes>>

Uncounted(v) ==
    /\ ~Blocked /\ ~Counts(v) /\ Satisfied(v)
    /\ Enter(v)
    /\ UNCHANGED <<mode, captcha, windows, guard, crashes>>

Counted(v) ==
    /\ ~Blocked /\ Counts(v) /\ ~TooMany(v)
    /\ used' = [used EXCEPT ![v] = @ + 1]
    /\ Enter(v)
    /\ UNCHANGED <<mode, captcha, wrong, failing, guessed, guard, crashes>>

\* Counted, then refused for a dead challenge or a parent that is gone.
Wasted(v) ==
    /\ ~Blocked /\ Counts(v) /\ ~TooMany(v)
    /\ used' = [used EXCEPT ![v] = @ + 1]
    /\ UNCHANGED <<mode, captcha, wrong, failing, guessed, guard, way, entered, crashes>>

\* The right answer comes with the write, which waits for the log.
WithAnswer(v) ==
    /\ ~Blocked /\ mode # "never" /\ Open(v, "inline") /\ MayTry(v)
    /\ UnderWay < MaxFlight
    /\ waiting' = waiting + 1
    /\ Verified(session[v])
    /\ earned' = earned \cup {session[v]}
    /\ UNCHANGED <<mode, asking, windows, guard, flight, entered, crashes>>

\* Only the challenge is looked at again.  Whose write it is is not kept: it
\* may be that of any visitor at the address.
GoOn(v) ==
    /\ waiting > 0
    /\ waiting' = waiting - 1
    /\ \/ Satisfied(v) /\ Passes(v) /\ flight' = flight + 1
       \/ ~Satisfied(v) /\ UNCHANGED <<flight, entered>>
    /\ UNCHANGED <<mode, captcha, windows, guard, crashes>>

\* A like is not counted, and without a challenge it is free.
Like(v) ==
    /\ ~Blocked /\ Counts(v)
    /\ Enter(v)
    /\ UNCHANGED <<mode, captcha, windows, guard, crashes>>

\* A comment or like without a name.
UnnamedWrite ==
    /\ ~Blocked
    /\ UnderWay < MaxFlight
    /\ flight' = flight + 1
    /\ UNCHANGED <<mode, captcha, windows, guard, waiting, entered, crashes>>

\* A vote without a name is made at once and not recorded.
UnnamedVote ==
    /\ ~Blocked /\ ~allow
    /\ excused < MaxExcused
    /\ landed' = landed + 1 /\ excused' = excused + 1
    /\ UNCHANGED <<mode, captcha, windows, acts, rule, allow, way, entered, crashes>>

-----------------------------------------------------------------------------
(* The write is stored and the guard records it.                           *)

\* own is one for a visitor's write, others are still under way.
Record(own, others) ==
    IF allow THEN UNCHANGED <<acts, rule, landed, excused>>
    ELSE /\ landed' = landed + own
         /\ IF acts < AbuseMax
            THEN acts' = acts + 1 /\ UNCHANGED <<rule, excused>>
            ELSE /\ UNCHANGED acts
                 /\ rule' = TRUE
                 /\ excused' = IF rule THEN excused ELSE excused + own + others
                 /\ excused' <= MaxExcused

Land ==
    /\ flight > 0
    /\ flight' = flight - 1
    /\ Record(1, flight' + waiting)
    /\ UNCHANGED <<mode, captcha, windows, allow, waiting, entered, crashes>>

\* Refused meanwhile, for instance as a second vote.
Drop ==
    /\ flight > 0
    /\ flight' = flight - 1
    /\ UNCHANGED <<mode, captcha, windows, guard, waiting, entered, crashes>>

\* A verified author passes no gate and is recorded.
AuthorWrites ==
    /\ Record(0, UnderWay)
    /\ UNCHANGED <<mode, captcha, windows, allow, way, entered, crashes>>

-----------------------------------------------------------------------------
(* The administrator and the clock.                                        *)

SetMode(m) ==
    /\ mode' = m
    /\ UNCHANGED <<captcha, windows, guard, way, entered, crashes>>

SetAllow(b) ==
    /\ allow' = b
    /\ excused' = IF b THEN excused ELSE excused + UnderWay
    /\ excused' <= MaxExcused
    /\ UNCHANGED <<mode, captcha, windows, acts, rule, landed, way, entered, crashes>>

\* Its time is over, or it is deleted by hand.
RuleEnds ==
    /\ rule /\ rule' = FALSE
    /\ UNCHANGED <<mode, captcha, windows, acts, allow, landed, excused, way,
                   entered, crashes>>

SessionEnds(v) ==
    /\ session[v] # None
    /\ session' = [session EXCEPT ![v] = None]
    /\ UNCHANGED <<mode, holder, kind, solved, asking, earned, windows, guard, way,
                   entered, crashes>>

WindowEnds(v) ==
    /\ used' = [used EXCEPT ![v] = 0]
    /\ UNCHANGED <<mode, captcha, wrong, failing, guessed, guard, way, entered, crashes>>

WrongWindowEnds(v) ==
    /\ wrong' = [wrong EXCEPT ![v] = 0]
    /\ guessed' = [guessed EXCEPT ![v] = 0]
    /\ UNCHANGED <<mode, captcha, used, failing, guard, way, entered, crashes>>

AbuseWindowEnds ==
    /\ acts' = 0 /\ landed' = 0
    /\ excused' = IF rule THEN UnderWay ELSE 0
    /\ UNCHANGED <<mode, captcha, windows, rule, allow, way, entered, crashes>>

Crash ==
    /\ crashes < MaxCrashes
    /\ crashes' = crashes + 1
    /\ asking' = {} /\ flight' = 0 /\ waiting' = 0
    /\ used' = [v \in Visitor |-> 0] /\ wrong' = [v \in Visitor |-> 0]
    /\ failing' = [v \in Visitor |-> 0] /\ guessed' = [v \in Visitor |-> 0]
    /\ acts' = 0 /\ landed' = 0 /\ excused' = 0
    /\ UNCHANGED <<mode, session, holder, kind, solved, earned, rule, allow, entered>>

-----------------------------------------------------------------------------

ByVisitor(v) ==
    \/ \E c \in Challenge, k \in Kinds : Show(v, c, k) \/ Refresh(v, c, k) \/ Demand(v, c, k)
    \/ Answer(v) \/ Miss(v) \/ AskProvider(v)
    \/ UnnamedWrite \/ UnnamedVote
    \/ Uncounted(v) \/ Counted(v) \/ Wasted(v) \/ WithAnswer(v) \/ Like(v)
ByProvider == \E c \in Challenge : Accepted(c) \/ NotAccepted(c)
ByServer == Land \/ Drop \/ AuthorWrites
ByLog == \E v \in Visitor : CountWrong(v) \/ GoOn(v)
ByAdmin == (\E m \in Modes : SetMode(m)) \/ (\E b \in BOOLEAN : SetAllow(b))
ByClock ==
    \/ \E v \in Visitor : SessionEnds(v) \/ WindowEnds(v) \/ WrongWindowEnds(v)
    \/ AbuseWindowEnds \/ RuleEnds

Next ==
    \/ \E v \in Visitor : ByVisitor(v)
    \/ ByProvider \/ ByServer \/ ByLog \/ ByAdmin \/ ByClock \/ Crash
Spec == Init /\ [][Next]_vars

-----------------------------------------------------------------------------

(* The type invariant of the challenges, windows and rules                 *)
(* (comments/captcha-service.ts, shared/rate-limit.ts, plugins/security.ts). *)
TypeOK ==
    /\ mode \in Modes
    /\ session \in [Visitor -> Challenge \cup {None}]
    /\ holder \in [Challenge -> Visitor \cup {None}]
    /\ kind \in [Challenge -> Kinds]
    /\ solved \subseteq Challenge /\ asking \subseteq Challenge
    /\ earned \subseteq Challenge /\ entered \subseteq Challenge
    /\ \A c \in asking : holder[c] # None
    /\ used \in [Visitor -> Nat] /\ wrong \in [Visitor -> 0..MaxWrong]
    /\ failing \in [Visitor -> Nat] /\ guessed \in [Visitor -> Nat]
    /\ acts \in 0..AbuseMax
    /\ rule \in BOOLEAN /\ allow \in BOOLEAN
    /\ flight \in Nat /\ waiting \in Nat /\ UnderWay <= MaxFlight
    /\ landed \in Nat /\ excused \in Nat
    /\ crashes \in 0..MaxCrashes

(* A challenge that lets a write in was itself answered rightly: not one   *)
(* that took its place while the provider checked a token, nor one before. *)
EnteredByAnswer == entered \subseteq earned

(* The limit of wrong answers is read before the provider or the log is    *)
(* waited for and counted after it: beyond the limit a visitor gets no     *)
(* more wrong answers in a window than were under way at once, less the    *)
(* one that reached it.                                                    *)
GuessesStop == \A v \in Visitor : guessed[v] < MaxWrong + MaxPending

(* Of the writes the guard is told of an address makes AbuseMax in a       *)
(* window, then at most one for each time it is blacklisted, and those     *)
(* under way when that happened or when an exemption ended.  Votes without *)
(* a name come on top: no guard is told of them.                           *)
AbuseIsStopped == landed <= AbuseMax + excused
=============================================================================
