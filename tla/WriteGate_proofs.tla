-------------------------- MODULE WriteGate_proofs --------------------------
(***************************************************************************)
(* For all visitors, challenges and limits: a write is let in by an answer *)
(* to the very challenge, wrong answers stop at the limit but for those    *)
(* under way, and so does an address that writes too much.                 *)
(***************************************************************************)
EXTENDS WriteGate, FiniteSetTheorems, TLAPS

\* A visitor's current challenge was made for that visitor.
Held == \A v \in Visitor : session[v] # None => holder[session[v]] = v

\* Whatever lets writes in was answered for.
SolvedByAnswer == solved \subseteq earned

\* Below the limit every wrong answer of the window is counted or waits for the
\* log; at the limit only those under way are still to come.
Tried(v) ==
    /\ failing[v] + Cardinality(Asked(v)) <= MaxPending
    /\ IF wrong[v] < MaxWrong
       THEN guessed[v] <= wrong[v] + failing[v]
       ELSE guessed[v] + Cardinality(Asked(v)) < MaxWrong + MaxPending

GuessLimit == \A v \in Visitor : Tried(v)

\* While the guard's rule holds, no write beyond those under way comes in.
Recorded ==
    /\ landed <= acts + excused
    /\ rule /\ ~allow => landed + UnderWay <= acts + excused

IInv == TypeOK /\ Held /\ EnteredByAnswer /\ SolvedByAnswer /\ GuessLimit /\ Recorded

-----------------------------------------------------------------------------
LEMMA AskedFinite ==
    ASSUME TypeOK, NEW v \in Visitor
    PROVE  IsFiniteSet(Asked(v)) /\ Cardinality(Asked(v)) \in Nat
<1>1. Asked(v) \subseteq Challenge
  BY DEF TypeOK, Asked
<1>. QED
  BY <1>1, GateAssumption, FS_Subset, FS_CardinalityType

\* Who has an answer under way is a visitor.
LEMMA NoneApart == None \notin Visitor /\ None \notin Challenge
BY GateAssumption

LEMMA LimitStays ==
    ASSUME GuessLimit, UNCHANGED <<wrong, failing, guessed>>, \A v \in Visitor : Asked(v)' = Asked(v)
    PROVE  GuessLimit'
BY DEF GuessLimit, Tried

\* Steps that touch neither the answers under way nor their windows.
LEMMA GuessesStay ==
    ASSUME IInv, UNCHANGED <<wrong, failing, guessed, asking, holder>>
    PROVE  GuessLimit'
BY LimitStays DEF IInv, Asked

LEMMA InitIInv == Init => IInv
<1>. SUFFICES ASSUME Init PROVE IInv
  OBVIOUS
<1>1. TypeOK
  <2>1. /\ session \in [Visitor -> Challenge \cup {None}]
        /\ holder \in [Challenge -> Visitor \cup {None}]
        /\ kind \in [Challenge -> Kinds]
    BY DEF Init, Kinds
  <2>2. /\ used \in [Visitor -> Nat] /\ wrong \in [Visitor -> 0..MaxWrong]
        /\ failing \in [Visitor -> Nat] /\ guessed \in [Visitor -> Nat]
    BY GateAssumption DEF Init
  <2>3. /\ mode \in Modes /\ rule \in BOOLEAN /\ allow \in BOOLEAN
        /\ solved \subseteq Challenge /\ asking \subseteq Challenge
        /\ earned \subseteq Challenge /\ entered \subseteq Challenge
        /\ \A c \in asking : holder[c] # None
    BY DEF Init, Modes
  <2>4. /\ acts \in 0..AbuseMax /\ crashes \in 0..MaxCrashes
        /\ flight \in Nat /\ waiting \in Nat /\ UnderWay <= MaxFlight
        /\ landed \in Nat /\ excused \in Nat
    BY GateAssumption DEF Init, UnderWay
  <2>. QED
    BY <2>1, <2>2, <2>3, <2>4 DEF TypeOK
<1>2. EnteredByAnswer /\ SolvedByAnswer /\ Held
  BY DEF Init, EnteredByAnswer, SolvedByAnswer, Held
<1>3. GuessLimit
  <2>1. \A v \in Visitor : Cardinality(Asked(v)) = 0
    BY FS_EmptySet DEF Init, Asked
  <2>. QED
    BY <2>1, GateAssumption DEF Init, GuessLimit, Tried
<1>4. Recorded
  BY GateAssumption DEF Init, Recorded, UnderWay
<1>. QED
  BY <1>1, <1>2, <1>3, <1>4 DEF IInv

LEMMA ShowKeeps == ASSUME NEW v \in Visitor, NEW c \in Challenge, NEW k \in Kinds, IInv, Show(v, c, k) PROVE IInv'
<1>1. TypeOK'
  BY GateAssumption DEF IInv, TypeOK, Held, UnderWay, Show, New, Required, windows, guard, way,
     Modes, Kinds
<1>2. Held'
  BY GateAssumption DEF IInv, TypeOK, Held, Show, New, Required, windows, guard, way
<1>3. EnteredByAnswer'
  BY GateAssumption DEF IInv, TypeOK, EnteredByAnswer, SolvedByAnswer, Show, New, Required,
     windows, guard, way
<1>4. SolvedByAnswer'
  BY GateAssumption DEF IInv, SolvedByAnswer, TypeOK, Show, New, Required, windows, guard, way
<1>5. GuessLimit'
  <2>1. c \notin asking /\ asking' = asking /\ \A d \in Challenge : d # c => holder'[d] = holder[d]
    BY NoneApart DEF IInv, TypeOK, Show, New
  <2>2. asking \subseteq Challenge /\ UNCHANGED <<wrong, failing, guessed>>
    BY DEF IInv, TypeOK, Show, windows
  <2>3. \A u \in Visitor : Asked(u)' = Asked(u)
    BY <2>1, <2>2 DEF Asked
  <2>. QED
    BY <2>2, <2>3, LimitStays DEF IInv
<1>6. Recorded'
  BY GateAssumption DEF IInv, TypeOK, Recorded, UnderWay, Show, New, Required, windows, guard, way
<1>. QED
  BY <1>1, <1>2, <1>3, <1>4, <1>5, <1>6 DEF IInv

LEMMA RefreshKeeps == ASSUME NEW v \in Visitor, NEW c \in Challenge, NEW k \in Kinds, IInv, Refresh(v, c, k) PROVE IInv'
<1>1. TypeOK'
  BY GateAssumption DEF IInv, TypeOK, Held, UnderWay, Refresh, New, Required, windows, guard, way,
     Modes, Kinds
<1>2. Held'
  BY GateAssumption DEF IInv, TypeOK, Held, Refresh, New, Required, windows, guard, way
<1>3. EnteredByAnswer'
  BY GateAssumption DEF IInv, TypeOK, EnteredByAnswer, SolvedByAnswer, Refresh, New, Required,
     windows, guard, way
<1>4. SolvedByAnswer'
  BY GateAssumption DEF IInv, SolvedByAnswer, TypeOK, Refresh, New, Required, windows, guard, way
<1>5. GuessLimit'
  <2>1. c \notin asking /\ asking' = asking /\ \A d \in Challenge : d # c => holder'[d] = holder[d]
    BY NoneApart DEF IInv, TypeOK, Refresh, New
  <2>2. asking \subseteq Challenge /\ UNCHANGED <<wrong, failing, guessed>>
    BY DEF IInv, TypeOK, Refresh, windows
  <2>3. \A u \in Visitor : Asked(u)' = Asked(u)
    BY <2>1, <2>2 DEF Asked
  <2>. QED
    BY <2>2, <2>3, LimitStays DEF IInv
<1>6. Recorded'
  BY GateAssumption DEF IInv, TypeOK, Recorded, UnderWay, Refresh, New, Required, windows, guard,
     way
<1>. QED
  BY <1>1, <1>2, <1>3, <1>4, <1>5, <1>6 DEF IInv

LEMMA DemandKeeps == ASSUME NEW v \in Visitor, NEW c \in Challenge, NEW k \in Kinds, IInv, Demand(v, c, k) PROVE IInv'
<1>1. TypeOK'
  BY GateAssumption DEF IInv, TypeOK, Held, UnderWay, Demand, New, Counts, TooMany, Blocked,
     windows, guard, way, Modes, Kinds
<1>2. Held'
  BY GateAssumption DEF IInv, TypeOK, Held, Demand, New, Counts, TooMany, Blocked, windows, guard,
     way
<1>3. EnteredByAnswer'
  BY GateAssumption DEF IInv, TypeOK, EnteredByAnswer, SolvedByAnswer, Demand, New, Counts,
     TooMany, Blocked, windows, guard, way
<1>4. SolvedByAnswer'
  BY GateAssumption DEF IInv, SolvedByAnswer, TypeOK, Demand, New, Counts, TooMany, Blocked,
     windows, guard, way
<1>5. GuessLimit'
  <2>1. c \notin asking /\ asking' = asking /\ \A d \in Challenge : d # c => holder'[d] = holder[d]
    BY NoneApart DEF IInv, TypeOK, Demand, New
  <2>2. asking \subseteq Challenge /\ UNCHANGED <<wrong, failing, guessed>>
    BY DEF IInv, TypeOK, Demand, windows
  <2>3. \A u \in Visitor : Asked(u)' = Asked(u)
    BY <2>1, <2>2 DEF Asked
  <2>. QED
    BY <2>2, <2>3, LimitStays DEF IInv
<1>6. Recorded'
  BY GateAssumption DEF IInv, TypeOK, Recorded, UnderWay, Demand, New, Counts, TooMany, Blocked,
     windows, guard, way
<1>. QED
  BY <1>1, <1>2, <1>3, <1>4, <1>5, <1>6 DEF IInv

LEMMA AnswerKeeps == ASSUME NEW v \in Visitor, IInv, Answer(v) PROVE IInv'
<1>1. TypeOK'
  BY GateAssumption DEF IInv, TypeOK, Held, UnderWay, Answer, Verified, Open, MayTry, windows,
     guard, way, Modes, Kinds
<1>2. Held'
  BY GateAssumption DEF IInv, TypeOK, Held, Answer, Verified, Open, MayTry, windows, guard, way
<1>3. EnteredByAnswer'
  BY GateAssumption DEF IInv, TypeOK, EnteredByAnswer, SolvedByAnswer, Answer, Verified, Open,
     MayTry, windows, guard, way
<1>4. SolvedByAnswer'
  BY GateAssumption DEF IInv, SolvedByAnswer, TypeOK, Answer, Verified, Open, MayTry, windows,
     guard, way
<1>5. GuessLimit'
  BY GuessesStay DEF Answer, Verified, Open, MayTry, windows, guard, way, captcha, windows
<1>6. Recorded'
  BY GateAssumption DEF IInv, TypeOK, Recorded, UnderWay, Answer, Verified, Open, MayTry, windows,
     guard, way
<1>. QED
  BY <1>1, <1>2, <1>3, <1>4, <1>5, <1>6 DEF IInv

LEMMA MissKeeps == ASSUME NEW v \in Visitor, IInv, Miss(v) PROVE IInv'
<1>1. TypeOK'
  BY GateAssumption DEF IInv, TypeOK, Held, UnderWay, Miss, Fail, Open, MayTry, Room, captcha,
     guard, way, Modes, Kinds
<1>2. Held'
  BY GateAssumption DEF IInv, TypeOK, Held, Miss, Fail, Open, MayTry, Room, captcha, guard, way
<1>3. EnteredByAnswer'
  BY GateAssumption DEF IInv, TypeOK, EnteredByAnswer, SolvedByAnswer, Miss, Fail, Open, MayTry,
     Room, captcha, guard, way
<1>4. SolvedByAnswer'
  BY GateAssumption DEF IInv, SolvedByAnswer, TypeOK, Miss, Fail, Open, MayTry, Room, captcha,
     guard, way
<1>5. GuessLimit'
  <2>1. \A u \in Visitor : Asked(u)' = Asked(u)
    BY DEF Miss, Asked, captcha
  <2>2. \A u \in Visitor : Cardinality(Asked(u)) \in Nat
    BY AskedFinite DEF IInv
  <2>3. wrong' = wrong /\ wrong[v] < MaxWrong /\ failing[v] + Cardinality(Asked(v)) < MaxPending
    BY DEF Miss, MayTry, Room
  <2>4. \A u \in Visitor : IF u = v THEN failing'[u] = failing[u] + 1 /\ guessed'[u] = guessed[u] + 1
                               ELSE failing'[u] = failing[u] /\ guessed'[u] = guessed[u]
    BY DEF IInv, TypeOK, Miss, Fail
  <2>. QED
    BY <2>1, <2>2, <2>3, <2>4, GateAssumption DEF IInv, TypeOK, GuessLimit, Tried
<1>6. Recorded'
  BY GateAssumption DEF IInv, TypeOK, Recorded, UnderWay, Miss, Fail, Open, MayTry, Room, captcha,
     guard, way
<1>. QED
  BY <1>1, <1>2, <1>3, <1>4, <1>5, <1>6 DEF IInv

LEMMA CountWrongKeeps == ASSUME NEW v \in Visitor, IInv, CountWrong(v) PROVE IInv'
<1>1. TypeOK'
  BY GateAssumption DEF IInv, TypeOK, Held, UnderWay, CountWrong, captcha, guard, way, Modes,
     Kinds
<1>2. Held'
  BY GateAssumption DEF IInv, TypeOK, Held, CountWrong, captcha, guard, way
<1>3. EnteredByAnswer'
  BY GateAssumption DEF IInv, TypeOK, EnteredByAnswer, SolvedByAnswer, CountWrong, captcha, guard,
     way
<1>4. SolvedByAnswer'
  BY GateAssumption DEF IInv, SolvedByAnswer, TypeOK, CountWrong, captcha, guard, way
<1>5. GuessLimit'
  <2>1. \A u \in Visitor : Asked(u)' = Asked(u) /\ Cardinality(Asked(u)) \in Nat
    BY AskedFinite DEF IInv, CountWrong, Asked, captcha
  <2>2. guessed' = guessed /\ failing[v] > 0
    BY DEF CountWrong
  <2>3. \A u \in Visitor : IF u = v THEN /\ failing'[u] = failing[u] - 1
                                       /\ wrong'[u] = IF wrong[u] < MaxWrong THEN wrong[u] + 1 ELSE wrong[u]
                               ELSE failing'[u] = failing[u] /\ wrong'[u] = wrong[u]
    BY DEF IInv, TypeOK, CountWrong
  <2>. QED
    BY <2>1, <2>2, <2>3, GateAssumption DEF IInv, TypeOK, GuessLimit, Tried
<1>6. Recorded'
  BY GateAssumption DEF IInv, TypeOK, Recorded, UnderWay, CountWrong, captcha, guard, way
<1>. QED
  BY <1>1, <1>2, <1>3, <1>4, <1>5, <1>6 DEF IInv

LEMMA AskProviderKeeps == ASSUME NEW v \in Visitor, IInv, AskProvider(v) PROVE IInv'
<1>1. TypeOK'
  BY GateAssumption DEF IInv, TypeOK, Held, UnderWay, AskProvider, Open, MayTry, Room, windows,
     guard, way, Modes, Kinds
<1>2. Held'
  BY GateAssumption DEF IInv, TypeOK, Held, AskProvider, Open, MayTry, Room, windows, guard, way
<1>3. EnteredByAnswer'
  BY GateAssumption DEF IInv, TypeOK, EnteredByAnswer, SolvedByAnswer, AskProvider, Open, MayTry,
     Room, windows, guard, way
<1>4. SolvedByAnswer'
  BY GateAssumption DEF IInv, SolvedByAnswer, TypeOK, AskProvider, Open, MayTry, Room, windows,
     guard, way
<1>5. GuessLimit'
  <2>1. /\ session[v] \in Challenge /\ holder[session[v]] = v
        /\ asking' = asking \cup {session[v]} /\ holder' = holder
    BY DEF IInv, TypeOK, Held, AskProvider, Open
  <2>2. Asked(v)' = Asked(v) \cup {session[v]} /\ \A u \in Visitor \ {v} : Asked(u)' = Asked(u)
    BY <2>1 DEF Asked
  <2>3. /\ Cardinality(Asked(v)') \in Nat /\ Cardinality(Asked(v)) \in Nat
        /\ Cardinality(Asked(v)') <= Cardinality(Asked(v)) + 1
    <3>1. IsFiniteSet(Asked(v)) /\ Cardinality(Asked(v)) \in Nat
      BY AskedFinite, FS_CardinalityType DEF IInv
    <3>2. \/ Cardinality(Asked(v) \cup {session[v]}) = Cardinality(Asked(v)) + 1
          \/ Cardinality(Asked(v) \cup {session[v]}) = Cardinality(Asked(v))
      BY <3>1, FS_AddElement
    <3>. QED
      BY <3>1, <3>2, <2>2
  <2>4. /\ UNCHANGED <<wrong, failing, guessed>> /\ wrong[v] < MaxWrong
        /\ failing[v] + Cardinality(Asked(v)) < MaxPending
    BY DEF AskProvider, MayTry, Room, windows
  <2>5. ASSUME NEW u \in Visitor PROVE Tried(u)'
    <3>1. CASE u = v
      BY <2>3, <2>4, <3>1, GateAssumption DEF IInv, TypeOK, GuessLimit, Tried
    <3>2. CASE u # v
      BY <2>2, <2>4, <3>2 DEF IInv, GuessLimit, Tried
    <3>. QED
      BY <3>1, <3>2
  <2>. QED
    BY <2>5 DEF GuessLimit
<1>6. Recorded'
  BY GateAssumption DEF IInv, TypeOK, Recorded, UnderWay, AskProvider, Open, MayTry, Room,
     windows, guard, way
<1>. QED
  BY <1>1, <1>2, <1>3, <1>4, <1>5, <1>6 DEF IInv

LEMMA UncountedKeeps == ASSUME NEW v \in Visitor, IInv, Uncounted(v) PROVE IInv'
<1>1. TypeOK'
  BY GateAssumption DEF IInv, TypeOK, Held, UnderWay, Uncounted, Enter, Passes, Counts, Satisfied,
     Blocked, captcha, windows, guard, Modes, Kinds
<1>2. Held'
  BY GateAssumption DEF IInv, TypeOK, Held, Uncounted, Enter, Passes, Counts, Satisfied, Blocked,
     captcha, windows, guard
<1>3. EnteredByAnswer'
  BY GateAssumption DEF IInv, TypeOK, EnteredByAnswer, SolvedByAnswer, Uncounted, Enter, Passes,
     Counts, Satisfied, Blocked, captcha, windows, guard
<1>4. SolvedByAnswer'
  BY GateAssumption DEF IInv, SolvedByAnswer, TypeOK, Uncounted, Enter, Passes, Counts, Satisfied,
     Blocked, captcha, windows, guard
<1>5. GuessLimit'
  BY GuessesStay DEF Uncounted, Enter, Passes, Counts, Satisfied, Blocked, captcha, windows, guard
<1>6. Recorded'
  BY GateAssumption DEF IInv, TypeOK, Recorded, UnderWay, Uncounted, Enter, Passes, Counts,
     Satisfied, Blocked, captcha, windows, guard
<1>. QED
  BY <1>1, <1>2, <1>3, <1>4, <1>5, <1>6 DEF IInv

LEMMA CountedKeeps == ASSUME NEW v \in Visitor, IInv, Counted(v) PROVE IInv'
<1>1. TypeOK'
  BY GateAssumption DEF IInv, TypeOK, Held, UnderWay, Counted, Enter, Passes, Counts, TooMany,
     Blocked, captcha, guard, Modes, Kinds
<1>2. Held'
  BY GateAssumption DEF IInv, TypeOK, Held, Counted, Enter, Passes, Counts, TooMany, Blocked,
     captcha, guard
<1>3. EnteredByAnswer'
  BY GateAssumption DEF IInv, TypeOK, EnteredByAnswer, SolvedByAnswer, Counted, Enter, Passes,
     Counts, TooMany, Blocked, captcha, guard
<1>4. SolvedByAnswer'
  BY GateAssumption DEF IInv, SolvedByAnswer, TypeOK, Counted, Enter, Passes, Counts, TooMany,
     Blocked, captcha, guard
<1>5. GuessLimit'
  BY GuessesStay DEF Counted, Enter, Passes, Counts, TooMany, Blocked, captcha, guard, captcha,
     windows
<1>6. Recorded'
  BY GateAssumption DEF IInv, TypeOK, Recorded, UnderWay, Counted, Enter, Passes, Counts, TooMany,
     Blocked, captcha, guard
<1>. QED
  BY <1>1, <1>2, <1>3, <1>4, <1>5, <1>6 DEF IInv

LEMMA WastedKeeps == ASSUME NEW v \in Visitor, IInv, Wasted(v) PROVE IInv'
<1>1. TypeOK'
  BY GateAssumption DEF IInv, TypeOK, Held, UnderWay, Wasted, Counts, TooMany, Blocked, captcha,
     guard, way, Modes, Kinds
<1>2. Held'
  BY GateAssumption DEF IInv, TypeOK, Held, Wasted, Counts, TooMany, Blocked, captcha, guard, way
<1>3. EnteredByAnswer'
  BY GateAssumption DEF IInv, TypeOK, EnteredByAnswer, SolvedByAnswer, Wasted, Counts, TooMany,
     Blocked, captcha, guard, way
<1>4. SolvedByAnswer'
  BY GateAssumption DEF IInv, SolvedByAnswer, TypeOK, Wasted, Counts, TooMany, Blocked, captcha,
     guard, way
<1>5. GuessLimit'
  BY GuessesStay DEF Wasted, Counts, TooMany, Blocked, captcha, guard, way, captcha, windows
<1>6. Recorded'
  BY GateAssumption DEF IInv, TypeOK, Recorded, UnderWay, Wasted, Counts, TooMany, Blocked,
     captcha, guard, way
<1>. QED
  BY <1>1, <1>2, <1>3, <1>4, <1>5, <1>6 DEF IInv

LEMMA WithAnswerKeeps == ASSUME NEW v \in Visitor, IInv, WithAnswer(v) PROVE IInv'
<1>1. TypeOK'
  BY GateAssumption DEF IInv, TypeOK, Held, UnderWay, WithAnswer, Verified, Open, Blocked, MayTry,
     windows, guard, Modes, Kinds
<1>2. Held'
  BY GateAssumption DEF IInv, TypeOK, Held, WithAnswer, Verified, Open, Blocked, MayTry, windows,
     guard
<1>3. EnteredByAnswer'
  BY GateAssumption DEF IInv, TypeOK, EnteredByAnswer, SolvedByAnswer, WithAnswer, Verified, Open,
     Blocked, MayTry, windows, guard
<1>4. SolvedByAnswer'
  BY GateAssumption DEF IInv, SolvedByAnswer, TypeOK, WithAnswer, Verified, Open, Blocked, MayTry,
     windows, guard
<1>5. GuessLimit'
  BY GuessesStay DEF WithAnswer, Verified, Open, Blocked, MayTry, windows, guard, captcha, windows
<1>6. Recorded'
  BY GateAssumption DEF IInv, TypeOK, Recorded, UnderWay, WithAnswer, Verified, Open, Blocked,
     MayTry, windows, guard
<1>. QED
  BY <1>1, <1>2, <1>3, <1>4, <1>5, <1>6 DEF IInv

LEMMA GoOnKeeps == ASSUME NEW v \in Visitor, IInv, GoOn(v) PROVE IInv'
<1>1. TypeOK'
  BY GateAssumption DEF IInv, TypeOK, Held, UnderWay, GoOn, Passes, Satisfied, Counts, captcha,
     windows, guard, Modes, Kinds
<1>2. Held'
  BY GateAssumption DEF IInv, TypeOK, Held, GoOn, Passes, Satisfied, Counts, captcha, windows,
     guard
<1>3. EnteredByAnswer'
  BY GateAssumption DEF IInv, TypeOK, EnteredByAnswer, SolvedByAnswer, GoOn, Passes, Satisfied,
     Counts, captcha, windows, guard
<1>4. SolvedByAnswer'
  BY GateAssumption DEF IInv, SolvedByAnswer, TypeOK, GoOn, Passes, Satisfied, Counts, captcha,
     windows, guard
<1>5. GuessLimit'
  BY GuessesStay DEF GoOn, Passes, Satisfied, Counts, captcha, windows, guard
<1>6. Recorded'
  BY GateAssumption DEF IInv, TypeOK, Recorded, UnderWay, GoOn, Passes, Satisfied, Counts,
     captcha, windows, guard
<1>. QED
  BY <1>1, <1>2, <1>3, <1>4, <1>5, <1>6 DEF IInv

LEMMA LikeKeeps == ASSUME NEW v \in Visitor, IInv, Like(v) PROVE IInv'
<1>1. TypeOK'
  BY GateAssumption DEF IInv, TypeOK, Held, UnderWay, Like, Enter, Passes, Counts, Blocked,
     captcha, windows, guard, Modes, Kinds
<1>2. Held'
  BY GateAssumption DEF IInv, TypeOK, Held, Like, Enter, Passes, Counts, Blocked, captcha,
     windows, guard
<1>3. EnteredByAnswer'
  BY GateAssumption DEF IInv, TypeOK, EnteredByAnswer, SolvedByAnswer, Like, Enter, Passes,
     Counts, Blocked, captcha, windows, guard
<1>4. SolvedByAnswer'
  BY GateAssumption DEF IInv, SolvedByAnswer, TypeOK, Like, Enter, Passes, Counts, Blocked,
     captcha, windows, guard
<1>5. GuessLimit'
  BY GuessesStay DEF Like, Enter, Passes, Counts, Blocked, captcha, windows, guard
<1>6. Recorded'
  BY GateAssumption DEF IInv, TypeOK, Recorded, UnderWay, Like, Enter, Passes, Counts, Blocked,
     captcha, windows, guard
<1>. QED
  BY <1>1, <1>2, <1>3, <1>4, <1>5, <1>6 DEF IInv

LEMMA UnnamedWriteKeeps == ASSUME IInv, UnnamedWrite PROVE IInv'
<1>1. TypeOK'
  BY GateAssumption DEF IInv, TypeOK, Held, UnderWay, UnnamedWrite, Blocked, captcha, windows,
     guard, Modes, Kinds
<1>2. Held'
  BY GateAssumption DEF IInv, TypeOK, Held, UnnamedWrite, Blocked, captcha, windows, guard
<1>3. EnteredByAnswer'
  BY GateAssumption DEF IInv, TypeOK, EnteredByAnswer, SolvedByAnswer, UnnamedWrite, Blocked,
     captcha, windows, guard
<1>4. SolvedByAnswer'
  BY GateAssumption DEF IInv, SolvedByAnswer, TypeOK, UnnamedWrite, Blocked, captcha, windows,
     guard
<1>5. GuessLimit'
  BY GuessesStay DEF UnnamedWrite, Blocked, captcha, windows, guard
<1>6. Recorded'
  BY GateAssumption DEF IInv, TypeOK, Recorded, UnderWay, UnnamedWrite, Blocked, captcha, windows,
     guard
<1>. QED
  BY <1>1, <1>2, <1>3, <1>4, <1>5, <1>6 DEF IInv

LEMMA UnnamedVoteKeeps == ASSUME IInv, UnnamedVote PROVE IInv'
<1>1. TypeOK'
  BY GateAssumption DEF IInv, TypeOK, Held, UnderWay, UnnamedVote, Blocked, captcha, windows, way,
     Modes, Kinds
<1>2. Held'
  BY GateAssumption DEF IInv, TypeOK, Held, UnnamedVote, Blocked, captcha, windows, way
<1>3. EnteredByAnswer'
  BY GateAssumption DEF IInv, TypeOK, EnteredByAnswer, SolvedByAnswer, UnnamedVote, Blocked,
     captcha, windows, way
<1>4. SolvedByAnswer'
  BY GateAssumption DEF IInv, SolvedByAnswer, TypeOK, UnnamedVote, Blocked, captcha, windows, way
<1>5. GuessLimit'
  BY GuessesStay DEF UnnamedVote, Blocked, captcha, windows, way
<1>6. Recorded'
  BY GateAssumption DEF IInv, TypeOK, Recorded, UnderWay, UnnamedVote, Blocked, captcha, windows,
     way
<1>. QED
  BY <1>1, <1>2, <1>3, <1>4, <1>5, <1>6 DEF IInv

LEMMA AcceptedKeeps == ASSUME NEW c \in Challenge, IInv, Accepted(c) PROVE IInv'
<1>1. TypeOK'
  BY GateAssumption DEF IInv, TypeOK, Held, UnderWay, Accepted, Verified, Mark, windows, guard,
     way, Modes, Kinds
<1>2. Held'
  BY GateAssumption DEF IInv, TypeOK, Held, Accepted, Verified, Mark, windows, guard, way
<1>3. EnteredByAnswer'
  BY GateAssumption DEF IInv, TypeOK, EnteredByAnswer, SolvedByAnswer, Accepted, Verified, Mark,
     windows, guard, way
<1>4. SolvedByAnswer'
  BY GateAssumption DEF IInv, SolvedByAnswer, TypeOK, Accepted, Verified, Mark, windows, guard,
     way
<1>5. GuessLimit'
  <2>1. c \in asking /\ asking' = asking \ {c} /\ holder' = holder /\ wrong' = wrong /\ holder[c] \in Visitor
    BY DEF IInv, TypeOK, Accepted, Mark, Verified, windows
  <2>2. \A u \in Visitor : Asked(u)' = IF u = holder[c] THEN Asked(u) \ {c} ELSE Asked(u)
    BY <2>1 DEF Asked
  <2>3. c \in Asked(holder[c])
    BY <2>1 DEF Asked
  <2>4. \A u \in Visitor : /\ Cardinality(Asked(u)) \in Nat
                            /\ Cardinality(Asked(u)') = IF u = holder[c] THEN Cardinality(Asked(u)) - 1
                                                        ELSE Cardinality(Asked(u))
    BY <2>2, <2>3, AskedFinite, FS_RemoveElement, FS_CardinalityType DEF IInv
  <2>5. failing' = failing /\ guessed' = guessed
    BY DEF Accepted, windows
  <2>. QED
    BY <2>1, <2>4, <2>5, GateAssumption DEF IInv, TypeOK, GuessLimit, Tried
<1>6. Recorded'
  BY GateAssumption DEF IInv, TypeOK, Recorded, UnderWay, Accepted, Verified, Mark, windows,
     guard, way
<1>. QED
  BY <1>1, <1>2, <1>3, <1>4, <1>5, <1>6 DEF IInv

LEMMA NotAcceptedKeeps == ASSUME NEW c \in Challenge, IInv, NotAccepted(c) PROVE IInv'
<1>1. TypeOK'
  BY GateAssumption DEF IInv, TypeOK, Held, UnderWay, NotAccepted, Fail, guard, way, Modes, Kinds
<1>2. Held'
  BY GateAssumption DEF IInv, TypeOK, Held, NotAccepted, Fail, guard, way
<1>3. EnteredByAnswer'
  BY GateAssumption DEF IInv, TypeOK, EnteredByAnswer, SolvedByAnswer, NotAccepted, Fail, guard,
     way
<1>4. SolvedByAnswer'
  BY GateAssumption DEF IInv, SolvedByAnswer, TypeOK, NotAccepted, Fail, guard, way
<1>5. GuessLimit'
  <2>1. c \in asking /\ asking' = asking \ {c} /\ holder' = holder /\ wrong' = wrong /\ holder[c] \in Visitor
    BY DEF IInv, TypeOK, NotAccepted, Mark, Verified, windows
  <2>2. \A u \in Visitor : Asked(u)' = IF u = holder[c] THEN Asked(u) \ {c} ELSE Asked(u)
    BY <2>1 DEF Asked
  <2>3. c \in Asked(holder[c])
    BY <2>1 DEF Asked
  <2>4. \A u \in Visitor : /\ Cardinality(Asked(u)) \in Nat
                            /\ Cardinality(Asked(u)') = IF u = holder[c] THEN Cardinality(Asked(u)) - 1
                                                        ELSE Cardinality(Asked(u))
    BY <2>2, <2>3, AskedFinite, FS_RemoveElement, FS_CardinalityType DEF IInv
  <2>5. \/ failing' = failing /\ guessed' = guessed
        \/ \A u \in Visitor : IF u = holder[c]
                               THEN failing'[u] = failing[u] + 1 /\ guessed'[u] = guessed[u] + 1
                               ELSE failing'[u] = failing[u] /\ guessed'[u] = guessed[u]
    BY <2>1 DEF IInv, TypeOK, NotAccepted, Fail
  <2>. QED
    BY <2>1, <2>4, <2>5, GateAssumption DEF IInv, TypeOK, GuessLimit, Tried
<1>6. Recorded'
  BY GateAssumption DEF IInv, TypeOK, Recorded, UnderWay, NotAccepted, Fail, guard, way
<1>. QED
  BY <1>1, <1>2, <1>3, <1>4, <1>5, <1>6 DEF IInv

LEMMA Recording ==
    ASSUME IInv, NEW own \in {0, 1}, NEW others \in Nat, Record(own, others)
    PROVE  acts' \in 0..AbuseMax /\ rule' \in BOOLEAN /\ landed' \in Nat /\ excused' \in Nat
<1>1. CASE allow
  BY <1>1 DEF Record, IInv, TypeOK
<1>2. CASE ~allow /\ acts < AbuseMax
  BY <1>2, GateAssumption DEF Record, IInv, TypeOK
<1>3. CASE ~allow /\ ~(acts < AbuseMax)
  BY <1>3, GateAssumption DEF Record, IInv, TypeOK
<1>. QED
  BY <1>1, <1>2, <1>3

LEMMA LandKeeps == ASSUME IInv, Land PROVE IInv'
<1>1. TypeOK'
  <2>1. acts' \in 0..AbuseMax /\ rule' \in BOOLEAN /\ landed' \in Nat /\ excused' \in Nat
    BY GateAssumption, Recording DEF IInv, TypeOK, UnderWay, Land
  <2>2. flight' \in Nat /\ waiting' \in Nat /\ UnderWay' <= MaxFlight
    BY GateAssumption DEF IInv, TypeOK, UnderWay, Land
  <2>. QED
    BY <2>1, <2>2 DEF IInv, TypeOK, Land, captcha, windows
<1>2. Held'
  BY GateAssumption DEF IInv, TypeOK, Held, Land, Record, captcha, windows
<1>3. EnteredByAnswer'
  BY GateAssumption DEF IInv, TypeOK, EnteredByAnswer, SolvedByAnswer, Land, Record, captcha,
     windows
<1>4. SolvedByAnswer'
  BY GateAssumption DEF IInv, SolvedByAnswer, TypeOK, Land, Record, captcha, windows
<1>5. GuessLimit'
  BY GuessesStay DEF Land, Record, captcha, windows
<1>6. Recorded'
  BY GateAssumption DEF IInv, TypeOK, Recorded, UnderWay, Land, Record, captcha, windows
<1>. QED
  BY <1>1, <1>2, <1>3, <1>4, <1>5, <1>6 DEF IInv

LEMMA DropKeeps == ASSUME IInv, Drop PROVE IInv'
<1>1. TypeOK'
  BY GateAssumption DEF IInv, TypeOK, Held, UnderWay, Drop, captcha, windows, guard, Modes, Kinds
<1>2. Held'
  BY GateAssumption DEF IInv, TypeOK, Held, Drop, captcha, windows, guard
<1>3. EnteredByAnswer'
  BY GateAssumption DEF IInv, TypeOK, EnteredByAnswer, SolvedByAnswer, Drop, captcha, windows,
     guard
<1>4. SolvedByAnswer'
  BY GateAssumption DEF IInv, SolvedByAnswer, TypeOK, Drop, captcha, windows, guard
<1>5. GuessLimit'
  BY GuessesStay DEF Drop, captcha, windows, guard
<1>6. Recorded'
  BY GateAssumption DEF IInv, TypeOK, Recorded, UnderWay, Drop, captcha, windows, guard
<1>. QED
  BY <1>1, <1>2, <1>3, <1>4, <1>5, <1>6 DEF IInv

LEMMA AuthorWritesKeeps == ASSUME IInv, AuthorWrites PROVE IInv'
<1>1. TypeOK'
  <2>1. acts' \in 0..AbuseMax /\ rule' \in BOOLEAN /\ landed' \in Nat /\ excused' \in Nat
    BY GateAssumption, Recording DEF IInv, TypeOK, UnderWay, AuthorWrites
  <2>2. flight' \in Nat /\ waiting' \in Nat /\ UnderWay' <= MaxFlight
    BY GateAssumption DEF IInv, TypeOK, UnderWay, AuthorWrites, way
  <2>. QED
    BY <2>1, <2>2 DEF IInv, TypeOK, AuthorWrites, captcha, windows, way
<1>2. Held'
  BY GateAssumption DEF IInv, TypeOK, Held, AuthorWrites, Record, captcha, windows, way
<1>3. EnteredByAnswer'
  BY GateAssumption DEF IInv, TypeOK, EnteredByAnswer, SolvedByAnswer, AuthorWrites, Record,
     captcha, windows, way
<1>4. SolvedByAnswer'
  BY GateAssumption DEF IInv, SolvedByAnswer, TypeOK, AuthorWrites, Record, captcha, windows, way
<1>5. GuessLimit'
  BY GuessesStay DEF AuthorWrites, Record, captcha, windows, way
<1>6. Recorded'
  BY GateAssumption DEF IInv, TypeOK, Recorded, UnderWay, AuthorWrites, Record, captcha, windows,
     way
<1>. QED
  BY <1>1, <1>2, <1>3, <1>4, <1>5, <1>6 DEF IInv

LEMMA SetModeKeeps == ASSUME NEW m \in Modes, IInv, SetMode(m) PROVE IInv'
<1>1. TypeOK'
  BY GateAssumption DEF IInv, TypeOK, Held, UnderWay, SetMode, captcha, windows, guard, way,
     Modes, Kinds
<1>2. Held'
  BY GateAssumption DEF IInv, TypeOK, Held, SetMode, captcha, windows, guard, way
<1>3. EnteredByAnswer'
  BY GateAssumption DEF IInv, TypeOK, EnteredByAnswer, SolvedByAnswer, SetMode, captcha, windows,
     guard, way
<1>4. SolvedByAnswer'
  BY GateAssumption DEF IInv, SolvedByAnswer, TypeOK, SetMode, captcha, windows, guard, way
<1>5. GuessLimit'
  BY GuessesStay DEF SetMode, captcha, windows, guard, way
<1>6. Recorded'
  BY GateAssumption DEF IInv, TypeOK, Recorded, UnderWay, SetMode, captcha, windows, guard, way
<1>. QED
  BY <1>1, <1>2, <1>3, <1>4, <1>5, <1>6 DEF IInv

LEMMA SetAllowKeeps == ASSUME NEW b \in BOOLEAN, IInv, SetAllow(b) PROVE IInv'
<1>1. TypeOK'
  BY GateAssumption DEF IInv, TypeOK, Held, UnderWay, SetAllow, captcha, windows, way, Modes,
     Kinds
<1>2. Held'
  BY GateAssumption DEF IInv, TypeOK, Held, SetAllow, captcha, windows, way
<1>3. EnteredByAnswer'
  BY GateAssumption DEF IInv, TypeOK, EnteredByAnswer, SolvedByAnswer, SetAllow, captcha, windows,
     way
<1>4. SolvedByAnswer'
  BY GateAssumption DEF IInv, SolvedByAnswer, TypeOK, SetAllow, captcha, windows, way
<1>5. GuessLimit'
  BY GuessesStay DEF SetAllow, captcha, windows, way
<1>6. Recorded'
  BY GateAssumption DEF IInv, TypeOK, Recorded, UnderWay, SetAllow, captcha, windows, way
<1>. QED
  BY <1>1, <1>2, <1>3, <1>4, <1>5, <1>6 DEF IInv

LEMMA SessionEndsKeeps == ASSUME NEW v \in Visitor, IInv, SessionEnds(v) PROVE IInv'
<1>1. TypeOK'
  BY GateAssumption DEF IInv, TypeOK, Held, UnderWay, SessionEnds, windows, guard, way, Modes,
     Kinds
<1>2. Held'
  BY GateAssumption DEF IInv, TypeOK, Held, SessionEnds, windows, guard, way
<1>3. EnteredByAnswer'
  BY GateAssumption DEF IInv, TypeOK, EnteredByAnswer, SolvedByAnswer, SessionEnds, windows,
     guard, way
<1>4. SolvedByAnswer'
  BY GateAssumption DEF IInv, SolvedByAnswer, TypeOK, SessionEnds, windows, guard, way
<1>5. GuessLimit'
  BY GuessesStay DEF SessionEnds, windows, guard, way, captcha, windows
<1>6. Recorded'
  BY GateAssumption DEF IInv, TypeOK, Recorded, UnderWay, SessionEnds, windows, guard, way
<1>. QED
  BY <1>1, <1>2, <1>3, <1>4, <1>5, <1>6 DEF IInv

LEMMA WindowEndsKeeps == ASSUME NEW v \in Visitor, IInv, WindowEnds(v) PROVE IInv'
<1>1. TypeOK'
  BY GateAssumption DEF IInv, TypeOK, Held, UnderWay, WindowEnds, captcha, guard, way, Modes,
     Kinds
<1>2. Held'
  BY GateAssumption DEF IInv, TypeOK, Held, WindowEnds, captcha, guard, way
<1>3. EnteredByAnswer'
  BY GateAssumption DEF IInv, TypeOK, EnteredByAnswer, SolvedByAnswer, WindowEnds, captcha, guard,
     way
<1>4. SolvedByAnswer'
  BY GateAssumption DEF IInv, SolvedByAnswer, TypeOK, WindowEnds, captcha, guard, way
<1>5. GuessLimit'
  BY GuessesStay DEF WindowEnds, captcha, guard, way, captcha, windows
<1>6. Recorded'
  BY GateAssumption DEF IInv, TypeOK, Recorded, UnderWay, WindowEnds, captcha, guard, way
<1>. QED
  BY <1>1, <1>2, <1>3, <1>4, <1>5, <1>6 DEF IInv

LEMMA WrongWindowEndsKeeps == ASSUME NEW v \in Visitor, IInv, WrongWindowEnds(v) PROVE IInv'
<1>1. TypeOK'
  BY GateAssumption DEF IInv, TypeOK, Held, UnderWay, WrongWindowEnds, captcha, guard, way, Modes,
     Kinds
<1>2. Held'
  BY GateAssumption DEF IInv, TypeOK, Held, WrongWindowEnds, captcha, guard, way
<1>3. EnteredByAnswer'
  BY GateAssumption DEF IInv, TypeOK, EnteredByAnswer, SolvedByAnswer, WrongWindowEnds, captcha,
     guard, way
<1>4. SolvedByAnswer'
  BY GateAssumption DEF IInv, SolvedByAnswer, TypeOK, WrongWindowEnds, captcha, guard, way
<1>5. GuessLimit'
  <2>1. \A u \in Visitor : Asked(u)' = Asked(u) /\ Cardinality(Asked(u)) \in Nat
    BY AskedFinite DEF IInv, WrongWindowEnds, Asked, captcha
  <2>. QED
    BY <2>1, GateAssumption DEF IInv, TypeOK, GuessLimit, Tried, WrongWindowEnds
<1>6. Recorded'
  BY GateAssumption DEF IInv, TypeOK, Recorded, UnderWay, WrongWindowEnds, captcha, guard, way
<1>. QED
  BY <1>1, <1>2, <1>3, <1>4, <1>5, <1>6 DEF IInv

LEMMA AbuseWindowEndsKeeps == ASSUME IInv, AbuseWindowEnds PROVE IInv'
<1>1. TypeOK'
  BY GateAssumption DEF IInv, TypeOK, Held, UnderWay, AbuseWindowEnds, captcha, windows, way,
     Modes, Kinds
<1>2. Held'
  BY GateAssumption DEF IInv, TypeOK, Held, AbuseWindowEnds, captcha, windows, way
<1>3. EnteredByAnswer'
  BY GateAssumption DEF IInv, TypeOK, EnteredByAnswer, SolvedByAnswer, AbuseWindowEnds, captcha,
     windows, way
<1>4. SolvedByAnswer'
  BY GateAssumption DEF IInv, SolvedByAnswer, TypeOK, AbuseWindowEnds, captcha, windows, way
<1>5. GuessLimit'
  BY GuessesStay DEF AbuseWindowEnds, captcha, windows, way
<1>6. Recorded'
  BY GateAssumption DEF IInv, TypeOK, Recorded, UnderWay, AbuseWindowEnds, captcha, windows, way
<1>. QED
  BY <1>1, <1>2, <1>3, <1>4, <1>5, <1>6 DEF IInv

LEMMA RuleEndsKeeps == ASSUME IInv, RuleEnds PROVE IInv'
<1>1. TypeOK'
  BY GateAssumption DEF IInv, TypeOK, Held, UnderWay, RuleEnds, captcha, windows, way, Modes,
     Kinds
<1>2. Held'
  BY GateAssumption DEF IInv, TypeOK, Held, RuleEnds, captcha, windows, way
<1>3. EnteredByAnswer'
  BY GateAssumption DEF IInv, TypeOK, EnteredByAnswer, SolvedByAnswer, RuleEnds, captcha, windows,
     way
<1>4. SolvedByAnswer'
  BY GateAssumption DEF IInv, SolvedByAnswer, TypeOK, RuleEnds, captcha, windows, way
<1>5. GuessLimit'
  BY GuessesStay DEF RuleEnds, captcha, windows, way
<1>6. Recorded'
  BY GateAssumption DEF IInv, TypeOK, Recorded, UnderWay, RuleEnds, captcha, windows, way
<1>. QED
  BY <1>1, <1>2, <1>3, <1>4, <1>5, <1>6 DEF IInv

LEMMA CrashKeeps == ASSUME IInv, Crash PROVE IInv'
<1>1. TypeOK'
  BY GateAssumption DEF IInv, TypeOK, Held, UnderWay, Crash, Modes, Kinds
<1>2. Held'
  BY GateAssumption DEF IInv, TypeOK, Held, Crash
<1>3. EnteredByAnswer'
  BY GateAssumption DEF IInv, TypeOK, EnteredByAnswer, SolvedByAnswer, Crash
<1>4. SolvedByAnswer'
  BY GateAssumption DEF IInv, SolvedByAnswer, TypeOK, Crash
<1>5. GuessLimit'
  <2>1. \A u \in Visitor : Cardinality(Asked(u)') = 0
    BY FS_EmptySet DEF Crash, Asked
  <2>. QED
    BY <2>1, GateAssumption DEF IInv, TypeOK, GuessLimit, Tried, Crash
<1>6. Recorded'
  BY GateAssumption DEF IInv, TypeOK, Recorded, UnderWay, Crash
<1>. QED
  BY <1>1, <1>2, <1>3, <1>4, <1>5, <1>6 DEF IInv

-----------------------------------------------------------------------------
LEMMA NextKeeps == ASSUME IInv, Next PROVE IInv'
<1>1. CASE \E v \in Visitor : ByVisitor(v)
  BY <1>1, ShowKeeps, RefreshKeeps, DemandKeeps, AnswerKeeps, MissKeeps, AskProviderKeeps,
     UncountedKeeps, CountedKeeps, WastedKeeps, WithAnswerKeeps, LikeKeeps, UnnamedWriteKeeps,
     UnnamedVoteKeeps DEF ByVisitor
<1>2. CASE ByProvider
  BY <1>2, AcceptedKeeps, NotAcceptedKeeps DEF ByProvider
<1>3. CASE ByServer
  BY <1>3, LandKeeps, DropKeeps, AuthorWritesKeeps DEF ByServer
<1>4. CASE ByLog
  BY <1>4, CountWrongKeeps, GoOnKeeps DEF ByLog
<1>5. CASE ByAdmin
  BY <1>5, SetModeKeeps, SetAllowKeeps DEF ByAdmin
<1>6. CASE ByClock
  BY <1>6, SessionEndsKeeps, WindowEndsKeeps, WrongWindowEndsKeeps, AbuseWindowEndsKeeps,
     RuleEndsKeeps DEF ByClock
<1>. QED
  BY <1>1, <1>2, <1>3, <1>4, <1>5, <1>6, CrashKeeps DEF Next

(* Answers, windows and the guard's accounts, with the types, are kept by  *)
(* every request, answer, change of policy, expiry and crash.              *)
THEOREM Invariance == Spec => []IInv
<1>1. IInv /\ UNCHANGED vars => IInv'
  BY DEF IInv, TypeOK, Held, EnteredByAnswer, SolvedByAnswer, GuessLimit, Tried, Asked, Recorded,
     UnderWay, vars, captcha, windows, guard, way
<1>. QED
  BY InitIInv, NextKeeps, <1>1, PTL DEF Spec

(* Challenges, windows and rules keep their types.                         *)
THEOREM TypeCorrect == Spec => []TypeOK
BY Invariance, PTL DEF IInv

(* A challenge that let a write in had been answered rightly itself.       *)
THEOREM EntriesAreAnswered == Spec => []EnteredByAnswer
BY Invariance, PTL DEF IInv

(* Beyond the limit a visitor gets no more wrong answers in a window than  *)
(* were under way at once, however late they are counted.                  *)
THEOREM GuessesAreFew == Spec => []GuessesStop
<1>1. ASSUME IInv PROVE GuessesStop
  <2>. SUFFICES ASSUME NEW v \in Visitor PROVE guessed[v] < MaxWrong + MaxPending
    BY DEF GuessesStop
  <2>1. Cardinality(Asked(v)) \in Nat
    BY <1>1, AskedFinite DEF IInv
  <2>. QED
    BY <1>1, <2>1, GateAssumption DEF IInv, TypeOK, GuessLimit, Tried
<1>. QED
  BY Invariance, <1>1, PTL

(* Of the writes the guard is told of an address makes AbuseMax in a       *)
(* window, but for those under way when it was stopped.                    *)
THEOREM AbuseEnds == Spec => []AbuseIsStopped
<1>1. IInv => AbuseIsStopped
  BY GateAssumption DEF IInv, TypeOK, Recorded, AbuseIsStopped
<1>. QED
  BY Invariance, <1>1, PTL
=============================================================================
