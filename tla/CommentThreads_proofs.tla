----------------------- MODULE CommentThreads_proofs -----------------------
(***************************************************************************)
(* For every set of comments and visitors and any number of crashes: the   *)
(* cached counts follow the comments and the votes, off by one at most for *)
(* each crash, and approved replies are announced unless a moderation was  *)
(* overtaken.  The announcements need one fact of their own: the request   *)
(* that stores a reply plans for it once, so no decision is there before.  *)
(***************************************************************************)
EXTENDS CommentThreads, FiniteSetTheorems, TLAPS

PlannedOnce ==
    \A c \in Comment, src \in Source \ {"moderated"} : <<c, src>> \in planning => <<c, src>> \notin decided

IInv == TypeOK /\ CountsFollow /\ TallyFollows /\ ApprovedReplyIsTold /\ PlannedOnce

-----------------------------------------------------------------------------
(* Counts near a set's cardinality.                                        *)

LEMMA NearAdd ==
    ASSUME NEW n \in Nat, NEW k \in Nat, NEW S, NEW c, IsFiniteSet(S), c \notin S, Near(n, S, k)
    PROVE  Near(n + 1, S \cup {c}, k)
<1>1. Cardinality(S) \in Nat /\ Cardinality(S \cup {c}) = Cardinality(S) + 1
  BY FS_AddElement, FS_CardinalityType
<1>. QED
  BY <1>1 DEF Near

LEMMA NearMiss ==
    ASSUME NEW n \in Nat, NEW k \in Nat, NEW S, NEW c, IsFiniteSet(S), c \notin S, Near(n, S, k)
    PROVE  Near(n, S \cup {c}, k + 1)
<1>1. Cardinality(S) \in Nat /\ Cardinality(S \cup {c}) = Cardinality(S) + 1
  BY FS_AddElement, FS_CardinalityType
<1>. QED
  BY <1>1 DEF Near

LEMMA NearSlack ==
    ASSUME NEW n \in Nat, NEW k \in Nat, NEW S, IsFiniteSet(S), Near(n, S, k)
    PROVE  Near(n, S, k + 1)
BY FS_CardinalityType DEF Near

LEMMA NearDrop ==
    ASSUME NEW n \in Nat, NEW k \in Nat, NEW S, NEW T, IsFiniteSet(S), Near(n, S, k)
    PROVE  Less(n, Cardinality(T \cap S)) \in Nat /\ Near(Less(n, Cardinality(T \cap S)), S \ T, k)
<1>1. IsFiniteSet(S \cap T) /\ Cardinality(S \cap T) <= Cardinality(S)
  BY FS_Subset
<1>2. T \cap S = S \cap T
  OBVIOUS
<1>3. Cardinality(S \ T) = Cardinality(S) - Cardinality(S \cap T)
  BY FS_Difference
<1>4. Cardinality(S) \in Nat /\ Cardinality(S \cap T) \in Nat
  BY <1>1, FS_CardinalityType
<1>. QED
  BY <1>1, <1>2, <1>3, <1>4 DEF Near, Less

LEMMA NearDropMiss ==
    ASSUME NEW n \in Nat, NEW k \in Nat, NEW S, NEW T, NEW c, IsFiniteSet(S), Near(n, S, k)
    PROVE  Near(Less(n, Cardinality(T \cap S)), S \ (T \cup {c}), k + 1)
<1>1. Less(n, Cardinality(T \cap S)) \in Nat /\ Near(Less(n, Cardinality(T \cap S)), S \ T, k)
  BY NearDrop
<1>2. IsFiniteSet(S \ T) /\ Cardinality(S \ T) \in Nat
  BY FS_Difference, FS_CardinalityType
<1>3. S \ (T \cup {c}) = (S \ T) \ {c}
  OBVIOUS
<1>4. Cardinality((S \ T) \ {c}) = IF c \in S \ T THEN Cardinality(S \ T) - 1 ELSE Cardinality(S \ T)
  BY <1>2, FS_RemoveElement
<1>. QED
  BY <1>1, <1>2, <1>3, <1>4 DEF Near

-----------------------------------------------------------------------------
(* What the operations do to the sets that are counted.                    *)

LEMMA Finite ==
    ASSUME TypeOK
    PROVE  /\ IsFiniteSet(Live) /\ IsFiniteSet(LiveRoots)
           /\ \A p : IsFiniteSet(Answers(p))
           /\ \A x \in Item : IsFiniteSet(voters[x])
<1>1. Live \subseteq Comment /\ LiveRoots \subseteq Comment /\ \A p : Answers(p) \subseteq Comment
  BY DEF Live, Stored, LiveRoots, Answers
<1>2. \A x \in Item : voters[x] \subseteq Visitor
  BY DEF TypeOK
<1>. QED
  BY <1>1, <1>2, ThreadAssumption, FS_Subset

\* A row put under p.
Arrives(c, p) ==
    /\ c \notin Stored
    /\ Stored' = Stored \cup {c} /\ Live' = Live \cup {c}
    /\ LiveRoots' = IF p = Root THEN LiveRoots \cup {c} ELSE LiveRoots
    /\ \A q \in Comment : Answers(q)' = IF q = p THEN Answers(q) \cup {c} ELSE Answers(q)

LEMMA Arrival ==
    ASSUME TypeOK, NEW c \in Comment, NEW p \in Comment \cup {Root}, NEW s \in Shelf,
           status[c] \in {"absent", "asked"},
           status' = [status EXCEPT ![c] = s] \/ status' = [Unasked(status) EXCEPT ![c] = s],
           parent' = [parent EXCEPT ![c] = p], deleted' = deleted
    PROVE  Arrives(c, p)
<1>1. c \notin Stored
  BY DEF Stored, Shelf
<1>2. \A d \in Comment : d # c => (status'[d] \in Shelf <=> status[d] \in Shelf) /\ parent'[d] = parent[d]
  BY DEF TypeOK, Unasked, Shelf
<1>3. status'[c] \in Shelf /\ parent'[c] = p
  BY DEF TypeOK, Unasked
<1>4. Stored' = Stored \cup {c}
  BY <1>2, <1>3 DEF Stored
<1>5. Live' = Live \cup {c}
  BY <1>1, <1>4 DEF Live, TypeOK
<1>6. LiveRoots' = IF p = Root THEN LiveRoots \cup {c} ELSE LiveRoots
  BY <1>1, <1>2, <1>3, <1>5 DEF LiveRoots, Live, Stored
<1>7. ASSUME NEW q \in Comment PROVE Answers(q)' = IF q = p THEN Answers(q) \cup {c} ELSE Answers(q)
  BY <1>1, <1>2, <1>3, <1>5 DEF Answers, Live, Stored
<1>. QED
  BY <1>1, <1>4, <1>5, <1>6, <1>7 DEF Arrives

\* Nothing is stored, deleted or moved.
Stays == Stored' = Stored /\ Live' = Live /\ LiveRoots' = LiveRoots /\ \A q \in Comment : Answers(q)' = Answers(q)

LEMMA Staying ==
    ASSUME \A d \in Comment : status'[d] \in Shelf <=> status[d] \in Shelf,
           \A d \in Stored : parent'[d] = parent[d],
           deleted' = deleted
    PROVE  Stays
<1>1. Stored' = Stored /\ Live' = Live
  BY DEF Stored, Live
<1>2. LiveRoots' = LiveRoots /\ \A q \in Comment : Answers(q)' = Answers(q)
  BY <1>1 DEF LiveRoots, Answers, Live
<1>. QED
  BY <1>1, <1>2 DEF Stays

LEMMA CountsStay ==
    ASSUME TypeOK, CountsFollow, Stays, UNCHANGED counters, crashes' \in {crashes, crashes + 1}
    PROVE  CountsFollow'
<1>1. CASE crashes' = crashes
  BY <1>1 DEF CountsFollow, Stays, counters
<1>2. CASE crashes' = crashes + 1
  <2>1. crashes \in Nat
    BY ThreadAssumption DEF TypeOK
  <2>2. Near(total, Live, crashes + 1) /\ Near(roots, LiveRoots, crashes + 1)
    BY <2>1, Finite, NearSlack DEF TypeOK, CountsFollow
  <2>3. \A c \in Comment : Near(replies[c], Answers(c), crashes + 1)
    BY <2>1, Finite, NearSlack DEF TypeOK, CountsFollow
  <2>. QED
    BY <1>2, <2>2, <2>3 DEF CountsFollow, Stays, counters
<1>. QED
  BY <1>1, <1>2

LEMMA TallyStays ==
    ASSUME TypeOK, TallyFollows, UNCHANGED feedback, crashes' \in {crashes, crashes + 1}
    PROVE  TallyFollows'
<1>1. \A x \in Item : Cardinality(voters[x]) \in Nat
  BY Finite, FS_CardinalityType
<1>. QED
  BY <1>1, ThreadAssumption DEF TypeOK, TallyFollows, feedback

\* Nothing that accounts for a reply is forgotten.
Remembers == told \subseteq told' /\ cut \subseteq cut' /\ decided \subseteq decided' /\ planning \subseteq planning'

LEMMA AccountedStays == ASSUME Remembers, NEW c \in Comment, Accounted(c) PROVE Accounted(c)'
BY DEF Remembers, Accounted, Overtaken

\* A reply that is approved, live and under a live parent is accounted for.
Due(c) == c \in Live /\ status[c] = "approved" /\ IsReply(c) /\ parent[c] \notin deleted

LEMMA ToldIfAccounted == ASSUME \A c \in Comment : Due(c)' => Accounted(c)' PROVE ApprovedReplyIsTold'
BY DEF ApprovedReplyIsTold, Due, Live, Stored

LEMMA AccountedIfTold == ASSUME ApprovedReplyIsTold, NEW c \in Comment, Due(c) PROVE Accounted(c)
BY DEF ApprovedReplyIsTold, Due

\* Steps that leave the notices alone and make no reply due.
LEMMA NoticesStay ==
    ASSUME IInv, UNCHANGED <<notice, cut>>, \A c \in Comment : Due(c)' => Due(c)
    PROVE  ApprovedReplyIsTold' /\ PlannedOnce'
<1>1. Remembers
  BY DEF Remembers, notice
<1>2. ApprovedReplyIsTold'
  BY <1>1, AccountedStays, AccountedIfTold, ToldIfAccounted DEF IInv
<1>. QED
  BY <1>2 DEF IInv, PlannedOnce, notice

LEMMA InitIInv == Init => IInv
<1>. SUFFICES ASSUME Init PROVE IInv
  OBVIOUS
<1>1. Stored = {} /\ Live = {} /\ LiveRoots = {} /\ \A c : Answers(c) = {}
  BY DEF Init, Stored, Live, LiveRoots, Answers, Shelf
<1>2. TypeOK
  BY <1>1, ThreadAssumption DEF Init, TypeOK, Status
<1>3. CountsFollow
  BY <1>1, FS_EmptySet DEF Init, CountsFollow, Near
<1>4. TallyFollows
  BY FS_EmptySet DEF Init, TallyFollows
<1>5. ApprovedReplyIsTold /\ PlannedOnce
  BY <1>1 DEF ApprovedReplyIsTold, PlannedOnce, Init
<1>. QED
  BY <1>2, <1>3, <1>4, <1>5 DEF IInv

-----------------------------------------------------------------------------
(* A new row, with its counts.                                             *)

LEMMA CountsArrive ==
    ASSUME TypeOK, CountsFollow, NEW c \in Comment, NEW p \in Comment \cup {Root}, Arrives(c, p),
           Count(p), crashes' \in {crashes, crashes + 1}
    PROVE  CountsFollow'
<1>1. crashes \in Nat /\ crashes' \in Nat
  BY ThreadAssumption DEF TypeOK
<1>2. ASSUME NEW k \in {crashes, crashes + 1} PROVE
      /\ Near(total', Live', k) /\ Near(roots', LiveRoots', k)
      /\ \A d \in Comment : Near(replies'[d], Answers(d)', k)
  <2>1. k \in Nat /\ Near(total, Live, k) /\ Near(roots, LiveRoots, k)
        /\ \A d \in Comment : Near(replies[d], Answers(d), k)
    BY <1>1, <1>2, Finite, NearSlack DEF TypeOK, CountsFollow
  <2>2. c \notin Live /\ c \notin LiveRoots /\ \A d \in Comment : c \notin Answers(d)
    BY DEF Arrives, Live, LiveRoots, Answers
  <2>3. Near(total', Live', k)
    BY <2>1, <2>2, Finite, NearAdd DEF TypeOK, Arrives, Count
  <2>4. Near(roots', LiveRoots', k)
    <3>1. CASE p = Root
      BY <2>1, <2>2, <3>1, Finite, NearAdd DEF TypeOK, Arrives, Count
    <3>2. CASE p # Root
      BY <2>1, <3>2 DEF Arrives, Count
    <3>. QED
      BY <3>1, <3>2
  <2>5. ASSUME NEW d \in Comment PROVE Near(replies'[d], Answers(d)', k)
    <3>1. CASE d = p
      <4>1. Near(replies[d] + 1, Answers(d) \cup {c}, k)
        BY <2>1, <2>2, Finite, NearAdd DEF TypeOK
      <4>. QED
        BY <3>1, <4>1 DEF TypeOK, Arrives, Count
    <3>2. CASE d # p
      BY <2>1, <3>2 DEF TypeOK, Arrives, Count
    <3>. QED
      BY <3>1, <3>2
  <2>. QED
    BY <2>3, <2>4, <2>5
<1>. QED
  BY <1>2 DEF CountsFollow

LEMMA InsertKeeps ==
    ASSUME IInv, NEW c \in Comment, NEW p \in Comment \cup {Root}, NEW s \in Shelf,
           NEW src \in Source \ {"moderated"}, status[c] \in {"absent", "asked"}, Insert(c, p, s, src)
    PROVE  IInv'
<1>1. Arrives(c, p)
  BY Arrival DEF IInv, Insert
<1>2. TypeOK'
  <2>1. total' \in Nat /\ roots' \in Nat /\ replies' \in [Comment -> Nat]
    BY DEF IInv, TypeOK, Insert, Count
  <2>2. deleted' \subseteq Stored' /\ told' \subseteq Stored' /\ cut' \subseteq Stored'
        /\ decided' \subseteq Stored' \X Source
    BY <1>1 DEF IInv, TypeOK, Arrives, Insert, PlanLater, rest
  <2>3. planning' \subseteq Stored' \X Source
    BY <1>1 DEF IInv, TypeOK, Arrives, Insert, PlanLater
  <2>. QED
    BY <2>1, <2>2, <2>3 DEF IInv, TypeOK, Insert, Status, rest, feedback
<1>3. CountsFollow'
  BY <1>1, CountsArrive DEF IInv, Insert, rest
<1>4. TallyFollows'
  BY TallyStays DEF IInv, Insert, rest
<1>5. ApprovedReplyIsTold'
  <2>. SUFFICES ASSUME NEW d \in Comment, Due(d)' PROVE Accounted(d)'
    BY ToldIfAccounted
  <2>1. CASE d = c
    <3>1. <<c, src>> \in planning'
      BY <2>1 DEF IInv, TypeOK, Insert, PlanLater, Due, IsReply
    <3>. QED
      BY <2>1, <3>1 DEF Accounted
  <2>2. CASE d # c
    <3>1. Due(d)
      BY <1>1, <2>2 DEF IInv, TypeOK, Due, IsReply, Insert, Arrives, Live, Stored
    <3>2. Remembers
      BY DEF Remembers, Insert, PlanLater, rest
    <3>. QED
      BY <3>1, <3>2, AccountedStays, AccountedIfTold DEF IInv
  <2>. QED
    BY <2>1, <2>2
<1>6. PlannedOnce'
  <2>1. <<c, src>> \notin decided
    BY <1>1 DEF IInv, TypeOK, Arrives
  <2>. QED
    BY <2>1 DEF IInv, PlannedOnce, Insert, PlanLater
<1>. QED
  BY <1>2, <1>3, <1>4, <1>5, <1>6 DEF IInv

LEMMA WritingKeeps ==
    ASSUME IInv, ByVisitor \/ ByAkismet \/ \E c, p \in Comment : AdminReply(c, p),
           ~(\E c \in Comment, p \in Comment \cup {Root} : Ask(c, p)),
           ~(\E v \in Visitor, x \in Item : Vote(v, x)), ~(\E x \in Item : VoteUnnamed(x))
    PROVE  IInv'
<1>1. CASE \E c \in Comment, p \in Comment \cup {Root}, s \in Shelf : Create(c, p, s)
  BY <1>1, InsertKeeps DEF Create, Source
<1>2. CASE \E c, p \in Comment : AdminReply(c, p)
  BY <1>2, InsertKeeps DEF AdminReply, Shelf, Source
<1>3. CASE ByAkismet
  <2>. PICK c \in Comment, s \in Shelf : Answer(c, s)
    BY <1>3 DEF ByAkismet
  <2>1. parent[c] \in Comment \cup {Root}
    BY DEF IInv, TypeOK
  <2>. QED
    BY <2>1, InsertKeeps DEF Answer, Source
<1>. QED
  BY <1>1, <1>2, <1>3 DEF ByVisitor

LEMMA AskKeeps == ASSUME IInv, NEW c \in Comment, NEW p \in Comment \cup {Root}, Ask(c, p) PROVE IInv'
<1>1. c \notin Stored
  BY DEF Ask, Stored, Shelf
<1>2. \A d \in Comment : d # c => status'[d] = status[d] /\ parent'[d] = parent[d]
  BY DEF IInv, TypeOK, Ask
<1>3. Stays
  <2>1. \A d \in Comment : status'[d] \in Shelf <=> status[d] \in Shelf
    BY <1>1, <1>2 DEF IInv, TypeOK, Ask, Stored, Shelf
  <2>2. \A d \in Stored : parent'[d] = parent[d]
    BY <1>1, <1>2 DEF Stored
  <2>. QED
    BY <2>1, <2>2, Staying DEF Ask
<1>4. TypeOK'
  BY <1>3 DEF IInv, TypeOK, Ask, Stays, Status, counters, feedback, notice, rest
<1>5. CountsFollow' /\ TallyFollows'
  BY <1>3, CountsStay, TallyStays DEF IInv, Ask, rest
<1>6. ApprovedReplyIsTold' /\ PlannedOnce'
  <2>1. ASSUME NEW d \in Comment, Due(d)' PROVE Due(d)
    BY <1>1, <1>2, <1>3, <2>1 DEF Due, IsReply, Ask, Stays, Live, Stored
  <2>. QED
    BY <2>1, NoticesStay DEF Ask, rest
<1>. QED
  BY <1>4, <1>5, <1>6 DEF IInv

LEMMA ModerateKeeps == ASSUME IInv, NEW c \in Comment, NEW s \in Shelf, Moderate(c, s) PROVE IInv'
<1>1. Stays
  <2>1. \A d \in Comment : status'[d] \in Shelf <=> status[d] \in Shelf
    BY DEF IInv, TypeOK, Moderate, Stored
  <2>. QED
    BY <2>1, Staying DEF Moderate
<1>2. TypeOK'
  <2>1. planning' \subseteq Stored' \X Source
    BY <1>1 DEF IInv, TypeOK, Moderate, Stays, PlanLater, Source
  <2>. QED
    BY <1>1, <2>1 DEF IInv, TypeOK, Moderate, Stays, PlanLater, Status, counters, feedback, rest
<1>3. CountsFollow' /\ TallyFollows'
  BY <1>1, CountsStay, TallyStays DEF IInv, Moderate, rest
<1>4. ApprovedReplyIsTold'
  <2>. SUFFICES ASSUME NEW d \in Comment, Due(d)' PROVE Accounted(d)'
    BY ToldIfAccounted
  <2>1. CASE d = c /\ status[c] # "approved"
    <3>1. <<c, "moderated">> \in planning'
      BY <2>1 DEF IInv, TypeOK, Moderate, PlanLater, BecomesApproved, IsReply, Due
    <3>. QED
      BY <2>1, <3>1 DEF Accounted, Source
  <2>2. CASE status[d] = "approved"
    <3>1. Due(d)
      BY <1>1, <2>2 DEF Due, IsReply, Stays, Moderate
    <3>2. Remembers
      BY DEF Remembers, Moderate, PlanLater, rest
    <3>. QED
      BY <3>1, <3>2, AccountedStays, AccountedIfTold DEF IInv
  <2>3. CASE d # c /\ status[d] # "approved"
    BY <2>3 DEF IInv, TypeOK, Moderate, Due
  <2>. QED
    BY <2>1, <2>2, <2>3
<1>5. PlannedOnce'
  BY DEF IInv, PlannedOnce, Moderate, PlanLater
<1>. QED
  BY <1>2, <1>3, <1>4, <1>5 DEF IInv

LEMMA ModerateManyKeeps ==
    ASSUME IInv, NEW S \in SUBSET Comment, NEW s \in Shelf, ModerateMany(S, s)
    PROVE  IInv'
<1>1. Stays
  <2>1. \A d \in Comment : status'[d] \in Shelf <=> status[d] \in Shelf
    BY DEF ModerateMany, Live, Stored
  <2>. QED
    BY <2>1, Staying DEF ModerateMany
<1>2. TypeOK'
  <2>1. planning' \subseteq Stored' \X Source
    BY <1>1 DEF IInv, TypeOK, ModerateMany, Stays, PlanLater, Source, Live
  <2>. QED
    BY <1>1, <2>1 DEF IInv, TypeOK, ModerateMany, Stays, PlanLater, Status, Live, counters, feedback, rest
<1>3. CountsFollow' /\ TallyFollows'
  BY <1>1, CountsStay, TallyStays DEF IInv, ModerateMany, rest
<1>4. ApprovedReplyIsTold'
  <2>. SUFFICES ASSUME NEW d \in Comment, Due(d)' PROVE Accounted(d)'
    BY ToldIfAccounted
  <2>1. CASE d \in S
    <3>1. s = "approved" /\ IsReply(d)
      BY <2>1 DEF ModerateMany, Due, IsReply
    <3>2. <<d, "moderated">> \in planning'
      BY <2>1, <3>1 DEF ModerateMany, PlanLater
    <3>. QED
      BY <3>2 DEF Accounted, Source
  <2>2. CASE d \notin S
    <3>1. Due(d)
      BY <1>1, <2>2 DEF Due, IsReply, Stays, ModerateMany
    <3>2. Remembers
      BY DEF Remembers, ModerateMany, PlanLater, rest
    <3>. QED
      BY <3>1, <3>2, AccountedStays, AccountedIfTold DEF IInv
  <2>. QED
    BY <2>1, <2>2
<1>5. PlannedOnce'
  BY DEF IInv, PlannedOnce, ModerateMany, PlanLater
<1>. QED
  BY <1>2, <1>3, <1>4, <1>5 DEF IInv

-----------------------------------------------------------------------------
(* The planner, after the audit log.                                       *)

LEMMA PlanKeeps == ASSUME IInv, NEW c \in Comment, NEW src \in Source, Plan(c, src) PROVE IInv'
<1>1. Stays
  BY Staying DEF Plan, tree
<1>2. TypeOK'
  <2>1. c \in Stored
    BY DEF IInv, TypeOK, Plan
  <2>2. planning' \subseteq Stored' \X Source
    BY <1>1 DEF IInv, TypeOK, Plan, Stays
  <2>3. told' \subseteq Stored' /\ decided' \subseteq Stored' \X Source
    BY <1>1, <2>1 DEF IInv, TypeOK, Plan, Stays
  <2>. QED
    BY <1>1, <2>2, <2>3 DEF IInv, TypeOK, Plan, Stays, tree, counters, feedback, rest
<1>3. CountsFollow' /\ TallyFollows'
  BY <1>1, CountsStay, TallyStays DEF IInv, Plan, rest
<1>4. ApprovedReplyIsTold'
  <2>. SUFFICES ASSUME NEW d \in Comment, Due(d)' PROVE Accounted(d)'
    BY ToldIfAccounted
  <2>1. Due(d) /\ Accounted(d)
    BY <1>1, AccountedIfTold DEF IInv, Due, IsReply, Stays, Plan, tree
  <2>2. told \subseteq told' /\ cut \subseteq cut' /\ decided \subseteq decided'
    BY DEF Plan, rest
  <2>3. CASE d = c
    <3>1. Announced(c) /\ c \notin deleted
      BY <2>1, <2>3 DEF Due, Announced, Live
    <3>2. CASE <<c, src>> \in decided
      <4>1. src = "moderated"
        BY <3>2 DEF IInv, PlannedOnce, Plan, Source
      <4>. QED
        BY <2>2, <2>3, <3>2, <4>1 DEF Accounted, Overtaken
    <3>3. CASE <<c, src>> \notin decided
      BY <2>3, <3>1, <3>3 DEF Plan, Decided, Accounted
    <3>. QED
      BY <3>2, <3>3
  <2>4. CASE d # c
    <3>1. \A q \in Source : <<d, q>> \in planning => <<d, q>> \in planning'
      BY <2>4 DEF Plan
    <3>. QED
      BY <2>1, <2>2, <3>1 DEF Accounted, Overtaken
  <2>. QED
    BY <2>3, <2>4
<1>5. PlannedOnce'
  <2>. SUFFICES ASSUME NEW d \in Comment, NEW q \in Source \ {"moderated"}, <<d, q>> \in planning'
                PROVE  <<d, q>> \notin decided'
    BY DEF PlannedOnce
  <2>1. <<d, q>> \notin decided /\ <<d, q>> # <<c, src>>
    BY DEF IInv, PlannedOnce, Plan
  <2>. QED
    BY <2>1 DEF Plan
<1>. QED
  BY <1>2, <1>3, <1>4, <1>5 DEF IInv

-----------------------------------------------------------------------------
(* Comments that go, with their counts.                                    *)

LEMMA Leaving ==
    ASSUME NEW S, deleted' = deleted \cup S, \A d \in Comment : status'[d] \in Shelf <=> status[d] \in Shelf,
           parent' = parent
    PROVE  /\ Stored' = Stored /\ Live' = Live \ S /\ LiveRoots' = LiveRoots \ S
           /\ \A q \in Comment : Answers(q)' = Answers(q) \ S
<1>1. Stored' = Stored /\ Live' = Live \ S
  BY DEF Stored, Live
<1>. QED
  BY <1>1 DEF LiveRoots, Answers, Live

LEMMA EraseKeeps ==
    ASSUME IInv, NEW S \in SUBSET Live, Erase(S), UNCHANGED <<status, parent, feedback, notice, rest>>
    PROVE  IInv'
<1>1. /\ Stored' = Stored /\ Live' = Live \ S /\ LiveRoots' = LiveRoots \ S
      /\ \A q \in Comment : Answers(q)' = Answers(q) \ S
  BY Leaving DEF Erase
<1>2. crashes \in Nat /\ S = S \cap Live
  BY ThreadAssumption DEF IInv, TypeOK
<1>3. total' \in Nat /\ Near(total', Live', crashes)
  BY <1>1, <1>2, Finite, NearDrop DEF IInv, TypeOK, CountsFollow, Erase
<1>4. roots' \in Nat /\ Near(roots', LiveRoots', crashes)
  BY <1>1, <1>2, Finite, NearDrop DEF IInv, TypeOK, CountsFollow, Erase
<1>5. ASSUME NEW c \in Comment PROVE replies'[c] \in Nat /\ Near(replies'[c], Answers(c)', crashes)
  <2>1. replies'[c] = Less(replies[c], Cardinality(S \cap Answers(c)))
    BY DEF Erase
  <2>2. IsFiniteSet(Answers(c)) /\ replies[c] \in Nat /\ Near(replies[c], Answers(c), crashes)
    BY Finite DEF IInv, TypeOK, CountsFollow
  <2>3. replies'[c] \in Nat /\ Near(replies'[c], Answers(c) \ S, crashes)
    BY <1>2, <2>1, <2>2, NearDrop
  <2>. QED
    BY <1>1, <2>3
<1>6. TypeOK'
  <2>1. replies' \in [Comment -> Nat]
    BY <1>5 DEF Erase
  <2>2. deleted' \subseteq Stored'
    BY <1>1 DEF IInv, TypeOK, Erase, Live
  <2>. QED
    BY <1>1, <1>3, <1>4, <2>1, <2>2 DEF IInv, TypeOK, feedback, notice, rest
<1>7. CountsFollow'
  BY <1>3, <1>4, <1>5 DEF CountsFollow, rest
<1>8. TallyFollows'
  BY TallyStays DEF IInv, rest
<1>9. ApprovedReplyIsTold' /\ PlannedOnce'
  <2>1. ASSUME NEW d \in Comment, Due(d)' PROVE Due(d)
    BY <1>1, <2>1 DEF Due, IsReply, Erase
  <2>. QED
    BY <2>1, NoticesStay DEF rest
<1>. QED
  BY <1>6, <1>7, <1>8, <1>9 DEF IInv

-----------------------------------------------------------------------------
(* Votes and likes.                                                        *)

LEMMA VoteKeeps == ASSUME IInv, NEW v \in Visitor, NEW x \in Item, Vote(v, x) PROVE IInv'
<1>1. Stays
  BY Staying DEF Vote, tree
<1>2. TypeOK'
  BY <1>1 DEF IInv, TypeOK, Vote, Stays, tree, counters, notice, rest
<1>3. CountsFollow'
  BY <1>1, CountsStay DEF IInv, Vote, rest
<1>4. TallyFollows'
  <2>. SUFFICES ASSUME NEW y \in Item
                PROVE  /\ tally'[y] <= Cardinality(voters'[y]) + unnamed'[y]
                       /\ Cardinality(voters'[y]) + unnamed'[y] <= tally'[y] + crashes'
    BY DEF TallyFollows
  <2>1. /\ Cardinality(voters[y]) \in Nat /\ tally[y] \in Nat /\ unnamed[y] \in Nat /\ crashes \in Nat
        /\ unnamed' = unnamed /\ crashes' = crashes
        /\ tally[y] <= Cardinality(voters[y]) + unnamed[y]
        /\ Cardinality(voters[y]) + unnamed[y] <= tally[y] + crashes
    BY Finite, FS_CardinalityType, ThreadAssumption DEF IInv, TypeOK, TallyFollows, Vote, rest
  <2>2. CASE y = x
    <3>1. voters'[y] = voters[y] \cup {v} /\ tally'[y] = tally[y] + 1
      BY <2>2 DEF IInv, TypeOK, Vote
    <3>2. Cardinality(voters[y] \cup {v}) = Cardinality(voters[y]) + 1
      BY <2>2, Finite, FS_AddElement DEF IInv, Vote
    <3>. QED
      BY <2>1, <3>1, <3>2
  <2>3. CASE y # x
    <3>1. voters'[y] = voters[y] /\ tally'[y] = tally[y]
      BY <2>3 DEF IInv, TypeOK, Vote
    <3>. QED
      BY <2>1, <3>1
  <2>. QED
    BY <2>2, <2>3
<1>5. ApprovedReplyIsTold' /\ PlannedOnce'
  <2>1. ASSUME NEW d \in Comment, Due(d)' PROVE Due(d)
    BY <1>1, <2>1 DEF Due, IsReply, Stays, Vote, tree
  <2>. QED
    BY <2>1, NoticesStay DEF Vote, rest
<1>. QED
  BY <1>2, <1>3, <1>4, <1>5 DEF IInv

LEMMA VoteUnnamedKeeps == ASSUME IInv, NEW x \in Item, VoteUnnamed(x) PROVE IInv'
<1>1. Stays
  BY Staying DEF VoteUnnamed, tree
<1>2. TypeOK'
  BY <1>1 DEF IInv, TypeOK, VoteUnnamed, Stays, tree, counters, notice, rest
<1>3. CountsFollow'
  BY <1>1, CountsStay DEF IInv, VoteUnnamed, rest
<1>4. TallyFollows'
  <2>. SUFFICES ASSUME NEW y \in Item
                PROVE  /\ tally'[y] <= Cardinality(voters[y]) + unnamed'[y]
                       /\ Cardinality(voters[y]) + unnamed'[y] <= tally'[y] + crashes
    BY DEF TallyFollows, VoteUnnamed, rest
  <2>1. /\ Cardinality(voters[y]) \in Nat /\ tally[y] \in Nat /\ unnamed[y] \in Nat /\ crashes \in Nat
        /\ tally[y] <= Cardinality(voters[y]) + unnamed[y]
        /\ Cardinality(voters[y]) + unnamed[y] <= tally[y] + crashes
    BY Finite, FS_CardinalityType, ThreadAssumption DEF IInv, TypeOK, TallyFollows
  <2>2. \/ tally'[y] = tally[y] /\ unnamed'[y] = unnamed[y]
        \/ tally'[y] = tally[y] + 1 /\ unnamed'[y] = unnamed[y] + 1
    BY DEF IInv, TypeOK, VoteUnnamed
  <2>. QED
    BY <2>1, <2>2
<1>5. ApprovedReplyIsTold' /\ PlannedOnce'
  <2>1. ASSUME NEW d \in Comment, Due(d)' PROVE Due(d)
    BY <1>1, <2>1 DEF Due, IsReply, Stays, VoteUnnamed, tree
  <2>. QED
    BY <2>1, NoticesStay DEF VoteUnnamed, rest
<1>. QED
  BY <1>2, <1>3, <1>4, <1>5 DEF IInv

-----------------------------------------------------------------------------
(* Crashes.                                                                *)

LEMMA Downs ==
    ASSUME TypeOK, NEW C \in SUBSET Comment, Down(C)
    PROVE  /\ crashes' = crashes + 1 /\ crashes' \in 0..MaxCrashes /\ crashes \in Nat
           /\ planning' = {} /\ decided' = decided /\ told' = told
           /\ cut' = cut \cup {c \in Comment : \E src \in Source : <<c, src>> \in planning} \cup C
           /\ cut' \subseteq Stored \cup C
<1>1. crashes' = crashes + 1 /\ crashes' \in 0..MaxCrashes /\ crashes \in Nat
  BY ThreadAssumption DEF TypeOK, Down
<1>2. planning \subseteq Stored \X Source /\ cut \subseteq Stored
  BY DEF TypeOK
<1>3. \A c \in Comment, src \in Source : <<c, src>> \in planning => c \in Stored
  BY <1>2
<1>. QED
  BY <1>1, <1>2, <1>3 DEF Down

LEMMA DownAccounts ==
    ASSUME IInv, NEW C \in SUBSET Comment, Down(C), NEW c \in Comment, Due(c) \/ c \in C
    PROVE  Accounted(c)'
<1>1. cut' = cut \cup {d \in Comment : \E src \in Source : <<d, src>> \in planning} \cup C
      /\ told' = told /\ decided' = decided
  BY DEF Down
<1>2. CASE c \in C
  BY <1>1, <1>2 DEF Accounted
<1>3. CASE Due(c)
  <2>1. Accounted(c)
    BY <1>3, AccountedIfTold DEF IInv
  <2>. QED
    BY <1>1, <2>1 DEF Accounted, Overtaken
<1>. QED
  BY <1>2, <1>3

LEMMA DownNotices ==
    ASSUME IInv, NEW C \in SUBSET Comment, Down(C), \A c \in Comment : Due(c)' => Due(c) \/ c \in C
    PROVE  ApprovedReplyIsTold' /\ PlannedOnce'
<1>1. ApprovedReplyIsTold'
  BY DownAccounts, ToldIfAccounted
<1>. QED
  BY <1>1 DEF PlannedOnce, Down

LEMMA UnaskedStays ==
    ASSUME TypeOK
    PROVE  /\ Unasked(status) \in [Comment -> Status]
           /\ \A d \in Comment : Unasked(status)[d] \in Shelf <=> status[d] \in Shelf
           /\ \A d \in Stored : Unasked(status)[d] = status[d]
BY DEF TypeOK, Unasked, Status, Shelf, Stored

LEMMA CrashIdleKeeps == ASSUME IInv, CrashIdle PROVE IInv'
<1>1. Stays
  BY UnaskedStays, Staying DEF IInv, CrashIdle
<1>2. TypeOK'
  BY <1>1, Downs, UnaskedStays DEF IInv, TypeOK, CrashIdle, Stays, counters, feedback
<1>3. CountsFollow' /\ TallyFollows'
  BY <1>1, Downs, CountsStay, TallyStays DEF IInv, CrashIdle
<1>4. ApprovedReplyIsTold' /\ PlannedOnce'
  <2>1. ASSUME NEW d \in Comment, Due(d)' PROVE Due(d)
    BY <1>1, <2>1, UnaskedStays DEF IInv, Due, IsReply, Stays, CrashIdle, Live
  <2>. QED
    BY <2>1, DownNotices DEF CrashIdle
<1>. QED
  BY <1>2, <1>3, <1>4 DEF IInv

LEMMA CrashInInsertKeeps ==
    ASSUME IInv, NEW c \in Comment, NEW p \in Comment \cup {Root}, NEW s \in Shelf, CrashInInsert(c, p, s)
    PROVE  IInv'
<1>1. status[c] \in {"absent", "asked"} /\ crashes' = crashes + 1 /\ crashes \in Nat
  BY Downs DEF IInv, CrashInInsert
<1>2. Arrives(c, p)
  BY <1>1, Arrival DEF IInv, CrashInInsert
<1>3. c \notin Live /\ c \notin LiveRoots /\ \A d \in Comment : c \notin Answers(d)
  BY <1>2 DEF Arrives, Live, LiveRoots, Answers
<1>4. TypeOK'
  <2>1. total' \in Nat /\ roots' \in Nat /\ replies' \in [Comment -> Nat]
    BY DEF IInv, TypeOK, CrashInInsert, Count, counters
  <2>2. deleted' \subseteq Stored' /\ told' \subseteq Stored' /\ cut' \subseteq Stored'
        /\ planning' = {} /\ decided' \subseteq Stored' \X Source
    BY <1>2, Downs DEF IInv, TypeOK, Arrives, CrashInInsert
  <2>3. status' \in [Comment -> Status]
    BY UnaskedStays DEF IInv, CrashInInsert, Status
  <2>. QED
    BY <2>1, <2>2, <2>3, Downs DEF IInv, TypeOK, CrashInInsert, feedback
<1>5. CountsFollow'
  <2>1. CASE Count(p)
    BY <1>1, <1>2, <2>1, CountsArrive DEF IInv
  <2>2. CASE UNCHANGED <<total, roots>> /\ replies' \in {replies, [d \in Comment |-> IF d = p THEN replies[d] + 1 ELSE replies[d]]}
    <3>1. Near(total', Live', crashes')
      BY <1>1, <1>2, <1>3, <2>2, Finite, NearMiss DEF IInv, TypeOK, CountsFollow, Arrives
    <3>2. Near(roots', LiveRoots', crashes')
      BY <1>1, <1>2, <1>3, <2>2, Finite, NearMiss, NearSlack DEF IInv, TypeOK, CountsFollow, Arrives
    <3>3. ASSUME NEW d \in Comment PROVE Near(replies'[d], Answers(d)', crashes')
      <4>1. Near(replies[d], Answers(d), crashes) /\ replies[d] \in Nat /\ IsFiniteSet(Answers(d)) /\ c \notin Answers(d)
        BY <1>3, Finite DEF IInv, TypeOK, CountsFollow
      <4>2. CASE d # p
        <5>1. replies'[d] = replies[d] /\ Answers(d)' = Answers(d)
          BY <1>2, <2>2, <4>2 DEF Arrives
        <5>. QED
          BY <1>1, <4>1, <5>1, NearSlack
      <4>3. CASE d = p /\ replies' = replies
        <5>1. Answers(d)' = Answers(d) \cup {c}
          BY <1>2, <4>3 DEF Arrives
        <5>. QED
          BY <1>1, <4>1, <4>3, <5>1, NearMiss
      <4>4. CASE d = p /\ replies' # replies
        <5>1. replies'[d] = replies[d] + 1 /\ Answers(d)' = Answers(d) \cup {c}
          BY <1>2, <2>2, <4>4 DEF Arrives
        <5>2. Near(replies[d] + 1, Answers(d) \cup {c}, crashes)
          BY <1>1, <4>1, NearAdd
        <5>3. IsFiniteSet(Answers(d) \cup {c})
          BY <4>1, FS_AddElement
        <5>. QED
          BY <1>1, <4>1, <5>1, <5>2, <5>3, NearSlack
      <4>. QED
        BY <4>2, <4>3, <4>4
    <3>. QED
      BY <3>1, <3>2, <3>3 DEF CountsFollow
  <2>. QED
    BY <2>1, <2>2 DEF CrashInInsert, counters
<1>6. TallyFollows'
  BY <1>1, TallyStays DEF IInv, CrashInInsert
<1>7. ApprovedReplyIsTold' /\ PlannedOnce'
  <2>. DEFINE C == {d \in {c} : s = "approved" /\ p # Root}
  <2>1. ASSUME NEW d \in Comment, Due(d)' PROVE Due(d) \/ d \in C
    <3>1. CASE d = c
      <4>1. parent'[c] = p /\ status'[c] = s
        BY UnaskedStays DEF IInv, TypeOK, CrashInInsert
      <4>. QED
        BY <2>1, <3>1, <4>1 DEF Due, IsReply
    <3>2. CASE d # c
      <4>1. d \in Live /\ d \in Stored
        BY <1>2, <2>1, <3>2 DEF Arrives, Live, Due
      <4>2. status[d] = "approved" /\ parent'[d] = parent[d]
        BY <2>1, <3>2, <4>1, UnaskedStays DEF IInv, TypeOK, CrashInInsert, Stored, Due
      <4>. QED
        BY <2>1, <4>1, <4>2 DEF Due, IsReply, CrashInInsert
    <3>. QED
      BY <3>1, <3>2
  <2>. QED
    BY <2>1, DownNotices DEF CrashInInsert
<1>. QED
  BY <1>4, <1>5, <1>6, <1>7 DEF IInv

LEMMA CrashInEraseKeeps ==
    ASSUME IInv, NEW S \in SUBSET Comment, NEW c \in Comment, CrashInErase(S, c)
    PROVE  IInv'
<1>. DEFINE G == S \cup {c}
            R == S \cup {d \in {c} : IsReply(c)}
<1>1. S \subseteq Live /\ c \in Live /\ c \notin S
  BY DEF CrashInErase, InTrash
<1>2. /\ Stored' = Stored /\ Live' = Live \ G /\ LiveRoots' = LiveRoots \ G
      /\ \A q \in Comment : Answers(q)' = Answers(q) \ G
  <2>1. deleted' = deleted \cup G
    BY DEF CrashInErase
  <2>2. \A d \in Comment : status'[d] \in Shelf <=> status[d] \in Shelf
    BY UnaskedStays DEF IInv, CrashInErase
  <2>. QED
    BY <2>1, <2>2, Leaving DEF CrashInErase
<1>3. crashes' = crashes + 1 /\ crashes' \in 0..MaxCrashes /\ crashes \in Nat
  BY Downs DEF IInv, CrashInErase
<1>4. total' \in Nat /\ Near(total', Live', crashes')
  <2>1. IsFiniteSet(Live) /\ total \in Nat /\ Near(total, Live, crashes) /\ S \cap Live = S
    BY <1>1, Finite DEF IInv, TypeOK, CountsFollow
  <2>2. total' = Less(total, Cardinality(S \cap Live))
    BY <2>1 DEF CrashInErase
  <2>. QED
    BY <1>2, <1>3, <2>1, <2>2, NearDrop, NearDropMiss
<1>5. roots' \in Nat /\ Near(roots', LiveRoots', crashes')
  <2>1. IsFiniteSet(LiveRoots) /\ roots \in Nat /\ Near(roots, LiveRoots, crashes)
    BY Finite DEF IInv, TypeOK, CountsFollow
  <2>2. roots' = Less(roots, Cardinality(S \cap LiveRoots))
    BY DEF CrashInErase
  <2>. QED
    BY <1>2, <1>3, <2>1, <2>2, NearDrop, NearDropMiss
<1>6. ASSUME NEW d \in Comment PROVE replies'[d] \in Nat /\ Near(replies'[d], Answers(d)', crashes')
  <2>1. IsFiniteSet(Answers(d)) /\ replies[d] \in Nat /\ Near(replies[d], Answers(d), crashes)
    BY Finite DEF IInv, TypeOK, CountsFollow
  <2>2. CASE replies'[d] = Less(replies[d], Cardinality(S \cap Answers(d)))
    <3>1. replies'[d] \in Nat
      BY <1>3, <2>1, <2>2, NearDrop
    <3>2. Near(replies'[d], Answers(d) \ G, crashes + 1)
      BY <1>3, <2>1, <2>2, NearDropMiss
    <3>. QED
      BY <1>2, <1>3, <3>1, <3>2
  <2>3. CASE replies'[d] = Less(replies[d], Cardinality(R \cap Answers(d)))
    <3>1. Answers(d) \ (R \cup {c}) = Answers(d) \ G
      OBVIOUS
    <3>2. replies'[d] \in Nat
      BY <1>3, <2>1, <2>3, NearDrop
    <3>3. Near(replies'[d], Answers(d) \ (R \cup {c}), crashes + 1)
      BY <1>3, <2>1, <2>3, NearDropMiss
    <3>. QED
      BY <1>2, <1>3, <3>1, <3>2, <3>3
  <2>. QED
    BY <2>2, <2>3 DEF CrashInErase
<1>7. TypeOK'
  <2>1. replies' \in [Comment -> Nat]
    <3>1. replies' = [d \in Comment |-> replies'[d]]
      BY DEF CrashInErase
    <3>. QED
      BY <1>6, <3>1
  <2>2. deleted' \subseteq Stored' /\ status' \in [Comment -> Status]
    BY <1>1, <1>2, UnaskedStays DEF IInv, TypeOK, CrashInErase, Live
  <2>3. /\ planning' \subseteq Stored' \X Source /\ decided' \subseteq Stored' \X Source
        /\ told' \subseteq Stored' /\ cut' \subseteq Stored'
    BY <1>2, Downs DEF IInv, TypeOK, CrashInErase
  <2>. QED
    BY <1>2, <1>3, <1>4, <1>5, <2>1, <2>2, <2>3 DEF IInv, TypeOK, CrashInErase, feedback
<1>8. CountsFollow'
  BY <1>4, <1>5, <1>6 DEF CountsFollow
<1>9. TallyFollows'
  BY <1>3, TallyStays DEF IInv, CrashInErase
<1>10. ApprovedReplyIsTold' /\ PlannedOnce'
  <2>1. ASSUME NEW d \in Comment, Due(d)' PROVE Due(d)
    BY <1>2, <2>1, UnaskedStays DEF IInv, Due, IsReply, CrashInErase, Live
  <2>. QED
    BY <2>1, DownNotices DEF CrashInErase
<1>. QED
  BY <1>7, <1>8, <1>9, <1>10 DEF IInv

LEMMA CrashInVoteKeeps == ASSUME IInv, NEW v \in Visitor, NEW x \in Item, CrashInVote(v, x) PROVE IInv'
<1>1. Stays
  BY UnaskedStays, Staying DEF IInv, CrashInVote
<1>2. TypeOK'
  BY <1>1, Downs, UnaskedStays DEF IInv, TypeOK, CrashInVote, Stays, counters
<1>3. CountsFollow'
  BY <1>1, Downs, CountsStay DEF IInv, CrashInVote
<1>4. TallyFollows'
  <2>. SUFFICES ASSUME NEW y \in Item
                PROVE  /\ tally[y] <= Cardinality(voters'[y]) + unnamed[y]
                       /\ Cardinality(voters'[y]) + unnamed[y] <= tally[y] + crashes'
    BY DEF TallyFollows, CrashInVote
  <2>1. /\ Cardinality(voters[y]) \in Nat /\ tally[y] \in Nat /\ unnamed[y] \in Nat
        /\ crashes \in Nat /\ crashes' = crashes + 1
        /\ tally[y] <= Cardinality(voters[y]) + unnamed[y]
        /\ Cardinality(voters[y]) + unnamed[y] <= tally[y] + crashes
    BY Finite, FS_CardinalityType, Downs DEF IInv, TypeOK, TallyFollows, CrashInVote
  <2>2. CASE y = x
    <3>1. voters'[y] = voters[y] \cup {v}
      BY <2>2 DEF IInv, TypeOK, CrashInVote
    <3>2. Cardinality(voters[y] \cup {v}) = Cardinality(voters[y]) + 1
      BY <2>2, Finite, FS_AddElement DEF IInv, CrashInVote
    <3>. QED
      BY <2>1, <3>1, <3>2
  <2>3. CASE y # x
    <3>1. voters'[y] = voters[y]
      BY <2>3 DEF IInv, TypeOK, CrashInVote
    <3>. QED
      BY <2>1, <3>1
  <2>. QED
    BY <2>2, <2>3
<1>5. ApprovedReplyIsTold' /\ PlannedOnce'
  <2>1. ASSUME NEW d \in Comment, Due(d)' PROVE Due(d)
    BY <1>1, <2>1, UnaskedStays DEF IInv, Due, IsReply, Stays, CrashInVote, Live
  <2>. QED
    BY <2>1, DownNotices DEF CrashInVote
<1>. QED
  BY <1>2, <1>3, <1>4, <1>5 DEF IInv

-----------------------------------------------------------------------------
LEMMA NextKeeps == ASSUME IInv, Next PROVE IInv'
<1>1. CASE \E c \in Comment, p \in Comment \cup {Root} : Ask(c, p)
  BY <1>1, AskKeeps
<1>2. CASE \E v \in Visitor, x \in Item : Vote(v, x)
  BY <1>2, VoteKeeps
<1>6. CASE \E x \in Item : VoteUnnamed(x)
  BY <1>6, VoteUnnamedKeeps
<1>3. CASE ByVisitor \/ ByAkismet \/ \E c, p \in Comment : AdminReply(c, p)
  BY <1>1, <1>2, <1>3, <1>6, WritingKeeps
<1>4. CASE ByAdmin
  <2>1. CASE \E c \in Comment : DeleteForever(c)
    BY <2>1, EraseKeeps DEF DeleteForever, InTrash
  <2>2. CASE ClearTrash
    <3>1. InTrash \subseteq Live
      BY DEF InTrash
    <3>. QED
      BY <2>2, <3>1, EraseKeeps DEF ClearTrash
  <2>. QED
    BY <1>3, <1>4, <2>1, <2>2, ModerateKeeps, ModerateManyKeeps DEF ByAdmin
<1>5. CASE Crash
  BY <1>5, CrashIdleKeeps, CrashInInsertKeeps, CrashInEraseKeeps, CrashInVoteKeeps DEF Crash
<1>. QED
  BY <1>3, <1>4, <1>5, PlanKeeps DEF Next, ByPlanner

(* The counts, the tallies and the announcements are kept by every         *)
(* operation and lose at most one to each crash.                           *)
THEOREM Invariance == Spec => []IInv
<1>1. IInv /\ UNCHANGED vars => IInv'
  BY DEF IInv, TypeOK, CountsFollow, TallyFollows, ApprovedReplyIsTold, PlannedOnce, Stored, Live,
     LiveRoots, Answers, IsReply, Near, Accounted, Overtaken, vars, tree, counters, feedback, notice, rest
<1>. QED
  BY InitIInv, NextKeeps, <1>1, PTL DEF Spec

(* Comments, counters and votes keep their types.                          *)
THEOREM TypeCorrect == Spec => []TypeOK
BY Invariance, PTL DEF IInv

(* The cached counts are off by one at most for each crash, whatever       *)
(* comments are written, moderated and deleted in whatever order.          *)
THEOREM CountsAreKept == Spec => []CountsFollow
BY Invariance, PTL DEF IInv

(* Under a name nobody's vote or like is counted twice, and a crash loses  *)
(* one at most, whatever is counted without a name in between.             *)
THEOREM TallyIsKept == Spec => []TallyFollows
BY Invariance, PTL DEF IInv

(* Every approved reply under a live parent was announced or is about to   *)
(* be, a crash prevented it, or a moderation of it was overtaken.          *)
THEOREM RepliesAreTold == Spec => []ApprovedReplyIsTold
BY Invariance, PTL DEF IInv
=============================================================================
