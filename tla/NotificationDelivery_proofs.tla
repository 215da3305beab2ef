-------------------- MODULE NotificationDelivery_proofs ---------------------
(***************************************************************************)
(* Proofs about NotificationDelivery for every number of events and rows,  *)
(* claim and attempt limit, threshold and bound.                           *)
(***************************************************************************)
EXTENDS NotificationDelivery, TLAPS

Flag(b) == IF b THEN 1 ELSE 0

\* A row not inserted yet is nobody's; a run not created yet owns none.
Rows ==
    /\ \A d \in Delivery : d > made =>
        /\ owner[d] = Nothing /\ dstat[d] = "queued"
        /\ sends[d] = 0
    /\ \A e \in Event : run[e] = "absent" => DeliveriesOf(e) = {}

\* What the worker knows: the record it sends is none of those that wait, it
\* lists that run's rows, and an answer is about a listed row not yet sent.
Attempt ==
    /\ batch \cup {current} \subseteq {e \in Event : run[e] # "absent"} \cup {Nothing}
    /\ current \notin batch
    /\ listed \subseteq DeliveriesOf(current)
    /\ current = Nothing => listed = {}
    /\ \A d \in Delivery : outcome[d] # "none" => d \in listed /\ dstat[d] # "sent"
    /\ current # Nothing => feedback = "none"
    /\ ~up => batch = {} /\ current = Nothing

\* The provider's copies are those with an excuse and the one on record.
Tally ==
    \A d \in Delivery :
        accepted[d] = excused[d] + Flag(dstat[d] = "sent" \/ outcome[d] = "accepted")

\* A reply's run and its delivery are created together.
Pairs ==
    /\ \A e \in Replies : run[e] # "absent" => DeliveriesOf(e) # {}
    /\ current \in Replies => listed = DeliveriesOf(current)

\* A run can be tried once more for each reason it was given.
Chances(e) == Flag(run[e] \in {"queued", "retrying"}) + Flag(e \in batch)
Reasons(e) == 1 + byHand[e] + granted[e]
Counted ==
    /\ \A e \in Event : Chances(e) <= Reasons(e)
    /\ \A d \in Delivery : owner[d] \in Event =>
        sends[d] + Flag(d \in Todo) + Chances(owner[d]) <= Reasons(owner[d])

\* Each automatic retry raised the row's count, the snapshot's too.
GrantsCounted ==
    \A e \in Event :
        /\ granted[e] <= attempts[e]
        /\ e \in batch \cup {current} => granted[e] <= seen[e]
        /\ granted[e] <= AttemptsOf(e) - 1

\* Every point of the score, and every one still owed, is a rejection.
Earned ==
    /\ score + Flag(feedback = "failure")
             + Flag(current \in Replies /\ Answers("rejected")) <= bounces
    /\ SuppressionEarned

IInv ==
    /\ TypeOK /\ Rows /\ Attempt /\ Tally /\ Pairs /\ Counted /\ GrantsCounted /\ Earned
    /\ OneMailPerReply /\ SucceededMeansSent

-----------------------------------------------------------------------------
LEMMA Names == Nothing \notin Event
BY DeliveryAssumption DEF Nothing

LEMMA AttemptsPositive == \A e \in Event : AttemptsOf(e) \in Nat \ {0}
BY DeliveryAssumption DEF AttemptsOf

\* The invariant holds of an empty queue.
LEMMA InitIInv == Init => IInv
<1> SUFFICES ASSUME Init PROVE IInv
  OBVIOUS
<1> USE DeliveryAssumption, Names DEF Init, DeliveriesOf, Flag
<1>1. TypeOK
  <2>1. /\ run \in [Event -> RunStatus] /\ attempts \in [Event -> Nat]
        /\ decided \subseteq Replies \X Source /\ made \in 0..MaxDeliveries
        /\ owner \in [Delivery -> Event \cup {Nothing}]
        /\ dstat \in [Delivery -> {"queued", "sent", "failed"}]
    BY DEF RunStatus
  <2>2. /\ batch \subseteq Event /\ seen \in [Event -> Nat]
        /\ current \in Event \cup {Nothing} /\ listed \subseteq Delivery
        /\ outcome \in [Delivery -> Outcome]
    BY DEF Outcome
  <2>3. /\ accepted \in [Delivery -> Nat] /\ excused \in [Delivery -> Nat]
        /\ sends \in [Delivery -> Nat] /\ byHand \in [Event -> Nat]
        /\ granted \in [Event -> Nat] /\ bounces \in Nat
    OBVIOUS
  <2>4. /\ feedback \in {"none", "success", "failure"} /\ score \in Nat
        /\ suppressed \in BOOLEAN /\ up \in BOOLEAN
        /\ plans \in Nat /\ admin \in Nat /\ crashes \in Nat
    OBVIOUS
  <2> QED
    BY <2>1, <2>2, <2>3, <2>4 DEF TypeOK
<1>2. Rows /\ Attempt /\ Tally
  BY DEF Rows, Attempt, Tally, Delivery
<1>3. Pairs /\ OneMailPerReply /\ SucceededMeansSent
  BY DEF Pairs, OneMailPerReply, SucceededMeansSent, Event
<1>4. Counted
  BY DEF Counted, Chances, Reasons
<1>5. GrantsCounted
  BY AttemptsPositive DEF GrantsCounted
<1>6. Earned
  BY DEF Earned, SuppressionEarned, Event
<1> QED
  BY <1>1, <1>2, <1>3, <1>4, <1>5, <1>6 DEF IInv

-----------------------------------------------------------------------------
(* One step, by the variables it writes.                                   *)

\* The planners.
PlanStep ==
    \/ \E e \in Replies, src \in Source : PlanReply(e, src)
    \/ \E e \in Externals : PlanExternal(e)
    \/ \E e \in Digests : PlanDigest(e)

\* What a planner does to the tables: nothing but a decision, or a run for an
\* event, and with it perhaps the next row.
LEMMA PlanEffect ==
    ASSUME TypeOK, PlanStep
    PROVE  /\ UNCHANGED <<attempts, worker, address, up, admin, crashes, provider, asked>>
           /\ plans' \in Nat /\ decided' \subseteq Replies \X Source
           /\ \/ UNCHANGED <<run, rows>>
              \/ \E e \in Event : FindOrQueue(e) /\ (AddDelivery(e) \/ UNCHANGED rows)
<1>1. ASSUME NEW e \in Replies, NEW src \in Source, PlanReply(e, src)
      PROVE  /\ UNCHANGED <<attempts, worker, address, up, admin, crashes, provider, asked>>
             /\ plans' \in Nat /\ decided' \subseteq Replies \X Source
             /\ \/ UNCHANGED <<run, rows>>
                \/ FindOrQueue(e) /\ AddDelivery(e)
  BY <1>1 DEF PlanReply, Planning, TypeOK
<1>2. ASSUME NEW e \in Externals, PlanExternal(e)
      PROVE  /\ UNCHANGED <<attempts, worker, address, up, admin, crashes, provider, asked>>
             /\ plans' \in Nat /\ decided' \subseteq Replies \X Source
             /\ FindOrQueue(e) /\ AddDelivery(e)
  BY <1>2 DEF PlanExternal, Planning, TypeOK
<1>3. ASSUME NEW e \in Digests, PlanDigest(e)
      PROVE  /\ UNCHANGED <<attempts, worker, address, up, admin, crashes, provider, asked>>
             /\ plans' \in Nat /\ decided' \subseteq Replies \X Source
             /\ FindOrQueue(e) /\ UNCHANGED rows
  BY <1>3 DEF PlanDigest, Planning, TypeOK
<1> QED
  BY <1>1, <1>2, <1>3 DEF PlanStep, Event

\* Every step is one of these.
LEMMA Cases ==
    ASSUME [Next]_vars
    PROVE  \/ PlanStep
           \/ \E e \in Event : CrashInPlan(e)
           \/ Claim
           \/ \E e \in Event : Start(e)
           \/ \E d \in Delivery : Accept(d) \/ AcceptUnheard(d) \/ Refuse(d)
           \/ Commit \/ Rate
           \/ \E e \in Event : Sweep(e) \/ Cancel(e) \/ Retry(e)
           \/ Expire \/ Crash \/ Restart \/ UNCHANGED vars
BY DEF Next, WorkerStep, PlanStep, Event

-----------------------------------------------------------------------------
(* Type correctness.                                                       *)

\* The type of the variables a planner's run and row touch.
LEMMA InsertTypes ==
    ASSUME TypeOK, NEW e \in Event, FindOrQueue(e), AddDelivery(e) \/ UNCHANGED rows
    PROVE  /\ run' \in [Event -> RunStatus] /\ made' \in 0..MaxDeliveries
           /\ owner' \in [Delivery -> Event \cup {Nothing}]
           /\ dstat' \in [Delivery -> {"queued", "sent", "failed"}]
<1>1. run' \in [Event -> RunStatus]
  BY DEF FindOrQueue, TypeOK, RunStatus
<1>2. CASE AddDelivery(e)
  BY <1>1, <1>2, DeliveryAssumption DEF AddDelivery, TypeOK, Delivery
<1>3. CASE UNCHANGED rows
  BY <1>1, <1>3 DEF rows, TypeOK
<1> QED
  BY <1>2, <1>3

LEMMA DiesTypes ==
    ASSUME TypeOK, Dies
    PROVE  /\ UNCHANGED <<attempts, decided, rows, score, suppressed, admin, asked,
                          accepted, sends, bounces>>
           /\ batch' = {} /\ current' = Nothing /\ listed' = {} /\ up' = FALSE
           /\ feedback' = "none" /\ crashes' \in Nat
           /\ seen' \in [Event -> Nat] /\ outcome' \in [Delivery -> Outcome]
           /\ excused' \in [Delivery -> Nat]
<1>1. excused' \in [Delivery -> Nat]
  BY DEF Dies, TypeOK
<1>2. outcome' \in [Delivery -> Outcome]
  BY DEF Dies, TypeOK, Outcome
<1>3. crashes' \in Nat
  BY DEF Dies, TypeOK
<1> QED
  BY <1>1, <1>2, <1>3 DEF Dies

LEMMA TypeStep == TypeOK /\ [Next]_vars => TypeOK'
<1> SUFFICES ASSUME TypeOK, [Next]_vars PROVE TypeOK'
  OBVIOUS
<1> USE DEF runs, rows, worker, address, bounds, provider, asked
<1>1. CASE PlanStep
  <2>1. /\ run' \in [Event -> RunStatus] /\ made' \in 0..MaxDeliveries
        /\ owner' \in [Delivery -> Event \cup {Nothing}]
        /\ dstat' \in [Delivery -> {"queued", "sent", "failed"}]
    BY <1>1, PlanEffect, InsertTypes DEF TypeOK
  <2> QED
    BY <1>1, <2>1, PlanEffect DEF TypeOK
<1>2. ASSUME NEW e \in Event, CrashInPlan(e)
      PROVE  TypeOK'
  <2>1. run' \in [Event -> RunStatus] /\ plans' \in Nat
    BY <1>2 DEF CrashInPlan, FindOrQueue, Planning, TypeOK, RunStatus
  <2>2. Dies
    BY <1>2 DEF CrashInPlan
  <2> QED
    BY <2>1, <2>2, DiesTypes DEF TypeOK
<1>3. CASE Claim
  <2>1. PICK S \in SUBSET Runnable :
          /\ batch' = S
          /\ run' = [e \in Event |-> IF e \in S THEN "running" ELSE run[e]]
          /\ seen' = [e \in Event |-> IF e \in S THEN attempts[e] ELSE seen[e]]
    BY <1>3 DEF Claim
  <2>2. run' \in [Event -> RunStatus] /\ seen' \in [Event -> Nat]
    BY <2>1 DEF TypeOK, RunStatus
  <2>3. batch' \subseteq Event
    BY <2>1 DEF Runnable
  <2> QED
    BY <1>3, <2>2, <2>3 DEF Claim, TypeOK
<1>4. ASSUME NEW e \in Event, Start(e)
      PROVE  TypeOK'
  BY <1>4 DEF Start, TypeOK, DeliveriesOf
<1>5. ASSUME NEW d \in Delivery, Accept(d) \/ AcceptUnheard(d) \/ Refuse(d)
      PROVE  TypeOK'
  <2>1. PICK o \in Outcome : Answered(d, o)
    BY <1>5 DEF Accept, AcceptUnheard, Refuse, Outcome, Failure
  <2>2. outcome' \in [Delivery -> Outcome] /\ sends' \in [Delivery -> Nat]
    BY <2>1 DEF Answered, TypeOK
  <2>3. accepted' \in [Delivery -> Nat] /\ excused' \in [Delivery -> Nat] /\ bounces' \in Nat
    BY <1>5 DEF Accept, AcceptUnheard, Refuse, TypeOK
  <2> QED
    BY <2>1, <2>2, <2>3 DEF Answered, TypeOK
<1>6. CASE Commit
  <2>1. current \in Event
    BY <1>6 DEF Commit, TypeOK
  <2>2. dstat' \in [Delivery -> {"queued", "sent", "failed"}]
    BY <1>6 DEF Commit, TypeOK
  <2>3. run' \in [Event -> RunStatus]
    BY <1>6, <2>1 DEF Commit, TypeOK, Verdict, RunStatus
  <2>4. attempts' \in [Event -> Nat] /\ granted' \in [Event -> Nat]
    BY <1>6, <2>1 DEF Commit, TypeOK
  <2>5. feedback' \in {"none", "success", "failure"}
    BY <1>6 DEF Commit, Owed
  <2>6. outcome' \in [Delivery -> Outcome] /\ seen' \in [Event -> Nat]
    BY <1>6, <2>1 DEF Commit, Leaves, TypeOK, Outcome
  <2> QED
    BY <1>6, <2>2, <2>3, <2>4, <2>5, <2>6 DEF Commit, Leaves, TypeOK
<1>7. CASE Rate
  <2>1. score' \in Nat /\ suppressed' \in BOOLEAN
    BY <1>7 DEF Rate, TypeOK
  <2> QED
    BY <1>7, <2>1 DEF Rate, TypeOK
<1>8. ASSUME NEW e \in Event, Sweep(e) \/ Cancel(e) \/ Retry(e)
      PROVE  TypeOK'
  <2>1. CASE Sweep(e)
    BY <2>1 DEF Sweep, TypeOK, RunStatus
  <2>2. CASE Cancel(e)
    BY <2>2 DEF Cancel, AdminActs, TypeOK, RunStatus
  <2>3. CASE Retry(e)
    BY <2>3 DEF Retry, AdminActs, TypeOK, RunStatus
  <2> QED
    BY <1>8, <2>1, <2>2, <2>3
<1>9. CASE Expire
  BY <1>9 DEF Expire, TypeOK
<1>10. CASE Crash
  BY <1>10, DiesTypes DEF Crash, TypeOK
<1>11. CASE Restart \/ UNCHANGED vars
  BY <1>11 DEF Restart, vars, TypeOK
<1> QED
  BY <1>1, <1>2, <1>3, <1>4, <1>5, <1>6, <1>7, <1>8, <1>9, <1>10, <1>11, Cases

-----------------------------------------------------------------------------
(* The tables and the worker.                                              *)

\* A listed row exists and belongs to the run being sent.
LEMMA ListedRow ==
    ASSUME TypeOK, Rows, Attempt, NEW d \in listed
    PROVE  /\ d \in Delivery /\ current \in Event /\ owner[d] = current /\ d <= made
<1>1. d \in Delivery /\ owner[d] = current /\ current # Nothing
  BY DEF Attempt, DeliveriesOf
<1>2. current \in Event
  BY <1>1 DEF TypeOK
<1>3. d <= made
  BY <1>1 DEF Rows, Delivery, TypeOK
<1> QED
  BY <1>1, <1>2, <1>3

\* A provider answers about a listed row that was neither sent nor answered.
LEMMA AnswerEffect ==
    ASSUME TypeOK, Rows, Attempt, NEW d \in Delivery,
           Accept(d) \/ AcceptUnheard(d) \/ Refuse(d)
    PROVE  /\ \E o \in Outcome \ {"none"} : Answered(d, o)
           /\ up /\ current \in Event /\ owner[d] = current /\ d <= made
           /\ d \in Todo /\ Todo' = Todo \ {d}
<1>1. PICK o \in Outcome \ {"none"} : Answered(d, o)
  BY DEF Accept, AcceptUnheard, Refuse, Outcome, Failure
<1>2. d \in Todo
  BY <1>1 DEF Answered
<1>3. d \in listed
  BY <1>2 DEF Todo
<1>4. Todo' = Todo \ {d}
  BY <1>1 DEF Answered, Todo, TypeOK, rows, worker
<1> QED
  BY <1>1, <1>2, <1>3, <1>4, ListedRow DEF Answered

\* An inserted row is the first unused one.
LEMMA RowEffect ==
    ASSUME TypeOK, Rows, NEW e \in Event, AddDelivery(e)
    PROVE  /\ made + 1 \in Delivery /\ made' = made + 1 /\ dstat' = dstat
           /\ owner[made + 1] = Nothing /\ sends[made + 1] = 0
           /\ \A d \in Delivery : owner'[d] = IF d = made + 1 THEN e ELSE owner[d]
<1>1. made + 1 \in Delivery
  BY DeliveryAssumption DEF AddDelivery, Delivery, TypeOK
<1>2. made + 1 > made
  BY DEF TypeOK
<1> QED
  BY <1>1, <1>2 DEF AddDelivery, Rows, TypeOK

\* The first part: rows not inserted yet are left alone.
LEMMA FreshStep ==
    ASSUME TypeOK, Rows, Attempt, [Next]_vars
    PROVE  \A d \in Delivery : d > made' =>
             owner'[d] = Nothing /\ dstat'[d] = "queued" /\ sends'[d] = 0
<1> USE DEF Rows
<1>0. CASE UNCHANGED <<made, owner, dstat, sends>>
  BY <1>0
<1>1. CASE PlanStep
  <2>1. UNCHANGED sends
    BY <1>1, PlanEffect DEF provider
  <2>2. UNCHANGED rows \/ \E e \in Event : AddDelivery(e)
    BY <1>1, PlanEffect
  <2>3. CASE UNCHANGED rows
    BY <2>1, <2>3 DEF rows
  <2>4. ASSUME NEW e \in Event, AddDelivery(e)
        PROVE  \A d \in Delivery : d > made' =>
                 owner'[d] = Nothing /\ dstat'[d] = "queued" /\ sends'[d] = 0
    <3>1. /\ made' = made + 1 /\ dstat' = dstat
          /\ \A d \in Delivery : owner'[d] = IF d = made + 1 THEN e ELSE owner[d]
      BY <2>4, RowEffect
    <3>2. \A d \in Delivery : d > made + 1 => d > made /\ d # made + 1
      BY DEF TypeOK, Delivery
    <3> QED
      BY <2>1, <3>1, <3>2
  <2> QED
    BY <2>2, <2>3, <2>4
<1>2. ASSUME NEW d \in Delivery, Accept(d) \/ AcceptUnheard(d) \/ Refuse(d)
      PROVE  \A c \in Delivery : c > made' =>
               owner'[c] = Nothing /\ dstat'[c] = "queued" /\ sends'[c] = 0
  <2>1. PICK o : Answered(d, o)
    BY <1>2, AnswerEffect
  <2>2. ~(d > made)
    BY <1>2, AnswerEffect DEF TypeOK, Delivery
  <2> QED
    BY <2>1, <2>2 DEF Answered, rows, TypeOK
<1>3. CASE Commit
  <2>1. \A d \in Delivery : d > made => outcome[d] = "none"
    BY ListedRow DEF Attempt, TypeOK, Delivery
  <2> QED
    BY <1>3, <2>1 DEF Commit, TypeOK, provider, Failure
<1> QED
  BY <1>0, <1>1, <1>2, <1>3, Cases
     DEF CrashInPlan, Dies, Claim, Start, Rate, Sweep, Cancel, Retry, Expire, Crash,
         Restart, vars, rows, provider

\* No run is ever taken away, and a new one has no row but its own.
LEMMA KeptStep ==
    ASSUME TypeOK, Attempt, [Next]_vars
    PROVE  \A e \in Event : run'[e] = "absent" => run[e] = "absent"
<1>0. CASE UNCHANGED run
  BY <1>0
<1>1. ASSUME NEW e \in Event, FindOrQueue(e)
      PROVE  \A f \in Event : run'[f] = "absent" => run[f] = "absent"
  BY <1>1 DEF FindOrQueue, TypeOK
<1>2. CASE Claim
  BY <1>2 DEF Claim, TypeOK
<1>3. CASE Commit
  BY <1>3 DEF Commit, TypeOK, Verdict
<1>4. ASSUME NEW e \in Event, Sweep(e) \/ Cancel(e) \/ Retry(e)
      PROVE  \A f \in Event : run'[f] = "absent" => run[f] = "absent"
  BY <1>4 DEF Sweep, Cancel, Retry, TypeOK
<1>5. PlanStep => UNCHANGED run \/ \E e \in Event : FindOrQueue(e)
  BY PlanEffect
<1> QED
  BY <1>0, <1>1, <1>2, <1>3, <1>4, <1>5, Cases
     DEF CrashInPlan, Start, Accept, AcceptUnheard, Refuse, Answered, Rate, Expire, Crash,
         Restart, vars, runs

LEMMA OwnerStep ==
    ASSUME TypeOK, Rows, [Next]_vars, owner' # owner
    PROVE  \E e \in Event : FindOrQueue(e) /\ AddDelivery(e)
<1>1. PlanStep
  BY Cases DEF CrashInPlan, Dies, Claim, Start, Accept, AcceptUnheard, Refuse, Answered,
       Commit, Rate, Sweep, Cancel, Retry, Expire, Crash, Restart, vars, rows
<1> QED
  BY <1>1, PlanEffect DEF rows

LEMMA RowsStep == TypeOK /\ Rows /\ Attempt /\ [Next]_vars => Rows'
<1> SUFFICES ASSUME TypeOK, Rows, Attempt, [Next]_vars PROVE Rows'
  OBVIOUS
<1>1. ASSUME NEW e \in Event, run'[e] = "absent", NEW d \in Delivery, owner'[d] = e
      PROVE  FALSE
  <2>1. run[e] = "absent" /\ owner[d] # e
    BY <1>1, KeptStep DEF Rows, DeliveriesOf
  <2>2. PICK f \in Event : FindOrQueue(f) /\ AddDelivery(f)
    BY <1>1, <2>1, OwnerStep
  <2>3. f = e
    BY <1>1, <2>1, <2>2, RowEffect
  <2> QED
    BY <1>1, <2>2, <2>3 DEF FindOrQueue, TypeOK
<1> QED
  BY <1>1, FreshStep DEF Rows, DeliveriesOf

\* A row's owner is written once.
LEMMA OwnerKept ==
    ASSUME TypeOK, Rows, [Next]_vars, NEW d \in Delivery, owner[d] # Nothing
    PROVE  owner'[d] = owner[d]
<1>1. CASE owner' = owner
  BY <1>1
<1>2. ASSUME NEW e \in Event, AddDelivery(e)
      PROVE  owner'[d] = owner[d]
  BY <1>2, RowEffect
<1> QED
  BY <1>1, <1>2, OwnerStep

LEMMA AttemptStep == TypeOK /\ Rows /\ Attempt /\ [Next]_vars => Attempt'
<1> SUFFICES ASSUME TypeOK, Rows, Attempt, [Next]_vars PROVE Attempt'
  OBVIOUS
<1> USE Names
<1>a. \A e \in Event : run[e] # "absent" => run'[e] # "absent"
  BY KeptStep
<1>b. \A d \in listed : d \in Delivery /\ owner'[d] = current
  BY ListedRow, OwnerKept
<1>1. CASE UNCHANGED <<worker, dstat, feedback>> /\ (UNCHANGED up \/ up')
  BY <1>1, <1>a, <1>b DEF Attempt, worker, DeliveriesOf
<1>2. CASE Dies
  BY <1>2 DEF Dies, Attempt
<1>3. CASE Claim
  <2>1. PICK S \in SUBSET Runnable :
          /\ batch' = S
          /\ run' = [e \in Event |-> IF e \in S THEN "running" ELSE run[e]]
    BY <1>3 DEF Claim
  <2>2. \A e \in batch' : e \in Event /\ run'[e] # "absent"
    BY <2>1 DEF Runnable
  <2>3. /\ UNCHANGED <<current, listed, outcome, dstat, feedback, up>>
        /\ up /\ current = Nothing
    BY <1>3 DEF Claim, rows, address
  <2> QED
    BY <2>2, <2>3, <1>b DEF Attempt, DeliveriesOf
<1>4. ASSUME NEW e \in Event, Start(e)
      PROVE  Attempt'
  <2>1. \A d \in Delivery : outcome'[d] = "none"
    BY <1>4 DEF Start, Attempt
  <2> QED
    BY <1>4, <2>1, <1>a DEF Start, Attempt, DeliveriesOf, rows, address
<1>5. ASSUME NEW d \in Delivery, Accept(d) \/ AcceptUnheard(d) \/ Refuse(d)
      PROVE  Attempt'
  <2>1. PICK o : Answered(d, o)
    BY <1>5, AnswerEffect
  <2>2. d \in listed /\ dstat[d] # "sent" /\ current # Nothing
    BY <1>5, AnswerEffect DEF Todo
  <2>3. \A c \in Delivery : outcome'[c] # "none" => c \in listed' /\ dstat'[c] # "sent"
    BY <2>1, <2>2 DEF Answered, Attempt, TypeOK, rows
  <2>4. UNCHANGED <<batch, current, listed, feedback, up, run>>
    BY <2>1 DEF Answered, address, runs
  <2> QED
    BY <2>2, <2>3, <2>4, <1>a, <1>b DEF Attempt, DeliveriesOf
<1>6. CASE Commit
  <2>1. /\ up' /\ batch' = batch /\ current' = Nothing /\ listed' = {}
        /\ \A d \in Delivery : outcome'[d] = "none"
    BY <1>6 DEF Commit, Leaves
  <2> QED
    BY <2>1, <1>a DEF Attempt, DeliveriesOf, TypeOK
<1>7. CASE Rate
  <2>1. current = Nothing
    BY <1>7 DEF Rate, Attempt
  <2> QED
    BY <1>7, <2>1, <1>a DEF Rate, Attempt, DeliveriesOf, runs, rows, worker
<1> QED
  <2>1. PlanStep => UNCHANGED <<worker, dstat, feedback, up>>
    BY PlanEffect, RowEffect DEF rows, address
  <2> QED
    BY <2>1, <1>1, <1>2, <1>3, <1>4, <1>5, <1>6, <1>7, Cases
       DEF CrashInPlan, Crash, Sweep, Cancel, Retry, Expire, Restart, vars, rows, address

-----------------------------------------------------------------------------
(* What the provider took.                                                 *)

\* The steps that write a row's status, an answer or the provider's tallies.
LEMMA Calm ==
    ASSUME TypeOK, Rows, [Next]_vars
    PROVE  \/ UNCHANGED <<dstat, outcome, accepted, excused>>
           \/ \E d \in Delivery : Accept(d) \/ AcceptUnheard(d) \/ Refuse(d)
           \/ Commit \/ Dies
<1>1. PlanStep => UNCHANGED <<dstat, outcome, accepted, excused>>
  BY PlanEffect, RowEffect DEF rows, worker, provider
<1> QED
  BY <1>1, Cases
     DEF CrashInPlan, Crash, Claim, Start, Rate, Sweep, Cancel, Retry, Expire, Restart, vars,
         rows, worker, provider

\* No step takes a row's "sent" back.
LEMMA SentKept ==
    ASSUME TypeOK, Rows, Attempt, [Next]_vars, NEW d \in Delivery, dstat[d] = "sent"
    PROVE  dstat'[d] = "sent"
<1>1. outcome[d] = "none"
  BY DEF Attempt
<1> QED
  BY <1>1, Calm DEF Accept, AcceptUnheard, Refuse, Answered, Commit, Dies, rows, Failure

LEMMA TallyStep == TypeOK /\ Rows /\ Attempt /\ Tally /\ [Next]_vars => Tally'
<1> SUFFICES ASSUME TypeOK, Rows, Attempt, Tally, [Next]_vars, NEW d \in Delivery
             PROVE  accepted'[d] = excused'[d]
                      + Flag(dstat'[d] = "sent" \/ outcome'[d] = "accepted")
  BY DEF Tally
<1>0. /\ accepted[d] = excused[d] + Flag(dstat[d] = "sent" \/ outcome[d] = "accepted")
      /\ accepted[d] \in Nat /\ excused[d] \in Nat
  BY DEF Tally, TypeOK
<1>1. CASE UNCHANGED <<dstat, outcome, accepted, excused>>
  BY <1>0, <1>1
<1>2. ASSUME NEW c \in Delivery, Accept(c) \/ AcceptUnheard(c) \/ Refuse(c)
      PROVE  accepted'[d] = excused'[d]
               + Flag(dstat'[d] = "sent" \/ outcome'[d] = "accepted")
  <2>1. dstat' = dstat /\ dstat[c] # "sent" /\ outcome[c] = "none"
    BY <1>2, AnswerEffect DEF Todo, Answered, rows
  <2>2. CASE Accept(c)
    BY <1>0, <2>1, <2>2 DEF Accept, Answered, Flag, TypeOK
  <2>3. CASE AcceptUnheard(c)
    BY <1>0, <2>1, <2>3 DEF AcceptUnheard, Answered, Flag, TypeOK
  <2>4. CASE Refuse(c)
    BY <1>0, <2>1, <2>4 DEF Refuse, Answered, Flag, TypeOK, Failure
  <2> QED
    BY <1>2, <2>2, <2>3, <2>4
<1>3. CASE Commit
  <2>1. outcome'[d] = "none" /\ UNCHANGED <<accepted, excused>>
    BY <1>3 DEF Commit, Leaves, provider
  <2>2. dstat'[d] = "sent" <=> dstat[d] = "sent" \/ outcome[d] = "accepted"
    BY <1>3 DEF Commit, Attempt, Failure
  <2> QED
    BY <1>0, <2>1, <2>2 DEF Flag
<1>4. CASE Dies
  <2>1. /\ outcome'[d] = "none" /\ dstat' = dstat /\ accepted' = accepted
        /\ excused'[d] = excused[d] + IF outcome[d] = "accepted" THEN 1 ELSE 0
    BY <1>4 DEF Dies, rows
  <2>2. outcome[d] = "accepted" => dstat[d] # "sent"
    BY DEF Attempt
  <2> QED
    BY <1>0, <2>1, <2>2 DEF Flag
<1> QED
  BY <1>1, <1>2, <1>3, <1>4, Calm

-----------------------------------------------------------------------------
(* Replies.                                                                *)

\* A reply's row is inserted with its run only.
LEMMA ReplyRow ==
    ASSUME TypeOK, Rows, [Next]_vars, NEW d \in Delivery, NEW e \in Replies,
           owner'[d] = e, owner[d] # e
    PROVE  run[e] = "absent" /\ AddDelivery(e)
<1>1. PlanStep
  BY Cases DEF CrashInPlan, Dies, Claim, Start, Accept, AcceptUnheard, Refuse, Answered,
       Commit, Rate, Sweep, Cancel, Retry, Expire, Crash, Restart, vars, rows
<1>2. ASSUME NEW f \in Event, AddDelivery(f)
      PROVE  f = e
  BY <1>2, RowEffect
<1>3. ~ \E f \in Externals : PlanExternal(f)
  BY <1>2, DeliveryAssumption DEF PlanExternal, Event
<1>4. ~ \E f \in Digests : PlanDigest(f)
  BY DEF PlanDigest, rows
<1>5. PICK f \in Replies, src \in Source : PlanReply(f, src)
  BY <1>1, <1>3, <1>4 DEF PlanStep
<1>6. AddDelivery(f) /\ run[f] = "absent"
  BY <1>5 DEF PlanReply, rows
<1>7. f = e
  BY <1>2, <1>6 DEF Event
<1> QED
  BY <1>6, <1>7

\* A reply's run is created with its row only.
LEMMA ReplyRun ==
    ASSUME TypeOK, Rows, Attempt, [Next]_vars, NEW e \in Replies,
           run[e] = "absent", run'[e] # "absent"
    PROVE  AddDelivery(e)
<1>0. e \in Event
  BY DEF Event
<1>1. ASSUME NEW f \in Event, FindOrQueue(f)
      PROVE  f = e
  BY <1>0, <1>1 DEF FindOrQueue, TypeOK
<1>2. ~ \E f \in Externals : PlanExternal(f) \/ CrashInPlan(f)
  BY <1>1, DeliveryAssumption DEF PlanExternal, CrashInPlan, Event
<1>3. ~ \E f \in Digests : PlanDigest(f)
  BY <1>1, DeliveryAssumption DEF PlanDigest, Event
<1>4. ~Claim
  BY <1>0 DEF Claim, Runnable, TypeOK
<1>5. ~Commit
  BY <1>0 DEF Commit, Attempt, TypeOK
<1>6. ~ \E f \in Event : Sweep(f) \/ Cancel(f) \/ Retry(f)
  BY <1>0 DEF Sweep, Cancel, Retry, AdminActs, TypeOK
<1>7. PICK f \in Replies, src \in Source : PlanReply(f, src)
  BY <1>2, <1>3, <1>4, <1>5, <1>6
     DEF Next, WorkerStep, Start, Accept, AcceptUnheard, Refuse, Answered, Rate, Expire,
         Crash, Restart, vars, runs
<1>8. FindOrQueue(f) /\ AddDelivery(f)
  BY <1>7 DEF PlanReply
<1>9. f = e
  BY <1>1, <1>8 DEF Event
<1> QED
  BY <1>8, <1>9

LEMMA PairsStep == TypeOK /\ Rows /\ Attempt /\ Pairs /\ [Next]_vars => Pairs'
<1> SUFFICES ASSUME TypeOK, Rows, Attempt, Pairs, [Next]_vars PROVE Pairs'
  OBVIOUS
<1> USE DEF DeliveriesOf
<1>1. ASSUME NEW e \in Replies, run'[e] # "absent"
      PROVE  DeliveriesOf(e)' # {}
  <2>0. e \in Event
    BY DEF Event
  <2>1. CASE run[e] = "absent"
    BY <1>1, <2>0, <2>1, ReplyRun, RowEffect
  <2>2. CASE run[e] # "absent"
    <3>1. PICK d \in Delivery : owner[d] = e
      BY <2>2 DEF Pairs
    <3> QED
      BY <2>0, <3>1, OwnerKept, Names
  <2> QED
    BY <2>1, <2>2
<1>2. ASSUME current' \in Replies
      PROVE  listed' = DeliveriesOf(current)'
  <2>0. current' \in Event /\ current' # Nothing
    BY <1>2, Names DEF Event
  <2>1. CASE current' = current /\ listed' = listed
    <3>1. listed = DeliveriesOf(current) /\ run[current] # "absent"
      BY <1>2, <2>0, <2>1 DEF Pairs, Attempt
    <3>2. \A d \in Delivery : owner'[d] = current <=> owner[d] = current
      BY <1>2, <2>0, <2>1, <3>1, ReplyRow, OwnerKept
    <3> QED
      BY <2>1, <3>1, <3>2
  <2>2. ASSUME NEW e \in Event, Start(e)
        PROVE  listed' = DeliveriesOf(current)'
    BY <2>2 DEF Start, rows
  <2>3. PlanStep => current' = current /\ listed' = listed
    BY PlanEffect DEF worker
  <2> QED
    BY <2>0, <2>1, <2>2, <2>3, Cases
       DEF CrashInPlan, Dies, Claim, Accept, AcceptUnheard, Refuse, Answered, Commit, Leaves,
           Rate, Sweep, Cancel, Retry, Expire, Crash, Restart, vars, worker
<1> QED
  BY <1>1, <1>2 DEF Pairs

LEMMA OneMailStep == TypeOK /\ Rows /\ OneMailPerReply /\ [Next]_vars => OneMailPerReply'
<1> SUFFICES ASSUME TypeOK, Rows, OneMailPerReply, [Next]_vars,
                    NEW c \in Delivery, NEW d \in Delivery,
                    owner'[c] = owner'[d], owner'[d] \in Replies
             PROVE  c = d
  BY DEF OneMailPerReply
<1>1. CASE owner[c] = owner[d] /\ owner[d] \in Replies
  BY <1>1 DEF OneMailPerReply
<1>2. PICK e \in Replies : owner'[c] = e /\ owner'[d] = e
  OBVIOUS
<1>3. ASSUME run[e] = "absent", AddDelivery(e)
      PROVE  c = d
  <2>1. owner[c] # e /\ owner[d] # e
    BY <1>3 DEF Rows, DeliveriesOf, Event
  <2> QED
    BY <1>2, <1>3, <2>1, RowEffect DEF Event
<1>4. CASE owner[c] # e \/ owner[d] # e
  BY <1>2, <1>3, <1>4, ReplyRow
<1> QED
  BY <1>1, <1>4

LEMMA SucceededStep ==
    TypeOK /\ Rows /\ Attempt /\ Pairs /\ SucceededMeansSent /\ [Next]_vars
        => SucceededMeansSent'
<1> SUFFICES ASSUME TypeOK, Rows, Attempt, Pairs, SucceededMeansSent, [Next]_vars,
                    NEW e \in Replies, run'[e] = "succeeded"
             PROVE  \E d \in Delivery : owner'[d] = e /\ dstat'[d] = "sent"
  BY DEF SucceededMeansSent, DeliveriesOf
<1>0. e \in Event /\ e # Nothing
  BY Names DEF Event
<1>1. CASE run[e] = "succeeded"
  <2>1. PICK d \in Delivery : owner[d] = e /\ dstat[d] = "sent"
    BY <1>1 DEF SucceededMeansSent, DeliveriesOf
  <2> QED
    BY <1>0, <2>1, SentKept, OwnerKept
<1>2. CASE run[e] # "succeeded"
  <2>1. PlanStep => ~(run'[e] = "succeeded")
    BY <1>0, <1>2, PlanEffect DEF FindOrQueue, TypeOK
  <2>2. Commit /\ current = e
    BY <1>0, <1>2, <2>1, Cases
       DEF CrashInPlan, FindOrQueue, Claim, Start, Accept, AcceptUnheard, Refuse, Answered,
           Commit, Rate, Sweep, Cancel, Retry, Expire, Crash, Restart, vars, runs, TypeOK
  <2>3. Verdict = "succeeded"
    BY <1>0, <2>2 DEF Commit, TypeOK
  <2>4. ~Failed
    BY <2>3 DEF Verdict
  <2>5. PICK d \in listed : d \in Delivery /\ owner[d] = e
    BY <2>2, <2>4, ListedRow DEF Failed
  <2>6. dstat[d] = "sent" \/ outcome[d] # "none"
    BY <2>2, <2>5 DEF Commit, Todo
  <2>7. dstat[d] = "sent" \/ outcome[d] = "accepted"
    BY <2>4, <2>5, <2>6 DEF Failed, Answers, TypeOK, Outcome
  <2>8. dstat'[d] = "sent" /\ owner' = owner
    <3>1. CASE dstat[d] = "sent"
      BY <2>2, <2>5, <3>1, SentKept DEF Commit
    <3>2. CASE outcome[d] = "accepted"
      BY <2>2, <2>5, <3>2 DEF Commit, Failure
    <3> QED
      BY <2>7, <3>1, <3>2
  <2> QED
    BY <2>5, <2>8
<1> QED
  BY <1>1, <1>2

-----------------------------------------------------------------------------
(* How often a row is sent.                                                *)

LEMMA Numbers ==
    ASSUME TypeOK, TypeOK', NEW e \in Event
    PROVE  /\ Chances(e) \in Nat /\ Reasons(e) \in Nat
           /\ Chances(e)' \in Nat /\ Reasons(e)' \in Nat
BY DEF TypeOK, Chances, Reasons, Flag

\* The chances of a run never grow beyond the reasons that are added, except
\* when it is created.
LEMMA ChancesEffect ==
    ASSUME TypeOK, Attempt, [Next]_vars, NEW e \in Event
    PROVE  \/ Chances(e)' + Reasons(e) <= Chances(e) + Reasons(e)'
           \/ run[e] = "absent" /\ Chances(e)' <= Reasons(e)'
<1> DEFINE Goal == \/ Chances(e)' + Reasons(e) <= Chances(e) + Reasons(e)'
                   \/ run[e] = "absent" /\ Chances(e)' <= Reasons(e)'
           Waits(s) == s \in {"queued", "retrying"}
<1>0. /\ Chances(e) \in Nat /\ Reasons(e) \in Nat
      /\ Chances(e)' \in Nat /\ Reasons(e)' \in Nat
  BY TypeStep, Numbers
<1>a. ASSUME Waits(run'[e]) => Waits(run[e]), batch' \subseteq batch
      PROVE  Chances(e)' <= Chances(e)
  BY <1>a DEF Chances, Flag
<1>b. asked' = asked => Reasons(e)' = Reasons(e)
  BY DEF asked, Reasons
<1>c. e \in batch => run[e] # "absent"
  BY Names DEF Attempt
<1>1. ASSUME Waits(run'[e]) => Waits(run[e]), batch' \subseteq batch, asked' = asked
      PROVE  Goal
  BY <1>0, <1>1, <1>a, <1>b
<1>2. ASSUME NEW f \in Event, FindOrQueue(f), batch' \subseteq batch, asked' = asked
      PROVE  Goal
  <2>1. CASE run'[e] = run[e]
    BY <1>1, <1>2, <2>1
  <2>2. CASE run'[e] # run[e]
    <3>1. run[e] = "absent"
      BY <1>2, <2>2 DEF FindOrQueue, TypeOK
    <3>2. e \notin batch'
      BY <1>2, <1>c, <3>1
    <3>3. Chances(e)' <= 1
      BY <3>2 DEF Chances, Flag
    <3>4. Reasons(e)' >= 1
      BY <1>2 DEF asked, Reasons, TypeOK
    <3> QED
      BY <1>0, <3>1, <3>3, <3>4
  <2> QED
    BY <2>1, <2>2
<1>3. CASE PlanStep
  <2>1. batch' \subseteq batch /\ asked' = asked
    BY <1>3, PlanEffect DEF worker
  <2>2. CASE run' = run
    BY <1>1, <2>1, <2>2
  <2>3. CASE \E f \in Event : FindOrQueue(f)
    BY <1>2, <2>1, <2>3
  <2>4. UNCHANGED run \/ \E f \in Event : FindOrQueue(f)
    BY <1>3, PlanEffect
  <2> QED
    BY <2>2, <2>3, <2>4
<1>4. ASSUME NEW f \in Event, CrashInPlan(f)
      PROVE  Goal
  BY <1>2, <1>4 DEF CrashInPlan, Dies
<1>5. CASE Claim
  <2>1. PICK S \in SUBSET Runnable :
          /\ batch' = S
          /\ run' = [f \in Event |-> IF f \in S THEN "running" ELSE run[f]]
    BY <1>5 DEF Claim
  <2>2. asked' = asked /\ batch = {}
    BY <1>5 DEF Claim
  <2>3. e \in S => Waits(run[e])
    BY DEF Runnable
  <2>4. Chances(e)' <= Chances(e)
    <3>1. CASE e \in S
      BY <2>1, <2>2, <2>3, <3>1 DEF Chances, Flag
    <3>2. CASE e \notin S
      BY <2>1, <2>2, <3>2 DEF Chances, Flag
    <3> QED
      BY <3>1, <3>2
  <2> QED
    BY <1>0, <1>b, <2>2, <2>4
<1>6. CASE Commit
  <2>1. batch' = batch /\ byHand' = byHand /\ current \in Event
    BY <1>6 DEF Commit, Leaves, TypeOK
  <2>2. run'[e] = (IF e = current THEN Verdict ELSE run[e])
    BY <1>6, <2>1 DEF Commit, TypeOK
  <2>3. granted'[e] = (IF e = current /\ Verdict = "retrying" THEN granted[e] + 1
                                                              ELSE granted[e])
    BY <1>6, <2>1 DEF Commit, Grants, TypeOK
  <2>4. CASE e = current /\ Verdict = "retrying"
    <3>1. Reasons(e)' = Reasons(e) + 1
      BY <2>1, <2>3, <2>4 DEF Reasons, TypeOK
    <3>2. Chances(e)' <= Chances(e) + 1
      BY <2>1 DEF Chances, Flag
    <3> QED
      BY <1>0, <3>1, <3>2
  <2>5. CASE ~(e = current /\ Verdict = "retrying")
    <3>1. Reasons(e)' = Reasons(e)
      BY <2>1, <2>3, <2>5 DEF Reasons
    <3>2. Verdict # "queued"
      BY DEF Verdict
    <3>3. Waits(run'[e]) => Waits(run[e])
      BY <2>2, <2>5, <3>2
    <3> QED
      BY <1>0, <1>a, <2>1, <3>1, <3>3
  <2> QED
    BY <2>4, <2>5
<1>7. ASSUME NEW f \in Event, Sweep(f) \/ Cancel(f)
      PROVE  Goal
  <2>1. batch' \subseteq batch /\ asked' = asked
    BY <1>7 DEF Sweep, Cancel, worker
  <2>2. run'[e] = run[e] \/ run'[e] \in {"failed", "cancelled"}
    BY <1>7 DEF Sweep, Cancel, TypeOK
  <2> QED
    BY <1>1, <2>1, <2>2
<1>8. ASSUME NEW f \in Event, Retry(f)
      PROVE  Goal
  <2>1. /\ batch' = batch /\ granted' = granted
        /\ run'[e] = (IF e = f THEN "retrying" ELSE run[e])
        /\ byHand'[e] = (IF e = f THEN byHand[e] + 1 ELSE byHand[e])
    BY <1>8 DEF Retry, worker, TypeOK
  <2>2. CASE e = f
    <3>1. Reasons(e)' = Reasons(e) + 1
      BY <2>1, <2>2 DEF Reasons, TypeOK
    <3>2. Chances(e)' <= Chances(e) + 1
      BY <2>1 DEF Chances, Flag
    <3> QED
      BY <1>0, <3>1, <3>2
  <2>3. CASE e # f
    <3>1. Reasons(e)' = Reasons(e)
      BY <2>1, <2>3 DEF Reasons
    <3> QED
      BY <1>0, <1>a, <2>1, <2>3, <3>1
  <2> QED
    BY <2>2, <2>3
<1>9. CASE batch' \subseteq batch /\ run' = run /\ asked' = asked
  BY <1>1, <1>9
<1> QED
  BY <1>3, <1>4, <1>5, <1>6, <1>7, <1>8, <1>9, Cases
     DEF Dies, Start, Accept, AcceptUnheard, Refuse, Answered, Rate, Expire, Crash, Restart,
         vars, runs, worker

\* Starting a run uses one of its chances up.
LEMMA StartEffect ==
    ASSUME TypeOK, NEW e \in Event, Start(e)
    PROVE  Chances(e)' + 1 <= Chances(e) /\ Reasons(e)' = Reasons(e)
<1>1. e \in batch /\ e \notin batch' /\ run' = run /\ asked' = asked
  BY DEF Start, runs
<1>2. Reasons(e)' = Reasons(e)
  BY <1>1 DEF Reasons, asked
<1> QED
  BY <1>1, <1>2 DEF Chances, Flag

\* A row's calls of send(), with the one to come, grow only when its run starts.
LEMMA EffortEffect ==
    ASSUME TypeOK, Rows, Attempt, [Next]_vars, NEW d \in Delivery
    PROVE  \/ sends'[d] + Flag(d \in Todo') <= sends[d] + Flag(d \in Todo)
           \/ /\ owner[d] \in Event /\ Start(owner[d])
              /\ sends'[d] + Flag(d \in Todo') <= sends[d] + Flag(d \in Todo) + 1
<1> USE DEF Flag
<1>0. sends[d] \in Nat
  BY DEF TypeOK
<1>1. ASSUME sends'[d] = sends[d], d \in Todo' => d \in Todo
      PROVE  sends'[d] + Flag(d \in Todo') <= sends[d] + Flag(d \in Todo)
  BY <1>0, <1>1
<1>2. CASE UNCHANGED <<dstat, outcome, listed, sends>>
  BY <1>1, <1>2 DEF Todo
<1>3. CASE sends' = sends /\ listed' = {}
  BY <1>1, <1>3 DEF Todo
<1>4. ASSUME NEW c \in Delivery, Accept(c) \/ AcceptUnheard(c) \/ Refuse(c)
      PROVE  sends'[d] + Flag(d \in Todo') <= sends[d] + Flag(d \in Todo)
  <2>1. c \in Todo /\ Todo' = Todo \ {c}
    BY <1>4, AnswerEffect
  <2>2. sends'[d] = IF d = c THEN sends[d] + 1 ELSE sends[d]
    BY <1>4, AnswerEffect DEF Answered, TypeOK
  <2> QED
    BY <1>0, <2>1, <2>2
<1>5. ASSUME NEW e \in Event, Start(e)
      PROVE  \/ sends'[d] + Flag(d \in Todo') <= sends[d] + Flag(d \in Todo)
             \/ /\ owner[d] \in Event /\ Start(owner[d])
                /\ sends'[d] + Flag(d \in Todo') <= sends[d] + Flag(d \in Todo) + 1
  <2>1. sends' = sends /\ listed' = DeliveriesOf(e)
    BY <1>5 DEF Start, provider
  <2>2. CASE owner[d] = e
    BY <1>0, <1>5, <2>1, <2>2
  <2>3. CASE owner[d] # e
    BY <1>1, <2>1, <2>3 DEF Todo, DeliveriesOf
  <2> QED
    BY <2>2, <2>3
<1>6. PlanStep => UNCHANGED <<dstat, outcome, listed, sends>>
  BY PlanEffect, RowEffect DEF rows, worker, provider
<1>7. Commit \/ Dies => sends' = sends /\ listed' = {}
  BY DEF Commit, Leaves, Dies, provider
<1> QED
  BY <1>2, <1>3, <1>4, <1>5, <1>6, <1>7, Cases
     DEF CrashInPlan, Crash, Claim, Rate, Sweep, Cancel, Retry, Expire, Restart, vars, rows,
         worker, provider

LEMMA CountedStep == TypeOK /\ Rows /\ Attempt /\ Counted /\ [Next]_vars => Counted'
<1> SUFFICES ASSUME TypeOK, Rows, Attempt, Counted, [Next]_vars PROVE Counted'
  OBVIOUS
<1>0. TypeOK'
  BY TypeStep
<1>1. ASSUME NEW e \in Event
      PROVE  Chances(e)' <= Reasons(e)'
  <2>1. Chances(e) <= Reasons(e)
    BY DEF Counted
  <2>2. /\ Chances(e) \in Nat /\ Reasons(e) \in Nat
        /\ Chances(e)' \in Nat /\ Reasons(e)' \in Nat
    BY <1>0, Numbers
  <2>3. \/ Chances(e)' + Reasons(e) <= Chances(e) + Reasons(e)'
        \/ Chances(e)' <= Reasons(e)'
    BY ChancesEffect
  <2> QED
    BY <2>1, <2>2, <2>3
<1>2. ASSUME NEW d \in Delivery, NEW e \in Event, owner'[d] = e
      PROVE  sends'[d] + Flag(d \in Todo') + Chances(e)' <= Reasons(e)'
  <2>0. /\ Chances(e) \in Nat /\ Reasons(e) \in Nat
        /\ Chances(e)' \in Nat /\ Reasons(e)' \in Nat
        /\ sends[d] \in Nat /\ sends'[d] \in Nat
        /\ Flag(d \in Todo) \in Nat /\ Flag(d \in Todo') \in Nat
    <3>1. /\ Chances(e) \in Nat /\ Reasons(e) \in Nat
          /\ Chances(e)' \in Nat /\ Reasons(e)' \in Nat
      BY <1>0, Numbers
    <3> QED
      BY <1>0, <3>1 DEF TypeOK, Flag
  <2>1. CASE owner[d] = e
    <3>1. run[e] # "absent"
      BY <2>1 DEF Rows, DeliveriesOf
    <3>2. sends[d] + Flag(d \in Todo) + Chances(e) <= Reasons(e)
      BY <2>1 DEF Counted
    <3>3. CASE sends'[d] + Flag(d \in Todo') <= sends[d] + Flag(d \in Todo)
      <4>1. Chances(e)' + Reasons(e) <= Chances(e) + Reasons(e)'
        BY <3>1, ChancesEffect
      <4> QED
        BY <2>0, <3>2, <3>3, <4>1
    <3>4. CASE /\ Start(e)
               /\ sends'[d] + Flag(d \in Todo') <= sends[d] + Flag(d \in Todo) + 1
      <4>1. Chances(e)' + 1 <= Chances(e) /\ Reasons(e)' = Reasons(e)
        BY <3>4, StartEffect
      <4> QED
        BY <2>0, <3>2, <3>4, <4>1
    <3> QED
      BY <2>1, <3>3, <3>4, EffortEffect
  <2>2. CASE owner[d] # e
    <3>1. PICK f \in Event : AddDelivery(f)
      BY <1>2, <2>2, OwnerStep
    <3>2. d = made + 1 /\ owner[d] = Nothing /\ sends[d] = 0
      BY <1>2, <2>2, <3>1, RowEffect
    <3>3. d \notin Todo
      BY <3>2, ListedRow, Names DEF Todo
    <3>4. sends'[d] + Flag(d \in Todo') <= 0
      BY <3>2, <3>3, EffortEffect, Names DEF Flag
    <3>5. Chances(e)' <= Reasons(e)'
      BY <1>1
    <3> QED
      BY <2>0, <3>4, <3>5
  <2> QED
    BY <2>1, <2>2
<1> QED
  BY <1>1, <1>2 DEF Counted

\* An automatic retry raises the row's count and stays below the run's limit.
LEMMA GrantsStep == TypeOK /\ Attempt /\ GrantsCounted /\ [Next]_vars => GrantsCounted'
<1> SUFFICES ASSUME TypeOK, Attempt, GrantsCounted, [Next]_vars, NEW e \in Event
             PROVE  /\ granted'[e] <= attempts'[e]
                    /\ e \in batch' \cup {current'} => granted'[e] <= seen'[e]
                    /\ granted'[e] <= AttemptsOf(e) - 1
  BY DEF GrantsCounted
<1> DEFINE Goal == /\ granted'[e] <= attempts'[e]
                   /\ e \in batch' \cup {current'} => granted'[e] <= seen'[e]
                   /\ granted'[e] <= AttemptsOf(e) - 1
<1>0. /\ granted[e] <= attempts[e] /\ granted[e] <= AttemptsOf(e) - 1
      /\ e \in batch \cup {current} => granted[e] <= seen[e]
      /\ granted[e] \in Nat /\ attempts[e] \in Nat /\ seen[e] \in Nat
      /\ AttemptsOf(e) \in Nat
      /\ e # Nothing
  BY AttemptsPositive, Names DEF GrantsCounted, TypeOK
<1>1. ASSUME granted'[e] = granted[e], attempts'[e] \in Nat, attempts'[e] >= attempts[e],
             e \in batch' \cup {current'} => e \in batch \cup {current} /\ seen'[e] = seen[e]
      PROVE  Goal
  BY <1>0, <1>1
<1>2. CASE UNCHANGED <<granted, attempts, seen, batch, current>>
  BY <1>0, <1>1, <1>2
<1>3. CASE Dies
  BY <1>0, <1>1, <1>3 DEF Dies, asked
<1>4. CASE Claim
  <2>1. PICK S \in SUBSET Runnable :
          /\ batch' = S
          /\ seen' = [f \in Event |-> IF f \in S THEN attempts[f] ELSE seen[f]]
    BY <1>4 DEF Claim
  <2>2. UNCHANGED <<granted, attempts, current>> /\ current = Nothing
    BY <1>4 DEF Claim, asked
  <2> QED
    BY <1>0, <2>1, <2>2
<1>5. ASSUME NEW f \in Event, Start(f)
      PROVE  Goal
  <2>1. /\ UNCHANGED <<granted, attempts, seen>>
        /\ e \in batch' \cup {current'} => e \in batch
    BY <1>5 DEF Start, runs, asked
  <2> QED
    BY <1>0, <1>1, <2>1
<1>6. CASE Commit
  <2>1. /\ current \in Event /\ batch' = batch /\ current' = Nothing
        /\ \A f \in Event : f # current => seen'[f] = seen[f]
        /\ \A f \in Event : attempts'[f] = IF f = current THEN attempts[f] + 1 ELSE attempts[f]
    BY <1>6 DEF Commit, Leaves, TypeOK
  <2>2. current \notin batch
    BY DEF Attempt
  <2>3. CASE e = current /\ Verdict = "retrying"
    <3>1. granted'[e] = granted[e] + 1
      BY <1>6, <2>3 DEF Commit, Grants, TypeOK
    <3>2. seen[e] + 1 < AttemptsOf(e)
      BY <2>3 DEF Verdict
    <3> QED
      BY <1>0, <2>1, <2>2, <2>3, <3>1, <3>2
  <2>4. CASE ~(e = current /\ Verdict = "retrying")
    <3>1. granted'[e] = granted[e]
      BY <1>6, <2>1, <2>4 DEF Commit, Grants, TypeOK
    <3> QED
      BY <1>0, <1>1, <2>1, <2>2, <3>1
  <2> QED
    BY <2>3, <2>4
<1>7. ASSUME NEW f \in Event, Sweep(f) \/ Cancel(f) \/ Retry(f)
      PROVE  Goal
  <2>1. UNCHANGED <<granted, batch, current, seen>>
    BY <1>7 DEF Sweep, Cancel, Retry, worker, asked
  <2>2. attempts'[e] \in {attempts[e], attempts[e] + 1}
    BY <1>7 DEF Sweep, Cancel, Retry, TypeOK
  <2> QED
    BY <1>0, <1>1, <2>1, <2>2
<1>8. PlanStep => UNCHANGED <<granted, attempts, seen, batch, current>>
  BY PlanEffect DEF worker, asked
<1> QED
  BY <1>2, <1>3, <1>4, <1>5, <1>6, <1>7, <1>8, Cases
     DEF CrashInPlan, Crash, Accept, AcceptUnheard, Refuse, Answered, Rate, Expire, Restart,
         vars, runs, worker, asked

-----------------------------------------------------------------------------
(* The address.                                                            *)

\* A rejection the worker has heard of and not yet committed.
Heard == current \in Replies /\ Answers("rejected")

LEMMA EarnedStep == TypeOK /\ Rows /\ Attempt /\ Earned /\ [Next]_vars => Earned'
<1> SUFFICES ASSUME TypeOK, Rows, Attempt, Earned, [Next]_vars PROVE Earned'
  OBVIOUS
<1> DEFINE Owing == score + Flag(feedback = "failure") + Flag(Heard) <= bounces
<1>0. Owing /\ SuppressionEarned /\ score \in Nat /\ bounces \in Nat
  BY DEF Earned, Heard, TypeOK
<1>a. ASSUME Owing', SuppressionEarned'
      PROVE  Earned'
  BY <1>a DEF Earned, Heard
<1>1. CASE UNCHANGED <<address, bounces, current, outcome>>
  BY <1>0, <1>1, <1>a DEF address, Heard, Answers, SuppressionEarned
<1>2. CASE Dies
  <2>1. score' = score /\ suppressed' = suppressed /\ bounces' = bounces
    BY <1>2 DEF Dies
  <2>2. feedback' # "failure" /\ ~Heard'
    BY <1>2 DEF Dies, Heard, Answers
  <2> QED
    BY <1>0, <1>a, <2>1, <2>2 DEF Flag, SuppressionEarned
<1>3. ASSUME NEW e \in Event, Start(e)
      PROVE  Earned'
  <2>1. ~Heard'
    BY <1>3 DEF Start, Heard, Answers, Attempt
  <2> QED
    BY <1>0, <1>3, <1>a, <2>1 DEF Start, address, provider, Flag, SuppressionEarned
<1>4. ASSUME NEW d \in Delivery, Accept(d) \/ AcceptUnheard(d) \/ Refuse(d)
      PROVE  Earned'
  <2>1. PICK o \in Outcome : Answered(d, o)
    BY <1>4, AnswerEffect
  <2>2. /\ UNCHANGED <<score, suppressed, feedback, current>>
        /\ owner[d] = current
    BY <1>4, <2>1, AnswerEffect DEF Answered, address
  <2>3. bounces' \in {bounces, bounces + 1}
    BY <1>4 DEF Accept, AcceptUnheard, Refuse
  <2>4. SuppressionEarned'
    BY <1>0, <2>2, <2>3, DeliveryAssumption DEF SuppressionEarned
  <2>5. CASE bounces' = bounces + 1
    BY <1>0, <1>a, <2>2, <2>4, <2>5 DEF Flag
  <2>6. CASE bounces' = bounces
    <3>1. outcome'[d] = "rejected" => current \notin Replies
      BY <1>0, <1>4, <2>2, <2>6 DEF Accept, AcceptUnheard, Refuse, Answered, TypeOK
    <3>2. Heard' => Heard
      BY <2>1, <2>2, <3>1 DEF Heard, Answers, Answered, TypeOK
    <3> QED
      BY <1>0, <1>a, <2>2, <2>4, <2>6, <3>2 DEF Flag
  <2> QED
    BY <2>3, <2>5, <2>6
<1>5. CASE Commit
  <2>1. UNCHANGED <<score, suppressed, bounces>> /\ ~Heard'
    BY <1>5 DEF Commit, Leaves, provider, Heard, Answers
  <2>2. feedback' = "failure" => Heard
    BY <1>5 DEF Commit, Owed, Heard
  <2> QED
    BY <1>0, <1>a, <2>1, <2>2 DEF Flag, SuppressionEarned
<1>6. CASE Rate
  <2>1. bounces' = bounces /\ feedback' # "failure" /\ ~Heard'
    BY <1>6, Names DEF Rate, provider, worker, Heard, Answers, Attempt, Event
  <2>2. score' <= score + Flag(feedback = "failure")
    BY <1>0, <1>6 DEF Rate, Flag, TypeOK
  <2>3. score' \in Nat
    BY <1>6, <1>0 DEF Rate
  <2>4. score' <= bounces
    BY <1>0, <2>2, <2>3 DEF Flag
  <2>5. suppressed' => score' >= Threshold
    BY <1>6 DEF Rate
  <2>6. Owing'
    BY <2>1, <2>3, <2>4 DEF Flag
  <2>7. SuppressionEarned'
    BY <1>0, <2>1, <2>3, <2>4, <2>5, DeliveryAssumption DEF SuppressionEarned
  <2> QED
    BY <1>a, <2>6, <2>7
<1>7. CASE Expire
  BY <1>0, <1>7, <1>a
     DEF Expire, worker, provider, Heard, Answers, SuppressionEarned
<1>8. PlanStep => UNCHANGED <<address, bounces, current, outcome>>
  BY PlanEffect DEF worker, provider
<1> QED
  BY <1>1, <1>2, <1>3, <1>4, <1>5, <1>6, <1>7, <1>8, Cases
     DEF CrashInPlan, Crash, Claim, Sweep, Cancel, Retry, Restart, vars, worker, provider

-----------------------------------------------------------------------------
(* The theorems.                                                           *)

\* IInv is an inductive invariant of every step, bounded or not.
THEOREM Invariance == Spec => []IInv
<1>1. IInv /\ [Next]_vars => IInv'
  <2> SUFFICES ASSUME IInv, [Next]_vars PROVE IInv'
    OBVIOUS
  <2>1. TypeOK' /\ Rows' /\ Attempt' /\ Tally' /\ Pairs'
    BY TypeStep, RowsStep, AttemptStep, TallyStep, PairsStep DEF IInv
  <2>2. Counted' /\ GrantsCounted' /\ Earned' /\ OneMailPerReply' /\ SucceededMeansSent'
    BY CountedStep, GrantsStep, EarnedStep, OneMailStep, SucceededStep DEF IInv
  <2> QED
    BY <2>1, <2>2 DEF IInv
<1> QED
  BY InitIInv, <1>1, PTL DEF Spec

\* The tables and the worker's memory keep their types.
THEOREM TypeCorrect == Spec => []TypeOK
<1>1. IInv => TypeOK
  BY DEF IInv
<1> QED
  BY Invariance, <1>1, PTL

\* The commenter gets one delivery per reply, however often it is planned.
THEOREM OneMail == Spec => []OneMailPerReply
<1>1. IInv => OneMailPerReply
  BY DEF IInv
<1> QED
  BY Invariance, <1>1, PTL

\* A reply's run that says it succeeded has its mail recorded as sent.
THEOREM SuccessIsReal == Spec => []SucceededMeansSent
<1>1. IInv => SucceededMeansSent
  BY DEF IInv
<1> QED
  BY Invariance, <1>1, PTL

\* Suppression needs Threshold rejections, also when crashes lose feedback.
THEOREM SuppressionIsEarned == Spec => []SuppressionEarned
<1>1. IInv => SuppressionEarned
  BY DEF IInv, Earned
<1> QED
  BY Invariance, <1>1, PTL

\* The calls of send() for a row are bounded by maxAttempts and hand retries.
THEOREM SendsAreBounded == Spec => []SendsBounded
<1>1. IInv => SendsBounded
  <2> SUFFICES ASSUME IInv, NEW d \in Delivery, NEW e \in Event, owner[d] = e
               PROVE  sends[d] <= AttemptsOf(e) + byHand[e]
    BY DEF SendsBounded
  <2>1. sends[d] + Flag(d \in Todo) + Chances(e) <= 1 + byHand[e] + granted[e]
    BY DEF IInv, Counted, Reasons
  <2>2. granted[e] <= AttemptsOf(e) - 1
    BY DEF IInv, GrantsCounted
  <2>3. /\ sends[d] \in Nat /\ byHand[e] \in Nat /\ granted[e] \in Nat
        /\ Flag(d \in Todo) \in Nat /\ Chances(e) \in Nat /\ AttemptsOf(e) \in Nat
    BY AttemptsPositive DEF IInv, TypeOK, Flag, Chances
  <2> QED
    BY <2>1, <2>2, <2>3
<1> QED
  BY Invariance, <1>1, PTL

\* A delivery recorded as sent is never reopened.
THEOREM SentStays == Spec => SentIsFinal
<1>1. IInv /\ [Next]_vars =>
        [\A d \in Delivery : dstat[d] = "sent" => dstat'[d] = "sent"]_vars
  BY SentKept DEF IInv
<1> QED
  BY Invariance, <1>1, PTL DEF Spec, SentIsFinal

-----------------------------------------------------------------------------
(* Refinement: the worker sends at least once.                             *)

Recorded == {d \in Delivery : dstat[d] = "sent"}

LEMMA RefinedStep ==
    ASSUME IInv, [Next]_vars
    PROVE  [Promise!Next]_(Promise!vars)
<1> USE DEF IInv
<1>1. CASE UNCHANGED <<dstat, outcome, accepted, excused>>
  BY <1>1 DEF Promise!vars
<1>2. ASSUME NEW d \in Delivery, Accept(d) \/ AcceptUnheard(d) \/ Refuse(d)
      PROVE  [Promise!Next]_(Promise!vars)
  <2>1. dstat' = dstat /\ dstat[d] # "sent" /\ outcome[d] = "none"
    BY <1>2, AnswerEffect DEF Todo, Answered, rows
  <2>2. accepted[d] = excused[d] /\ d \notin Recorded
    BY <2>1 DEF Tally, Flag, TypeOK, Recorded
  <2>3. CASE Refuse(d)
    BY <2>1, <2>3 DEF Refuse, Promise!vars
  <2>4. CASE Accept(d) \/ AcceptUnheard(d)
    <3>1. /\ accepted' = [accepted EXCEPT ![d] = @ + 1]
          /\ excused' \in {excused, [excused EXCEPT ![d] = @ + 1]}
      BY <2>4 DEF Accept, AcceptUnheard
    <3>2. Promise!Copy(d)
      BY <2>1, <2>2, <3>1 DEF Promise!Copy, Recorded
    <3> QED
      BY <3>2 DEF Promise!Next
  <2> QED
    BY <1>2, <2>3, <2>4
<1> DEFINE S == {d \in Delivery : outcome[d] = "accepted"}
<1>3. \A d \in S : d \notin Recorded /\ accepted[d] = excused[d] + 1
  BY DEF Tally, Flag, Attempt, TypeOK, Recorded
<1>4. CASE Commit
  <2>1. \A d \in Delivery : dstat'[d] = "sent" <=> dstat[d] = "sent" \/ d \in S
    BY <1>4 DEF Commit, Attempt, Failure
  <2>2. Recorded' = Recorded \cup S
    BY <2>1 DEF Recorded
  <2>3. UNCHANGED <<accepted, excused>>
    BY <1>4 DEF Commit, provider
  <2>4. \E T \in SUBSET Delivery : Promise!Record(T)
    <3>1. S \in SUBSET Delivery
      OBVIOUS
    <3> HIDE DEF S
    <3> QED
      BY <1>3, <2>2, <2>3, <3>1 DEF Promise!Record, Recorded
  <2> QED
    BY <2>4 DEF Promise!Next
<1>5. CASE Dies
  <2>1. excused' = [d \in Delivery |-> IF d \in S THEN accepted[d] ELSE excused[d]]
    BY <1>3, <1>5 DEF Dies, TypeOK
  <2>2. Promise!Forget(S)
    BY <1>3, <1>5, <2>1 DEF Promise!Forget, Dies, rows, Recorded
  <2> QED
    BY <2>2 DEF Promise!Next
<1> QED
  BY <1>1, <1>2, <1>4, <1>5, Calm

\* The worker, crashes, sweeps and hand-made retries implement AtLeastOnce.
THEOREM Refinement == Spec => ImplementsAtLeastOnce
<1>1. Init => Promise!Init
  BY DEF Init, Promise!Init
<1>2. IInv /\ [Next]_vars => [Promise!Next]_(Promise!vars)
  BY RefinedStep
<1> QED
  BY Invariance, <1>1, <1>2, PTL DEF Spec, ImplementsAtLeastOnce, Promise!Spec
=============================================================================
