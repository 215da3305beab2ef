-------------------------- MODULE TaskRuns_proofs ---------------------------
(***************************************************************************)
(* Proofs about TaskRuns for every number of rows, batch size, retention,  *)
(* attempt limit and bound.  The safety theorems rest on one inductive     *)
(* invariant, IInv.                                                        *)
(***************************************************************************)
EXTENDS TaskRuns, TLAPS

\* A row not inserted yet is known to nobody.
FreshRows ==
    \A r \in RunId : r > created =>
        /\ status[r] = "absent"
        /\ requested[r] = 0 /\ begun[r] = 0 /\ autoRetried[r] = 0
        /\ policy[r] = "off"

\* The claim scopes keep the workers apart: a worker holds rows of its own
\* categories, and what it executes is one of them.
OwnRows ==
    \A w \in Worker :
        /\ \A r \in held[w] : r <= created /\ ServedBy(kind[r]) = w
        /\ current[w] # Nobody => current[w] \in held[w]

\* Each automatic retry raised the row's count, and the snapshot of a claimed
\* notification was taken after all of them.
RetriesCounted ==
    \A r \in RunId :
        /\ autoRetried[r] <= attempts[r]
        /\ r \in held[NotifyWorker] => autoRetried[r] <= seen[r]

IInv ==
    /\ TypeOK
    /\ FreshRows
    /\ OwnRows
    /\ RetriesCounted
    /\ AutoRetryBounded
    /\ AtMostOncePerRequest

-----------------------------------------------------------------------------
\* The two workers' claim scopes are disjoint.
LEMMA WorkersDiffer == TaskWorker # NotifyWorker /\ Worker = {TaskWorker, NotifyWorker}
BY DEF TaskWorker, NotifyWorker, Worker

\* A row identifier is a positive number, so it is never the idle mark.
LEMMA RunIdNat == /\ RunId \subseteq Nat /\ Nobody \notin RunId
                  /\ \A r \in RunId : r <= MaxRuns
BY TaskRunsAssumption DEF RunId, Nobody

\* A single worker at most holds a row.
LEMMA OneHolder ==
    ASSUME OwnRows, NEW w \in Worker, NEW v \in Worker, NEW r \in held[w], r \in held[v]
    PROVE  v = w
BY DEF OwnRows

\* The invariant holds of an empty queue.
LEMMA InitIInv == Init => IInv
<1> SUFFICES ASSUME Init PROVE IInv
  OBVIOUS
<1>1. TypeOK
  BY TaskRunsAssumption DEF Init, TypeOK, Status, Claimable, Settled, AllKinds, Nobody
<1>2. FreshRows /\ OwnRows /\ RetriesCounted
  BY WorkersDiffer DEF Init, FreshRows, OwnRows, RetriesCounted
<1>3. AutoRetryBounded
  BY TaskRunsAssumption DEF Init, AutoRetryBounded
<1>4. AtMostOncePerRequest
  BY WorkersDiffer DEF Init, AtMostOncePerRequest, Prospects, HeldBySome, Claimable
<1> QED
  BY <1>1, <1>2, <1>3, <1>4 DEF IInv

-----------------------------------------------------------------------------
(* Inserting a row, and failing one, are shared by several actions.        *)

\* Every action keeps the types.
LEMMA TypeStep == TypeOK /\ [Next]_vars => TypeOK'
<1> SUFFICES ASSUME TypeOK, [Next]_vars PROVE TypeOK'
  OBVIOUS
<1> USE TaskRunsAssumption, RunIdNat, WorkersDiffer
    DEF TypeOK, row, memory, bounds, history, Status, Claimable, Settled
<1>0. ASSUME NEW k \in AllKinds, NEW s \in BOOLEAN, NEW d \in BOOLEAN, NewRow(k, s, d)
      PROVE  /\ created + 1 \in RunId /\ created' \in 0..MaxRuns
             /\ kind' \in [RunId -> AllKinds] /\ scheduled' \in [RunId -> BOOLEAN]
             /\ due' \in [RunId -> BOOLEAN] /\ requested' \in [RunId -> Nat]
  <2>1. created + 1 \in RunId /\ created' = created + 1
    BY <1>0 DEF NewRow
  <2>2. created' \in 0..MaxRuns
    BY <2>1 DEF RunId
  <2> QED
    BY <1>0, <2>1, <2>2 DEF NewRow
<1>1. ASSUME NEW k \in Kinds, NEW s \in BOOLEAN, NEW d \in BOOLEAN,
             NEW p \in {"off", "armed"}, Enqueue(k, s, d, p)
      PROVE  TypeOK'
  <2>1. NewRow(k, s, d) /\ k \in AllKinds
    BY <1>1 DEF Enqueue
  <2>2. status' \in [RunId -> Status]
    BY <1>0, <1>1, <2>1 DEF Enqueue
  <2>3. policy' \in [RunId -> {"off", "armed", "planned"}]
    BY <1>0, <1>1, <2>1 DEF Enqueue
  <2>4. UNCHANGED <<stale, attempts, memory, server, bounds, begun, autoRetried>>
    BY <1>1 DEF Enqueue
  <2> QED
    BY <1>0, <2>1, <2>2, <2>3, <2>4
<1>2. ASSUME NEW k \in Kinds, NEW p \in {"off", "armed"}, RunScheduled(k, p)
      PROVE  TypeOK'
  <2>1. NewRow(k, TRUE, TRUE) /\ k \in AllKinds
    BY <1>2 DEF RunScheduled
  <2>2. status' \in [RunId -> Status]
    BY <1>2 DEF RunScheduled
  <2>3. stale' \in [RunId -> BOOLEAN]
    BY <1>2 DEF RunScheduled
  <2>4. policy' \in [RunId -> {"off", "armed", "planned"}]
    BY <1>0, <1>2, <2>1 DEF RunScheduled
  <2>5. UNCHANGED <<attempts, memory, server, bounds, begun, autoRetried>>
    BY <1>2 DEF RunScheduled
  <2> QED
    BY <1>0, <2>1, <2>2, <2>3, <2>4, <2>5
<1>3. ASSUME NEW r \in RunId, Cancel(r) \/ CancelIfUnclaimed(r) \/ Retry(r)
      PROVE  TypeOK'
  <2>1. CASE Cancel(r)
    BY <2>1 DEF Cancel, AdminActs, Touch
  <2>2. CASE CancelIfUnclaimed(r)
    BY <2>2 DEF CancelIfUnclaimed, AdminActs, Touch
  <2>3. CASE Retry(r)
    BY <2>3 DEF Retry, AdminActs, Touch
  <2> QED
    BY <1>3, <2>1, <2>2, <2>3
<1>4. ASSUME NEW w \in Worker, Claim(w)
      PROVE  TypeOK'
  <2>1. PICK S \in SUBSET Runnable(w) :
          /\ held' = [held EXCEPT ![w] = S]
          /\ status' = [r \in RunId |-> IF r \in S THEN "running" ELSE status[r]]
          /\ stale' = [r \in RunId |-> IF r \in S THEN FALSE ELSE stale[r]]
          /\ seen' = [r \in RunId |-> IF r \in S THEN attempts[r] ELSE seen[r]]
    BY <1>4 DEF Claim
  <2>2. held' \in [Worker -> SUBSET RunId]
    BY <2>1 DEF Runnable
  <2>3. status' \in [RunId -> Status] /\ stale' \in [RunId -> BOOLEAN]
    BY <2>1
  <2>4. seen' \in [RunId -> Nat]
    BY <2>1
  <2>5. UNCHANGED <<row, due, attempts, current, server, bounds, history>>
    BY <1>4 DEF Claim
  <2> QED
    BY <2>2, <2>3, <2>4, <2>5
<1>5. ASSUME NEW w \in Worker, Abandon(w)
      PROVE  TypeOK'
  BY <1>5 DEF Abandon
<1>6. ASSUME NEW w \in Worker, NEW r \in RunId, Begin(w, r)
      PROVE  TypeOK'
  BY <1>6 DEF Begin
<1>7. ASSUME NEW r \in RunId, TurnAway(r) \/ MissingDelivery(r) \/ FinishNotification(r)
      PROVE  TypeOK'
  <2>1. CASE TurnAway(r)
    BY <2>1 DEF TurnAway, Leaves, Touch
  <2>2. CASE MissingDelivery(r)
    BY <2>2 DEF MissingDelivery, Leaves, Touch
  <2>3. CASE FinishNotification(r)
    <3>1. status' \in [RunId -> Status]
      BY <2>3 DEF FinishNotification
    <3>2. due' \in [RunId -> BOOLEAN]
      BY <2>3 DEF FinishNotification
    <3>5. autoRetried' \in [RunId -> Nat]
      BY <2>3 DEF FinishNotification
    <3>3. /\ attempts' \in [RunId -> Nat] /\ stale' \in [RunId -> BOOLEAN]
          /\ held' \in [Worker -> SUBSET RunId] /\ seen' \in [RunId -> Nat]
          /\ current' \in [Worker -> RunId \cup {Nobody}]
      BY <2>3 DEF FinishNotification, Leaves, Touch
    <3>4. UNCHANGED <<row, server, bounds, requested, begun>>
      BY <2>3 DEF FinishNotification
    <3> QED
      BY <3>1, <3>2, <3>3, <3>4, <3>5
  <2> QED
    BY <1>7, <2>1, <2>2, <2>3
<1>8. ASSUME NEW r \in RunId, Fails(r)
      PROVE  /\ status' \in [RunId -> Status] /\ attempts' \in [RunId -> Nat]
             /\ stale' \in [RunId -> BOOLEAN] /\ created' \in 0..MaxRuns
             /\ kind' \in [RunId -> AllKinds] /\ scheduled' \in [RunId -> BOOLEAN]
             /\ due' \in [RunId -> BOOLEAN]
             /\ policy' \in [RunId -> {"off", "armed", "planned"}]
             /\ requested' \in [RunId -> Nat]
  <2>1. attempts' \in [RunId -> Nat] /\ stale' \in [RunId -> BOOLEAN]
    BY <1>8 DEF Fails, Touch
  <2>2. CASE NewRow("delivery", FALSE, TRUE)
    <3>1. "delivery" \in AllKinds
      BY DEF AllKinds
    <3>2. created + 1 \in RunId
      BY <1>0, <2>2, <3>1
    <3>3. status' \in [RunId -> Status]
      BY <1>8, <3>2 DEF Fails
    <3>4. policy' \in [RunId -> {"off", "armed", "planned"}]
      BY <1>8 DEF Fails
    <3> QED
      BY <1>0, <2>1, <2>2, <3>1, <3>3, <3>4
  <2>3. CASE ~NewRow("delivery", FALSE, TRUE)
    BY <1>8, <2>1, <2>3 DEF Fails
  <2> QED
    BY <2>2, <2>3
<1>9. ASSUME NEW r \in RunId, Reject(r)
      PROVE  TypeOK'
  BY <1>8, <1>9 DEF Reject, Leaves
<1>10. ASSUME NEW r \in RunId, FinishTask(r)
       PROVE  TypeOK'
  <2>1. CASE Fails(r)
    BY <1>8, <1>10, <2>1 DEF FinishTask, Leaves
  <2>2. CASE /\ \E s \in {"succeeded", "suppressed", "cancelled"} :
                   status' = [status EXCEPT ![r] = s]
             /\ Touch(r)
             /\ UNCHANGED <<row, due, attempts, requested>>
    <3>1. status' \in [RunId -> Status]
      BY <2>2
    <3> QED
      BY <1>10, <2>2, <3>1 DEF FinishTask, Leaves, Touch
  <2> QED
    BY <1>10, <2>1, <2>2 DEF FinishTask
<1>11. ASSUME NEW r \in RunId, Sweep(r)
       PROVE  TypeOK'
  BY <1>8, <1>11 DEF Sweep
<1>12. ASSUME NEW r \in RunId, Heartbeat(r) \/ ComeDue(r) \/ GrowStale(r)
       PROVE  TypeOK'
  BY <1>12 DEF Heartbeat, ComeDue, GrowStale, Touch
<1>13. CASE Close \/ Crash \/ Restart
  BY <1>13 DEF Close, Crash, Restart, Nobody
<1>14. CASE UNCHANGED vars
  BY <1>14 DEF vars
<1>15. ASSUME NEW w \in Worker, WorkerStep(w)
       PROVE  TypeOK'
  BY <1>5, <1>6, <1>7, <1>9, <1>10, <1>15 DEF WorkerStep
<1>16. CASE Input
  BY <1>1, <1>2, <1>3, <1>16 DEF Input
<1> QED
  BY <1>4, <1>11, <1>12, <1>13, <1>14, <1>15, <1>16 DEF Next

-----------------------------------------------------------------------------
(* What the steps may do to the accounts, row by row.                      *)

\* r waits in a worker's memory and its execution has not started.
HeldIdle(r) == HeldBySome(r) /\ ~Inflight(r)

\* The table gains at most new rows, each asked for once; an old row becomes
\* no more claimable than it was.
InsertsOnly ==
    /\ created <= created'
    /\ \A q \in RunId :
        /\ q <= created => kind'[q] = kind[q] /\ requested'[q] = requested[q]
        /\ q > created /\ q <= created' => requested'[q] = 1
        /\ q > created' => /\ requested'[q] = requested[q]
                           /\ policy'[q] = policy[q] /\ status'[q] = status[q]
        /\ status'[q] \in Claimable =>
              status[q] \in Claimable \/ (q > created /\ q <= created')

\* Inserting a row, with any effect on the old rows that queues none of them.
LEMMA NewRowEffect ==
    ASSUME TypeOK, NEW k, NEW s, NEW d, NewRow(k, s, d)
    PROVE  /\ created + 1 \in RunId /\ created' = created + 1 /\ created \in Nat
           /\ \A q \in RunId :
                /\ kind'[q] = IF q = created + 1 THEN k ELSE kind[q]
                /\ requested'[q] = IF q = created + 1 THEN 1 ELSE requested[q]
BY TaskRunsAssumption DEF TypeOK, NewRow

LEMMA EnqueueInserts ==
    ASSUME TypeOK, NEW k, NEW s, NEW d, NEW p, Enqueue(k, s, d, p)
    PROVE  InsertsOnly
<1>1. NewRow(k, s, d)
  BY DEF Enqueue
<1>2. \A q \in RunId : q # created + 1 => status'[q] = status[q] /\ policy'[q] = policy[q]
  BY DEF Enqueue, TypeOK
<1> QED
  BY <1>1, <1>2, NewRowEffect, RunIdNat DEF InsertsOnly

LEMMA RunScheduledInserts ==
    ASSUME TypeOK, FreshRows, NEW k, NEW p, RunScheduled(k, p)
    PROVE  InsertsOnly
<1>1. NewRow(k, TRUE, TRUE)
  BY DEF RunScheduled
<1>2. \A q \in RunId : q # created + 1 => policy'[q] = policy[q]
  BY DEF RunScheduled, TypeOK
<1>3. \A q \in RunId : q # created + 1 => status'[q] = "absent" \/ status'[q] = status[q]
  BY DEF RunScheduled
<1>4. \A q \in RunId : q # created + 1 /\ status[q] = "absent" => status'[q] = status[q]
  BY DEF RunScheduled
<1>5. ASSUME NEW q \in RunId, q > created + 1
      PROVE  status'[q] = status[q]
  <2>1. status[q] = "absent" /\ q # created + 1
    BY <1>5, RunIdNat DEF FreshRows, TypeOK
  <2> QED
    BY <1>4, <2>1
<1>6. created + 1 \in RunId /\ created' = created + 1 /\ created \in Nat
  BY <1>1, NewRowEffect
<1>7. \A q \in RunId : q # created + 1 => kind'[q] = kind[q] /\ requested'[q] = requested[q]
  BY <1>1, NewRowEffect
<1>8. requested'[created + 1] = 1
  BY <1>1, NewRowEffect
<1>9. \A q \in RunId : q # created + 1 /\ status'[q] \in Claimable => status[q] \in Claimable
  BY <1>3 DEF Claimable
<1> QED
  BY <1>2, <1>5, <1>6, <1>7, <1>8, <1>9, RunIdNat DEF InsertsOnly


LEMMA FailsInserts ==
    ASSUME TypeOK, FreshRows, NEW r \in RunId, status[r] # "absent", Fails(r)
    PROVE  /\ InsertsOnly
           /\ attempts' = [attempts EXCEPT ![r] = @ + 1]
<1>1. r <= created /\ created \in Nat
  BY RunIdNat DEF FreshRows, TypeOK
<1>2. CASE policy[r] = "armed" /\ NewRow("delivery", FALSE, TRUE)
           /\ policy' = [policy EXCEPT ![r] = "planned"]
           /\ status' = [status EXCEPT ![r] = "failed", ![created + 1] = "queued"]
  <2>1. \A q \in RunId : q # created + 1 /\ q # r =>
          status'[q] = status[q] /\ policy'[q] = policy[q]
    BY <1>2 DEF TypeOK
  <2>2. r # created + 1 => status'[r] = "failed"
    BY <1>2 DEF TypeOK
  <2>3. created + 1 \in RunId /\ created' = created + 1
    BY <1>2, NewRowEffect
  <2>4. \A q \in RunId : q # created + 1 => kind'[q] = kind[q] /\ requested'[q] = requested[q]
    BY <1>2, NewRowEffect
  <2>5. requested'[created + 1] = 1
    BY <1>2, <2>3, NewRowEffect
  <2>6. \A q \in RunId : q # created + 1 /\ status'[q] \in Claimable => status[q] \in Claimable
    BY <2>1, <2>2 DEF Claimable
  <2> QED
    BY <1>1, <2>1, <2>2, <2>3, <2>4, <2>5, <2>6, RunIdNat DEF InsertsOnly, Fails
<1>3. CASE status' = [status EXCEPT ![r] = "failed"] /\ UNCHANGED <<row, due, requested>>
  <2>1. \A q \in RunId : q # r => status'[q] = status[q]
    BY <1>3 DEF TypeOK
  <2>2. status'[r] = "failed"
    BY <1>3 DEF TypeOK
  <2> QED
    BY <1>1, <1>3, <2>1, <2>2, RunIdNat DEF InsertsOnly, Claimable, Fails, row
<1> QED
  BY <1>2, <1>3 DEF Fails

\* A worker leaving a record of its own takes it out of play; nothing else moves.
LEMMA LeavesEffect ==
    ASSUME TypeOK, OwnRows, NEW w \in Worker, NEW r \in held[w],
           current[w] \in {Nobody, r}, Leaves(w, r)
    PROVE  /\ \A q \in RunId : HeldIdle(q)' => HeldIdle(q) /\ q # r
           /\ \A v \in Worker : held'[v] \subseteq held[v]
           /\ \A v \in Worker : current'[v] # Nobody =>
                                  current'[v] = current[v] /\ v # w
           /\ \A v \in Worker : v # w => held'[v] = held[v]
           /\ \A q \in RunId : q # r => seen'[q] = seen[q]
<1>1. /\ held'[w] = held[w] \ {r} /\ current'[w] = Nobody
      /\ \A v \in Worker : v # w => held'[v] = held[v] /\ current'[v] = current[v]
  BY DEF Leaves, TypeOK
<1>2. ASSUME NEW q \in RunId, HeldIdle(q)'
      PROVE  HeldIdle(q) /\ q # r
  <2>1. PICK v \in Worker : q \in held'[v]
    BY <1>2 DEF HeldIdle, HeldBySome
  <2>2. q \in held[v] /\ q # r
    BY <1>1, <2>1, OneHolder
  <2>3. ASSUME NEW u \in Worker, current[u] = q
        PROVE  FALSE
    <3>1. u # w
      BY <2>2, <2>3, RunIdNat
    <3> QED
      BY <1>1, <1>2, <2>3, <3>1 DEF HeldIdle, Inflight
  <2> QED
    BY <2>2, <2>3 DEF HeldIdle, HeldBySome, Inflight
<1>3. \A q \in RunId : q # r => seen'[q] = seen[q]
  BY DEF Leaves, TypeOK
<1> QED
  BY <1>1, <1>2, <1>3


-----------------------------------------------------------------------------
(* Most steps are quiet: no execution starts, none is asked for except by  *)
(* a new row, and the workers' memory only shrinks.                        *)

Quiet ==
    /\ InsertsOnly
    /\ UNCHANGED <<begun, autoRetried>>
    /\ \A q \in RunId : HeldIdle(q)' => HeldIdle(q)
    /\ \A v \in Worker :
        /\ held'[v] \subseteq held[v]
        /\ current'[v] # Nobody => current'[v] = current[v] /\ current'[v] \in held'[v]
    /\ \A q \in RunId : attempts[q] <= attempts'[q]
    /\ \A q \in held'[NotifyWorker] : seen'[q] = seen[q]

\* A quiet step keeps the inductive invariant.
LEMMA QuietKeeps ==
    ASSUME IInv, TypeOK', Quiet
    PROVE  IInv'
<1>1. created \in Nat /\ created' \in Nat /\ created <= created'
  BY DEF IInv, TypeOK, Quiet, InsertsOnly
<1>2. FreshRows'
  <2>1. ASSUME NEW r \in RunId, r > created'
        PROVE  r > created /\ status'[r] = status[r] /\ requested'[r] = requested[r]
                           /\ policy'[r] = policy[r]
    BY <1>1, <2>1, RunIdNat DEF Quiet, InsertsOnly
  <2> QED
    BY <2>1 DEF IInv, FreshRows, Quiet
<1>3. OwnRows'
  <2>1. ASSUME NEW w \in Worker, NEW r \in held'[w]
        PROVE  r <= created' /\ ServedBy(kind'[r]) = w
    <3>1. r \in held[w] /\ r \in RunId
      BY <2>1 DEF Quiet, IInv, TypeOK
    <3> QED
      BY <1>1, <3>1, RunIdNat DEF IInv, OwnRows, Quiet, InsertsOnly
  <2> QED
    BY <2>1 DEF OwnRows, Quiet
<1>4. RetriesCounted'
  <2>1. ASSUME NEW r \in RunId
        PROVE  autoRetried'[r] <= attempts'[r]
    BY DEF IInv, TypeOK, RetriesCounted, Quiet
  <2>2. ASSUME NEW r \in RunId, r \in held'[NotifyWorker]
        PROVE  autoRetried'[r] <= seen'[r]
    BY <2>2, WorkersDiffer DEF IInv, RetriesCounted, Quiet
  <2> QED
    BY <2>1, <2>2 DEF RetriesCounted
<1>5. AutoRetryBounded'
  BY DEF IInv, AutoRetryBounded, Quiet
<1>6. AtMostOncePerRequest'
  <2> SUFFICES ASSUME NEW q \in RunId
               PROVE  begun'[q] + Prospects(q)' <= requested'[q] + autoRetried'[q]
    BY DEF AtMostOncePerRequest
  <2>1. /\ begun'[q] = begun[q] /\ autoRetried'[q] = autoRetried[q]
        /\ begun[q] \in Nat /\ autoRetried[q] \in Nat
        /\ requested[q] \in Nat /\ requested'[q] \in Nat
    BY DEF IInv, TypeOK, Quiet
  <2>2. HeldIdle(q)' => HeldIdle(q)
    BY DEF Quiet
  <2>3. begun[q] + Prospects(q) <= requested[q] + autoRetried[q]
    BY DEF IInv, AtMostOncePerRequest
  <2>4. CASE q <= created \/ q > created'
    <3>1. requested'[q] = requested[q] /\ (status'[q] \in Claimable => status[q] \in Claimable)
      BY <1>1, <2>4, RunIdNat DEF Quiet, InsertsOnly
    <3> QED
      BY <2>1, <2>2, <2>3, <3>1 DEF Prospects, HeldIdle
  <2>5. CASE q > created /\ q <= created'
    <3>1. requested'[q] = 1 /\ begun[q] = 0
      BY <2>5 DEF Quiet, InsertsOnly, IInv, FreshRows
    <3>2. ~HeldBySome(q)
      BY <1>1, <2>5, RunIdNat DEF HeldBySome, IInv, OwnRows
    <3>3. ~HeldIdle(q)'
      BY <2>2, <3>2 DEF HeldIdle
    <3>4. Prospects(q)' <= 1
      BY <3>3 DEF Prospects, HeldIdle
    <3>5. Prospects(q)' \in Nat
      BY DEF Prospects
    <3> QED
      BY <2>1, <3>1, <3>4, <3>5
  <2> QED
    BY <1>1, <2>4, <2>5, RunIdNat
<1> QED
  BY <1>2, <1>3, <1>4, <1>5, <1>6 DEF IInv

\* A mark that settles r and inserts nothing.
LEMMA SettleInserts ==
    ASSUME TypeOK, FreshRows, NEW r \in RunId, status[r] # "absent",
           NEW s \in Settled, status' = [status EXCEPT ![r] = s],
           UNCHANGED <<row, requested>>
    PROVE  InsertsOnly
<1>1. r <= created /\ created \in Nat
  BY RunIdNat DEF FreshRows, TypeOK
<1>2. \A q \in RunId : q # r => status'[q] = status[q]
  BY DEF TypeOK
<1>3. status'[r] \notin Claimable
  BY DEF TypeOK, Settled, Claimable
<1> QED
  BY <1>1, <1>2, <1>3, RunIdNat DEF InsertsOnly, row

LEMMA NothingInserted ==
    ASSUME TypeOK, UNCHANGED <<row, requested, status>>
    PROVE  InsertsOnly
BY RunIdNat DEF TypeOK, InsertsOnly, row

\* The worker's memory stands still.
LEMMA MemoryKept ==
    ASSUME TypeOK, OwnRows, UNCHANGED memory, InsertsOnly, UNCHANGED <<begun, autoRetried>>,
           \A q \in RunId : attempts[q] <= attempts'[q]
    PROVE  Quiet
BY DEF Quiet, memory, HeldIdle, HeldBySome, Inflight, OwnRows

\* A worker leaves one record.
LEMMA LeavingQuiet ==
    ASSUME TypeOK, OwnRows, NEW w \in Worker, NEW r \in held[w],
           current[w] \in {Nobody, r}, Leaves(w, r), InsertsOnly,
           UNCHANGED <<begun, autoRetried>>,
           \A q \in RunId : attempts[q] <= attempts'[q]
    PROVE  Quiet
<1>1. r \in RunId
  BY DEF TypeOK
<1>2. ASSUME NEW v \in Worker, current'[v] # Nobody
      PROVE  current'[v] = current[v] /\ current'[v] \in held'[v]
  BY <1>1, <1>2, LeavesEffect DEF OwnRows
<1>3. ASSUME NEW q \in held'[NotifyWorker]
      PROVE  seen'[q] = seen[q]
  <2>1. q \in held[NotifyWorker] /\ q \in RunId
    BY <1>1, <1>3, LeavesEffect, WorkersDiffer DEF TypeOK
  <2>2. q # r
    <3>1. CASE w = NotifyWorker
      BY <1>3, <3>1, WorkersDiffer DEF Leaves, TypeOK
    <3>2. CASE w # NotifyWorker
      BY <2>1, <3>2, OneHolder, WorkersDiffer
    <3> QED
      BY <3>1, <3>2
  <2> QED
    BY <1>1, <2>1, <2>2, LeavesEffect
<1> QED
  BY <1>1, <1>2, <1>3, LeavesEffect DEF Quiet


\* Every action but Claim, Begin, Retry and an automatic retry is quiet.
LEMMA QuietActions ==
    ASSUME IInv
    PROVE  /\ \A k \in Kinds, s \in BOOLEAN, d \in BOOLEAN, p \in {"off", "armed"} :
                Enqueue(k, s, d, p) => Quiet
           /\ \A k \in Kinds, p \in {"off", "armed"} : RunScheduled(k, p) => Quiet
           /\ \A r \in RunId :
                /\ Cancel(r) \/ CancelIfUnclaimed(r) => Quiet
                /\ TurnAway(r) \/ Reject(r) \/ FinishTask(r) => Quiet
                /\ MissingDelivery(r) => Quiet
                /\ FinishNotification(r) /\ UNCHANGED autoRetried => Quiet
                /\ Heartbeat(r) \/ Sweep(r) \/ ComeDue(r) \/ GrowStale(r) => Quiet
           /\ \A w \in Worker : Abandon(w) => Quiet
           /\ Close \/ Crash \/ Restart \/ UNCHANGED vars => Quiet
<1> USE DEF IInv
<1>a. attempts \in [RunId -> Nat] /\ \A q \in RunId : attempts[q] <= attempts[q]
  BY DEF TypeOK
<1>b. ASSUME NEW r \in RunId, attempts' = [attempts EXCEPT ![r] = @ + 1]
      PROVE  \A q \in RunId : attempts[q] <= attempts'[q]
  BY <1>a, <1>b
<1>1. ASSUME NEW k \in Kinds, NEW s \in BOOLEAN, NEW d \in BOOLEAN,
             NEW p \in {"off", "armed"}, Enqueue(k, s, d, p)
      PROVE  Quiet
  <2>1. UNCHANGED <<attempts, memory, begun, autoRetried>>
    BY <1>1 DEF Enqueue
  <2> QED
    BY <1>a, <1>1, <2>1, EnqueueInserts, MemoryKept
<1>2. ASSUME NEW k \in Kinds, NEW p \in {"off", "armed"}, RunScheduled(k, p)
      PROVE  Quiet
  <2>1. UNCHANGED <<attempts, memory, begun, autoRetried>>
    BY <1>2 DEF RunScheduled
  <2> QED
    BY <1>a, <1>2, <2>1, RunScheduledInserts, MemoryKept
<1>3. ASSUME NEW r \in RunId, Cancel(r) \/ CancelIfUnclaimed(r)
      PROVE  Quiet
  <2>1. /\ status[r] # "absent" /\ status' = [status EXCEPT ![r] = "cancelled"]
        /\ UNCHANGED <<row, attempts, memory, history>>
    BY <1>3 DEF Cancel, CancelIfUnclaimed, Claimable
  <2>2. InsertsOnly
    BY <2>1, SettleInserts DEF Settled, history
  <2> QED
    BY <1>a, <2>1, <2>2, MemoryKept DEF history
<1>4. ASSUME NEW r \in RunId, TurnAway(r)
      PROVE  Quiet
  <2>1. /\ status[r] # "absent" /\ Takes(TaskWorker, r) /\ Leaves(TaskWorker, r)
        /\ UNCHANGED <<row, attempts, history>>
    BY <1>4 DEF TurnAway
  <2>2. PICK s \in {"blocked", "skipped"} : status' = [status EXCEPT ![r] = s]
    BY <1>4 DEF TurnAway
  <2>3. InsertsOnly
    BY <2>1, <2>2, SettleInserts DEF Settled, history
  <2> QED
    BY <1>a, <2>1, <2>3, LeavingQuiet, WorkersDiffer DEF Takes, history
<1>5. ASSUME NEW r \in RunId, NEW w \in Worker, status[r] # "absent", Fails(r),
             r \in held[w], current[w] \in {Nobody, r}, Leaves(w, r),
             UNCHANGED <<begun, autoRetried>>
      PROVE  Quiet
  BY <1>b, <1>5, FailsInserts, LeavingQuiet
<1>6. ASSUME NEW r \in RunId, Reject(r)
      PROVE  Quiet
  BY <1>5, <1>6, WorkersDiffer DEF Reject, Takes
<1>7. ASSUME NEW r \in RunId, FinishTask(r)
      PROVE  Quiet
  <2>1. /\ status[r] # "absent" /\ current[TaskWorker] = r /\ r \in held[TaskWorker]
        /\ Leaves(TaskWorker, r) /\ UNCHANGED <<begun, autoRetried>>
    BY <1>7, RunIdNat, WorkersDiffer DEF FinishTask, OwnRows
  <2>2. CASE Fails(r)
    BY <1>5, <2>1, <2>2, WorkersDiffer
  <2>3. ASSUME NEW s \in {"succeeded", "suppressed", "cancelled"},
               status' = [status EXCEPT ![r] = s],
               UNCHANGED <<row, attempts, requested>>
        PROVE  Quiet
    <3>1. InsertsOnly
      BY <2>1, <2>3, SettleInserts DEF Settled
    <3> QED
      BY <1>a, <2>1, <2>3, <3>1, LeavingQuiet, WorkersDiffer
  <2> QED
    BY <1>7, <2>2, <2>3 DEF FinishTask
<1>8. ASSUME NEW r \in RunId, NEW s \in Settled, r \in held[NotifyWorker],
             current[NotifyWorker] \in {Nobody, r}, Leaves(NotifyWorker, r),
             status[r] # "absent", status' = [status EXCEPT ![r] = s],
             attempts' = [attempts EXCEPT ![r] = @ + 1],
             UNCHANGED <<row, requested, begun, autoRetried>>
      PROVE  Quiet
  BY <1>b, <1>8, SettleInserts, LeavingQuiet, WorkersDiffer
<1>9. ASSUME NEW r \in RunId, MissingDelivery(r)
      PROVE  Quiet
  BY <1>8, <1>9 DEF MissingDelivery, Takes, Settled, history
<1>10. ASSUME NEW r \in RunId, FinishNotification(r), UNCHANGED autoRetried
       PROVE  Quiet
  <2>1. autoRetried'[r] # autoRetried[r] + 1
    BY <1>10 DEF TypeOK
  <2>2. \E s \in {"succeeded", "failed"} : status' = [status EXCEPT ![r] = s]
    BY <1>10, <2>1 DEF FinishNotification, TypeOK
  <2>3. r \in held[NotifyWorker] /\ current[NotifyWorker] = r
    BY <1>10, RunIdNat, WorkersDiffer DEF FinishNotification, OwnRows
  <2> QED
    BY <1>8, <1>10, <2>2, <2>3 DEF FinishNotification, Settled
<1>11. ASSUME NEW r \in RunId, Sweep(r)
       PROVE  Quiet
  <2>1. status[r] # "absent" /\ Fails(r) /\ UNCHANGED <<memory, begun, autoRetried>>
    BY <1>11 DEF Sweep
  <2> QED
    BY <1>b, <2>1, FailsInserts, MemoryKept
<1>12. ASSUME UNCHANGED <<row, status, attempts, memory, history>>
       PROVE  Quiet
  BY <1>a, <1>12, NothingInserted, MemoryKept DEF history
<1>13. ASSUME NEW r \in RunId, Heartbeat(r) \/ ComeDue(r) \/ GrowStale(r)
       PROVE  Quiet
  BY <1>12, <1>13 DEF Heartbeat, ComeDue, GrowStale
<1>14. CASE Close \/ Restart \/ UNCHANGED vars
  BY <1>12, <1>14 DEF Close, Restart, vars
<1>15. ASSUME NEW w \in Worker, Abandon(w)
       PROVE  Quiet
  <2>1. /\ held'[w] = {} /\ current'[w] = Nobody
        /\ \A v \in Worker : v # w => held'[v] = held[v] /\ current'[v] = current[v]
        /\ \A q \in RunId : q \notin held[w] => seen'[q] = seen[q]
    BY <1>15 DEF Abandon, TypeOK
  <2>2. ASSUME NEW q \in RunId, HeldIdle(q)'
        PROVE  HeldIdle(q)
    <3>1. PICK v \in Worker : q \in held'[v]
      BY <2>2 DEF HeldIdle, HeldBySome
    <3>2. q \in held[v] /\ v # w
      BY <2>1, <3>1
    <3>3. ASSUME NEW u \in Worker, current[u] = q
          PROVE  FALSE
      <4>1. q \in held[u]
        BY <3>3, RunIdNat DEF OwnRows
      <4>2. u = v
        BY <3>2, <4>1, OneHolder
      <4> QED
        BY <2>1, <2>2, <3>2, <3>3, <4>2 DEF HeldIdle, Inflight
    <3> QED
      BY <3>2, <3>3 DEF HeldIdle, HeldBySome, Inflight
  <2>3. \A q \in held'[NotifyWorker] : seen'[q] = seen[q]
    <3>1. CASE w = NotifyWorker
      BY <2>1, <3>1
    <3>2. CASE w # NotifyWorker
      <4>1. \A q \in held'[NotifyWorker] : q \in held[NotifyWorker] /\ q \in RunId
        BY <2>1, <3>2, WorkersDiffer DEF TypeOK
      <4>2. \A q \in held[NotifyWorker] : q \notin held[w]
        BY <3>2, OneHolder, WorkersDiffer
      <4> QED
        BY <2>1, <4>1, <4>2
    <3> QED
      BY <3>1, <3>2
  <2>4. UNCHANGED <<row, status, attempts, history>>
    BY <1>15 DEF Abandon
  <2>5. InsertsOnly
    BY <2>4, NothingInserted DEF history
  <2> QED
    BY <1>a, <2>1, <2>2, <2>3, <2>4, <2>5 DEF Quiet, history, OwnRows
<1>16. CASE Crash
  <2>1. UNCHANGED <<row, status, attempts, history>>
    BY <1>16 DEF Crash
  <2>2. \A v \in Worker : held'[v] = {} /\ current'[v] = Nobody
    BY <1>16 DEF Crash
  <2>3. InsertsOnly
    BY <2>1, NothingInserted DEF history
  <2>4. \A q \in RunId : ~HeldIdle(q)'
    BY <2>2 DEF HeldIdle, HeldBySome
  <2> QED
    BY <1>a, <2>1, <2>2, <2>3, <2>4, WorkersDiffer DEF Quiet, history
<1> QED
  BY <1>1, <1>2, <1>3, <1>4, <1>6, <1>7, <1>9, <1>10, <1>11, <1>13, <1>14, <1>15, <1>16


-----------------------------------------------------------------------------
(* The four steps that do move the accounts.                               *)

\* A claim turns claimable rows into held ones: each keeps its one prospect.
LEMMA ClaimKeeps ==
    ASSUME IInv, TypeOK', NEW w \in Worker, Claim(w)
    PROVE  IInv'
<1> USE DEF IInv
<1>1. PICK S \in SUBSET Runnable(w) :
        /\ held' = [held EXCEPT ![w] = S]
        /\ status' = [r \in RunId |-> IF r \in S THEN "running" ELSE status[r]]
        /\ seen' = [r \in RunId |-> IF r \in S THEN attempts[r] ELSE seen[r]]
  BY DEF Claim
<1>2. UNCHANGED <<row, attempts, current, history>> /\ held[w] = {}
  BY DEF Claim
<1>3. \A r \in S : r \in RunId /\ status[r] \in Claimable /\ ServedBy(kind[r]) = w
  BY DEF Runnable
<1>4. \A r \in S : r <= created
  <2>1. created \in Nat /\ \A r \in RunId : r \in Nat
    BY RunIdNat DEF TypeOK
  <2>2. \A r \in S : ~(r > created)
    BY <1>3 DEF FreshRows, Claimable
  <2> QED
    BY <1>3, <2>1, <2>2
<1>5. held'[w] = S /\ \A v \in Worker : v # w => held'[v] = held[v]
  BY <1>1 DEF TypeOK
<1>6. FreshRows'
  <2>1. \A r \in RunId : status[r] = "absent" => status'[r] = "absent"
    BY <1>1, <1>3 DEF Claimable
  <2> QED
    BY <1>2, <2>1 DEF FreshRows, row, history
<1>7. OwnRows'
  <2>1. current[w] = Nobody
    BY <1>2 DEF OwnRows
  <2> QED
    BY <1>2, <1>3, <1>4, <1>5, <2>1 DEF OwnRows, row
<1>8. RetriesCounted'
  <2>1. ASSUME NEW r \in RunId, r \in held'[NotifyWorker]
        PROVE  autoRetried[r] <= seen'[r]
    <3>1. CASE r \in S
      BY <1>1, <3>1 DEF RetriesCounted
    <3>2. CASE r \notin S
      <4>1. r \in held[NotifyWorker]
        BY <1>5, <2>1, <3>2, WorkersDiffer
      <4> QED
        BY <1>1, <3>2, <4>1 DEF RetriesCounted
    <3> QED
      BY <3>1, <3>2
  <2> QED
    BY <1>2, <2>1 DEF RetriesCounted, history
<1>9. AutoRetryBounded'
  BY <1>2 DEF AutoRetryBounded, history
<1>10. AtMostOncePerRequest'
  <2> SUFFICES ASSUME NEW q \in RunId PROVE Prospects(q)' <= Prospects(q)
    BY <1>2 DEF AtMostOncePerRequest, history, TypeOK, Prospects
  <2>1. CASE q \in S
    <3>1. status'[q] \notin Claimable /\ status[q] \in Claimable
      BY <1>1, <1>3, <2>1 DEF Claimable
    <3> QED
      BY <3>1 DEF Prospects
  <2>2. CASE q \notin S
    <3>1. status'[q] = status[q]
      BY <1>1, <2>2
    <3>2. HeldBySome(q)' => HeldBySome(q)
      BY <1>5, <2>2 DEF HeldBySome
    <3>3. Inflight(q)' <=> Inflight(q)
      BY <1>2 DEF Inflight
    <3> QED
      BY <3>1, <3>2, <3>3 DEF Prospects
  <2> QED
    BY <2>1, <2>2
<1> QED
  BY <1>6, <1>7, <1>8, <1>9, <1>10

\* Starting a held run spends its prospect.
LEMMA BeginKeeps ==
    ASSUME IInv, TypeOK', NEW w \in Worker, NEW r \in RunId, Begin(w, r)
    PROVE  IInv'
<1> USE DEF IInv
<1>1. /\ UNCHANGED <<row, status, attempts, held, seen, requested, autoRetried>>
      /\ r \in held[w] /\ current[w] = Nobody
      /\ current' = [current EXCEPT ![w] = r] /\ begun' = [begun EXCEPT ![r] = @ + 1]
  BY DEF Begin, Takes
<1>2. r <= created /\ created \in Nat
  BY <1>1 DEF OwnRows, TypeOK
<1>3. FreshRows'
  <2>1. \A q \in RunId : q > created => begun'[q] = begun[q]
    BY <1>1, <1>2, RunIdNat DEF TypeOK
  <2> QED
    BY <1>1, <2>1 DEF FreshRows, row
<1>4. OwnRows'
  BY <1>1 DEF OwnRows, TypeOK, row
<1>5. RetriesCounted' /\ AutoRetryBounded'
  BY <1>1 DEF RetriesCounted, AutoRetryBounded
<1>6. ~Inflight(r)
  <2> SUFFICES ASSUME NEW v \in Worker, current[v] = r PROVE FALSE
    BY DEF Inflight
  <2>1. r \in held[v]
    BY RunIdNat DEF OwnRows
  <2> QED
    BY <1>1, <2>1, OneHolder, RunIdNat
<1>7. AtMostOncePerRequest'
  <2> SUFFICES ASSUME NEW q \in RunId
               PROVE  begun'[q] + Prospects(q)' <= begun[q] + Prospects(q)
    BY <1>1 DEF AtMostOncePerRequest, TypeOK, Prospects
  <2>1. HeldBySome(q)' <=> HeldBySome(q)
    BY <1>1 DEF HeldBySome
  <2>2. CASE q = r
    <3>1. Inflight(q)' /\ HeldBySome(q) /\ begun'[q] = begun[q] + 1
      BY <1>1, <2>2 DEF Inflight, HeldBySome, TypeOK
    <3> QED
      BY <1>1, <1>6, <2>1, <2>2, <3>1 DEF Prospects, TypeOK
  <2>3. CASE q # r
    <3>1. begun'[q] = begun[q] /\ begun[q] \in Nat
      BY <1>1, <2>3 DEF TypeOK
    <3>2. Inflight(q)' <=> Inflight(q)
      BY <1>1, <2>3, RunIdNat DEF Inflight, TypeOK
    <3> QED
      BY <1>1, <2>1, <3>1, <3>2 DEF Prospects
  <2> QED
    BY <2>2, <2>3
<1> QED
  BY <1>3, <1>4, <1>5, <1>7

\* A retry by hand makes the row claimable, and was asked for.
LEMMA RetryKeeps ==
    ASSUME IInv, TypeOK', NEW r \in RunId, Retry(r)
    PROVE  IInv'
<1> USE DEF IInv
<1>1. /\ UNCHANGED <<row, held, current, seen, begun, autoRetried>>
      /\ status[r] # "absent" /\ status' = [status EXCEPT ![r] = "retrying"]
      /\ requested' = [requested EXCEPT ![r] = @ + 1]
      /\ attempts' = [attempts EXCEPT ![r] = @ + 1]
  BY DEF Retry, memory
<1>2. r <= created /\ created \in Nat
  BY <1>1, RunIdNat DEF FreshRows, TypeOK
<1>3. FreshRows'
  <2>1. \A q \in RunId : q > created => status'[q] = status[q] /\ requested'[q] = requested[q]
    BY <1>1, <1>2, RunIdNat DEF TypeOK
  <2> QED
    BY <1>1, <2>1 DEF FreshRows, row
<1>4. OwnRows' /\ AutoRetryBounded'
  BY <1>1 DEF OwnRows, AutoRetryBounded, row
<1>5. RetriesCounted'
  <2>1. \A q \in RunId : attempts[q] <= attempts'[q]
    BY <1>1 DEF TypeOK
  <2> QED
    BY <1>1, <2>1 DEF RetriesCounted, TypeOK
<1>6. AtMostOncePerRequest'
  <2> SUFFICES ASSUME NEW q \in RunId
               PROVE  begun'[q] + Prospects(q)' <= requested'[q] + autoRetried'[q]
    BY DEF AtMostOncePerRequest
  <2>1. /\ begun'[q] = begun[q] /\ autoRetried'[q] = autoRetried[q]
        /\ HeldBySome(q)' <=> HeldBySome(q)
        /\ Inflight(q)' <=> Inflight(q)
        /\ begun[q] + Prospects(q) <= requested[q] + autoRetried[q]
    BY <1>1 DEF HeldBySome, Inflight, AtMostOncePerRequest
  <2>2. begun[q] \in Nat /\ autoRetried[q] \in Nat /\ requested[q] \in Nat
    BY DEF TypeOK
  <2>3. CASE q = r
    <3>1. requested'[q] = requested[q] + 1
      BY <1>1, <2>3 DEF TypeOK
    <3> QED
      BY <2>1, <2>2, <3>1 DEF Prospects
  <2>4. CASE q # r
    <3>1. requested'[q] = requested[q] /\ status'[q] = status[q]
      BY <1>1, <2>4 DEF TypeOK
    <3> QED
      BY <2>1, <2>2, <3>1 DEF Prospects
  <2> QED
    BY <2>3, <2>4
<1> QED
  BY <1>3, <1>4, <1>5, <1>6

\* An automatic retry is granted on the snapshot, which counts all earlier ones.
LEMMA AutoRetryKeeps ==
    ASSUME IInv, TypeOK', NEW r \in RunId, FinishNotification(r), ~UNCHANGED autoRetried
    PROVE  IInv'
<1> USE DEF IInv
<1>1. /\ current[NotifyWorker] = r /\ status[r] # "absent" /\ Leaves(NotifyWorker, r)
      /\ UNCHANGED <<row, requested, begun>> /\ seen[r] + 1 < MaxAttempts
      /\ status' = [status EXCEPT ![r] = "retrying"]
      /\ attempts' = [attempts EXCEPT ![r] = @ + 1]
      /\ autoRetried' = [autoRetried EXCEPT ![r] = @ + 1]
  BY DEF FinishNotification
<1>2. r \in held[NotifyWorker] /\ NotifyWorker \in Worker
  BY <1>1, RunIdNat, WorkersDiffer DEF OwnRows
<1>3. r <= created /\ created \in Nat
  BY <1>2 DEF OwnRows, TypeOK
<1>4. FreshRows'
  <2>1. \A q \in RunId : q > created => status'[q] = status[q] /\ autoRetried'[q] = autoRetried[q]
    BY <1>1, <1>3, RunIdNat DEF TypeOK
  <2> QED
    BY <1>1, <2>1 DEF FreshRows, row
<1>5. /\ \A q \in RunId : HeldIdle(q)' => HeldIdle(q) /\ q # r
      /\ \A v \in Worker : held'[v] \subseteq held[v]
      /\ \A v \in Worker : current'[v] # Nobody => current'[v] = current[v] /\ v # NotifyWorker
      /\ \A v \in Worker : v # NotifyWorker => held'[v] = held[v]
      /\ \A q \in RunId : q # r => seen'[q] = seen[q]
  BY <1>1, <1>2, LeavesEffect
<1>6. OwnRows'
  BY <1>1, <1>5 DEF OwnRows, row
<1>7. RetriesCounted'
  <2>1. \A q \in RunId : autoRetried'[q] <= attempts'[q]
    BY <1>1 DEF RetriesCounted, TypeOK
  <2>2. ASSUME NEW q \in RunId, q \in held'[NotifyWorker]
        PROVE  autoRetried'[q] <= seen'[q]
    <3>1. q # r /\ q \in held[NotifyWorker]
      BY <1>1, <1>2, <2>2 DEF Leaves, TypeOK
    <3> QED
      BY <1>1, <1>5, <3>1 DEF RetriesCounted, TypeOK
  <2> QED
    BY <2>1, <2>2 DEF RetriesCounted
<1>8. AutoRetryBounded'
  <2>1. autoRetried[r] <= seen[r] /\ autoRetried[r] \in Nat /\ seen[r] \in Nat
    BY <1>2 DEF RetriesCounted, TypeOK
  <2>2. autoRetried'[r] <= MaxAttempts - 1
    BY <1>1, <2>1, TaskRunsAssumption DEF TypeOK
  <2> QED
    BY <1>1, <2>2 DEF AutoRetryBounded, TypeOK
<1>9. AtMostOncePerRequest'
  <2> SUFFICES ASSUME NEW q \in RunId
               PROVE  begun'[q] + Prospects(q)' <= requested'[q] + autoRetried'[q]
    BY DEF AtMostOncePerRequest
  <2>1. /\ begun'[q] = begun[q] /\ requested'[q] = requested[q]
        /\ HeldIdle(q)' => HeldIdle(q)
        /\ begun[q] + Prospects(q) <= requested[q] + autoRetried[q]
        /\ begun[q] \in Nat /\ autoRetried[q] \in Nat /\ requested[q] \in Nat
    BY <1>1, <1>5 DEF AtMostOncePerRequest, TypeOK
  <2>2. CASE q = r
    <3>1. autoRetried'[q] = autoRetried[q] + 1 /\ ~HeldIdle(q)'
      BY <1>1, <1>5, <2>2 DEF TypeOK
    <3>2. Prospects(q)' <= 1 /\ Prospects(q)' \in Nat /\ Prospects(q) \in Nat
      BY <3>1 DEF Prospects, HeldIdle
    <3> QED
      BY <2>1, <3>1, <3>2
  <2>3. CASE q # r
    <3>1. autoRetried'[q] = autoRetried[q] /\ status'[q] = status[q]
      BY <1>1, <2>3 DEF TypeOK
    <3> QED
      BY <2>1, <3>1 DEF Prospects, HeldIdle
  <2> QED
    BY <2>2, <2>3
<1> QED
  BY <1>4, <1>6, <1>7, <1>8, <1>9

\* Every action of workers, scheduler, administrators and process keeps it.
LEMMA StepIInv == IInv /\ [Next]_vars => IInv'
<1> SUFFICES ASSUME IInv, [Next]_vars PROVE IInv'
  OBVIOUS
<1>1. TypeOK'
  BY TypeStep DEF IInv
<1>2. ASSUME Quiet PROVE IInv'
  BY <1>1, <1>2, QuietKeeps
<1>3. ASSUME NEW w \in Worker, Claim(w) PROVE IInv'
  BY <1>1, <1>3, ClaimKeeps
<1>4. ASSUME NEW w \in Worker, NEW r \in RunId, Begin(w, r) PROVE IInv'
  BY <1>1, <1>4, BeginKeeps
<1>5. ASSUME NEW r \in RunId, Retry(r) PROVE IInv'
  BY <1>1, <1>5, RetryKeeps
<1>6. ASSUME NEW r \in RunId, FinishNotification(r) PROVE IInv'
  BY <1>1, <1>2, <1>6, AutoRetryKeeps, QuietActions
<1>7. CASE Input
  BY <1>2, <1>5, <1>7, QuietActions DEF Input
<1>8. ASSUME NEW w \in Worker, WorkerStep(w) PROVE IInv'
  BY <1>2, <1>4, <1>6, <1>8, QuietActions DEF WorkerStep
<1>9. CASE (\E r \in RunId : Heartbeat(r) \/ Sweep(r) \/ ComeDue(r) \/ GrowStale(r))
            \/ Close \/ Crash \/ Restart \/ UNCHANGED vars
  BY <1>2, <1>9, QuietActions
<1> QED
  BY <1>3, <1>7, <1>8, <1>9 DEF Next

-----------------------------------------------------------------------------
(* The theorems.                                                           *)

\* The invariant holds in every state of the run queue.
THEOREM Invariance == Spec => []IInv
<1>1. Init => IInv
  BY InitIInv
<1>2. IInv /\ [Next]_vars => IInv'
  BY StepIInv
<1> QED
  BY <1>1, <1>2, PTL DEF Spec

\* Every variable keeps its type.
THEOREM TypeCorrect == Spec => []TypeOK
<1>1. IInv => TypeOK
  BY DEF IInv
<1> QED
  BY <1>1, Invariance, PTL

\* An execution starts at most once per request and granted retry: however
\* claims, sweeps, hand-made retries, late results and crashes interleave.
THEOREM NoExtraExecution == Spec => []AtMostOncePerRequest
<1>1. IInv => AtMostOncePerRequest
  BY DEF IInv
<1> QED
  BY <1>1, Invariance, PTL

\* A notification is retried automatically less than maxAttempts times, though
\* the decision is taken on a snapshot of attempts.
THEOREM RetriesAreBounded == Spec => []AutoRetryBounded
<1>1. IInv => AutoRetryBounded
  BY DEF IInv
<1> QED
  BY <1>1, Invariance, PTL

\* A finished run is overwritten only by an administrator, by deletion or by the
\* worker that still holds it.
THEOREM OverwrittenOnlyByItsHolder == Spec => SettledOverwrittenOnlyByItsHolder
<1> DEFINE Allowed ==
      \A r \in RunId :
         status[r] \in Settled /\ status'[r] # status[r] =>
            \/ status'[r] = "absent"
            \/ admin' = admin + 1
            \/ \E w \in Worker : r \in held[w] /\ held'[w] = held[w] \ {r}
<1>1. ASSUME IInv, [Next]_vars PROVE [Allowed]_vars
  <2> SUFFICES ASSUME NEW r \in RunId, status[r] \in Settled, status'[r] # status[r],
                      status'[r] # "absent", admin' # admin + 1
               PROVE  \E w \in Worker : r \in held[w] /\ held'[w] = held[w] \ {r}
    OBVIOUS
  <2> USE <1>1 DEF IInv
  <2>0. created \in Nat /\ status \in [RunId -> Status] /\ admin \in Nat
    BY DEF TypeOK
  <2>1. status[r] # "absent" /\ r # created + 1
    <3>1. status[r] # "absent" /\ status[r] # "running"
      BY DEF Settled
    <3>2. ~(r > created)
      BY <3>1 DEF FreshRows
    <3> QED
      BY <2>0, <3>1, <3>2
  <2>2. \A q \in RunId : Fails(q) => q = r
    BY <2>0, <2>1 DEF Fails
  <2>3. \A q \in RunId : ~Sweep(q)
    BY <2>2 DEF Sweep, Settled
  <2>4. \A k \in Kinds, s \in BOOLEAN, d \in BOOLEAN, p \in {"off", "armed"} :
          ~Enqueue(k, s, d, p)
    BY <2>0, <2>1 DEF Enqueue
  <2>5. \A k \in Kinds, p \in {"off", "armed"} : ~RunScheduled(k, p)
    BY <2>1 DEF RunScheduled
  <2>6. ~Input
    BY <2>4, <2>5 DEF Input, Cancel, CancelIfUnclaimed, Retry, AdminActs
  <2>7. \A w \in Worker : ~Claim(w)
    <3> SUFFICES ASSUME NEW w \in Worker, Claim(w) PROVE FALSE
      OBVIOUS
    <3>1. PICK S \in SUBSET Runnable(w) :
            status' = [q \in RunId |-> IF q \in S THEN "running" ELSE status[q]]
      BY DEF Claim
    <3>2. r \in S
      BY <3>1
    <3> QED
      BY <3>2 DEF Runnable, Claimable, Settled
  <2>8. \A q \in RunId : ~(Heartbeat(q) \/ ComeDue(q) \/ GrowStale(q))
    BY DEF Heartbeat, ComeDue, GrowStale
  <2>9. ~(Close \/ Crash \/ Restart \/ UNCHANGED vars)
    BY DEF Close, Crash, Restart, vars
  <2>10. PICK w \in Worker : WorkerStep(w)
    BY <2>3, <2>6, <2>7, <2>8, <2>9 DEF Next
  <2>11. ~Abandon(w) /\ \A q \in RunId : ~Begin(w, q)
    BY DEF Abandon, Begin
  <2>12. PICK q \in RunId :
           \/ w = TaskWorker /\ (TurnAway(q) \/ Reject(q) \/ FinishTask(q))
           \/ w = NotifyWorker /\ (MissingDelivery(q) \/ FinishNotification(q))
    BY <2>10, <2>11 DEF WorkerStep
  <2>13. Leaves(w, q) /\ (Takes(w, q) \/ current[w] = q)
    BY <2>12 DEF TurnAway, Reject, FinishTask, MissingDelivery, FinishNotification
  <2>14. q \in held[w] /\ held'[w] = held[w] \ {q}
    BY <2>13, RunIdNat DEF Leaves, Takes, OwnRows, TypeOK
  <2>15. q = r
    <3>1. CASE Fails(q)
      BY <2>2, <3>1
    <3>2. CASE ~Fails(q)
      <4>1. \E s \in Status : status' = [status EXCEPT ![q] = s]
        BY <2>12, <3>2 DEF TurnAway, Reject, FinishTask, MissingDelivery, FinishNotification,
                           Status, Settled, Claimable
      <4> QED
        BY <2>0, <4>1
    <3> QED
      BY <3>1, <3>2
  <2> QED
    BY <2>14, <2>15
<1> QED
  BY <1>1, Invariance, PTL DEF Spec, SettledOverwrittenOnlyByItsHolder


\* A claimed run that is still "running" is given up only with the process or
\* with a batch one of whose rows was deleted.
THEOREM NoStranding == Spec => NoSilentStranding
<1> DEFINE Explained ==
      \A w \in Worker, r \in RunId :
         r \in held[w] /\ r \notin held'[w] /\ status'[r] = "running" =>
            \/ server' = "down"
            \/ \E q \in held[w] : status[q] = "absent"
<1>1. ASSUME IInv, [Next]_vars PROVE [Explained]_vars
  <2> SUFFICES ASSUME NEW w \in Worker, NEW r \in RunId, r \in held[w], r \notin held'[w],
                      status'[r] = "running", server' # "down"
               PROVE  \E q \in held[w] : status[q] = "absent"
    OBVIOUS
  <2> USE <1>1 DEF IInv
  <2>1. CASE UNCHANGED memory \/ UNCHANGED held
    BY <2>1 DEF memory
  <2>2. ASSUME NEW v \in Worker, Claim(v)
        PROVE  FALSE
    BY <2>2 DEF Claim, TypeOK
  <2>3. ASSUME NEW v \in Worker, Abandon(v)
        PROVE  \E q \in held[w] : status[q] = "absent"
    BY <2>3 DEF Abandon, TypeOK
  <2>4. ASSUME NEW v \in Worker, NEW q \in RunId, Leaves(v, q), status'[q] # "running"
        PROVE  FALSE
    BY <2>4 DEF Leaves, TypeOK
  <2>5. ASSUME NEW q \in RunId, Fails(q)
        PROVE  status'[q] # "running"
    BY <2>5 DEF Fails, TypeOK
  <2>6. ASSUME NEW q \in RunId,
               TurnAway(q) \/ Reject(q) \/ FinishTask(q)
                 \/ MissingDelivery(q) \/ FinishNotification(q)
        PROVE  FALSE
    <3>1. status'[q] # "running"
      <4>1. CASE Fails(q)
        BY <2>5, <4>1
      <4>2. CASE ~Fails(q)
        BY <2>6, <4>2 DEF TurnAway, Reject, FinishTask, MissingDelivery,
                          FinishNotification, TypeOK
      <4> QED
        BY <4>1, <4>2
    <3>2. Leaves(TaskWorker, q) \/ Leaves(NotifyWorker, q)
      BY <2>6 DEF TurnAway, Reject, FinishTask, MissingDelivery, FinishNotification
    <3> QED
      BY <2>4, <3>1, <3>2, WorkersDiffer
  <2>7. CASE Input
    BY <2>1, <2>7 DEF Input, Enqueue, RunScheduled, Cancel, CancelIfUnclaimed, Retry
  <2>8. CASE \E v \in Worker : WorkerStep(v)
    BY <2>1, <2>3, <2>6, <2>8 DEF WorkerStep, Begin
  <2>9. CASE (\E q \in RunId : Heartbeat(q) \/ Sweep(q) \/ ComeDue(q) \/ GrowStale(q))
               \/ Close \/ Crash \/ Restart \/ UNCHANGED vars
    BY <2>1, <2>9 DEF Heartbeat, Sweep, ComeDue, GrowStale, Close, Crash, Restart, vars
  <2> QED
    BY <1>1, <2>2, <2>7, <2>8, <2>9 DEF Next
<1> QED
  BY <1>1, Invariance, PTL DEF Spec, NoSilentStranding


-----------------------------------------------------------------------------
(* The queue implements the abstract lanes.                                *)

Tickets == [r \in RunId |-> requested[r] + autoRetried[r] - begun[r]]

\* A balance that changes at r alone.
LEMMA TicketMoves ==
    ASSUME NEW r \in RunId, NEW d \in {1, -1},
           \A q \in RunId : requested'[q] + autoRetried'[q] - begun'[q] =
                IF q = r THEN (requested[q] + autoRetried[q] - begun[q]) + d
                ELSE requested[q] + autoRetried[q] - begun[q]
    PROVE  Tickets' = [Tickets EXCEPT ![r] = @ + d]
BY DEF Tickets

\* A step that asks for r once more and starts nothing.
LEMMA AskStep ==
    ASSUME TypeOK, NEW r \in RunId, UNCHANGED <<begun, autoRetried>>,
           requested' = [requested EXCEPT ![r] = @ + 1]
    PROVE  Tickets' = [Tickets EXCEPT ![r] = @ + 1]
<1>1. ASSUME NEW q \in RunId
      PROVE  requested'[q] + autoRetried'[q] - begun'[q] =
                IF q = r THEN (requested[q] + autoRetried[q] - begun[q]) + 1
                ELSE requested[q] + autoRetried[q] - begun[q]
  <2>1. requested[q] \in Nat /\ autoRetried[q] \in Nat /\ begun[q] \in Nat
    BY DEF TypeOK
  <2>2. requested'[q] = IF q = r THEN requested[q] + 1 ELSE requested[q]
    BY DEF TypeOK
  <2> QED
    BY <2>1, <2>2
<1> QED
  BY <1>1, TicketMoves

\* A new row is asked for from zero.
LEMMA NewRowAsks ==
    ASSUME TypeOK, FreshRows, NEW k, NEW s, NEW d, NewRow(k, s, d),
           UNCHANGED <<begun, autoRetried>>
    PROVE  \E r \in RunId : Tickets' = [Tickets EXCEPT ![r] = @ + 1]
<1>1. created + 1 \in RunId /\ created + 1 > created
  BY NewRowEffect
<1>2. requested[created + 1] = 0
  BY <1>1 DEF FreshRows
<1>3. requested' = [requested EXCEPT ![created + 1] = @ + 1]
  BY <1>1, <1>2 DEF NewRow, TypeOK
<1> QED
  BY <1>1, <1>3, AskStep

\* Failing a run asks for at most one other run.
LEMMA FailsAsks ==
    ASSUME TypeOK, FreshRows, NEW r \in RunId, Fails(r), UNCHANGED <<begun, autoRetried>>
    PROVE  \/ UNCHANGED Tickets
           \/ \E q \in RunId : Tickets' = [Tickets EXCEPT ![q] = @ + 1]
<1>1. CASE NewRow("delivery", FALSE, TRUE)
  BY <1>1, NewRowAsks
<1>2. CASE ~NewRow("delivery", FALSE, TRUE)
  BY <1>2 DEF Fails, Tickets
<1> QED
  BY <1>1, <1>2

\* Leaving a record frees the lane, or finds it free.
LEMMA LeavesFreesLane ==
    ASSUME TypeOK, NEW w \in Worker, NEW r \in RunId, Leaves(w, r)
    PROVE  /\ current' = [current EXCEPT ![w] = Nobody]
           /\ current[w] = Nobody => current' = current
BY DEF Leaves, TypeOK

\* Every step of the table, the workers, the sweep, the administrators and the
\* process is a step of the abstract lanes or none at all.
THEOREM Refinement == Spec => ImplementsLanes
<1> USE DEF Lanes!Next, Lanes!Ask, Lanes!Start, Lanes!End, Lanes!Again, Lanes!Halt
<1>1. Init => Lanes!Init
  BY DEF Init, Lanes!Init
<1>2. ASSUME IInv, [Next]_vars PROVE [Lanes!Next]_(Lanes!vars)
  <2> USE <1>2 DEF IInv
  <2>1. ASSUME UNCHANGED <<Tickets, autoRetried, current>> PROVE UNCHANGED Lanes!vars
    BY <2>1 DEF Lanes!vars, Tickets
  <2>2. ASSUME NEW r \in RunId, Tickets' = [Tickets EXCEPT ![r] = @ + 1],
               UNCHANGED <<autoRetried, current>>
        PROVE  Lanes!Next
    BY <2>2 DEF Tickets
  <2>3. ASSUME NEW w \in Worker, current[w] # Nobody, current' = [current EXCEPT ![w] = Nobody],
               UNCHANGED autoRetried,
               UNCHANGED Tickets \/ \E q \in RunId : Tickets' = [Tickets EXCEPT ![q] = @ + 1]
        PROVE  Lanes!Next
    BY <2>3 DEF Tickets
  <2>4. ASSUME UNCHANGED <<history, current>> PROVE UNCHANGED Lanes!vars
    BY <2>1, <2>4 DEF history, Tickets
  <2>5. ASSUME NEW k, NEW s, NEW d, NEW p, Enqueue(k, s, d, p)
        PROVE  Lanes!Next
    <3>1. NewRow(k, s, d) /\ UNCHANGED <<begun, autoRetried, current>>
      BY <2>5 DEF Enqueue, memory
    <3> QED
      BY <2>2, <3>1, NewRowAsks
  <2>6. ASSUME NEW k, NEW p, RunScheduled(k, p)
        PROVE  Lanes!Next
    <3>1. NewRow(k, TRUE, TRUE) /\ UNCHANGED <<begun, autoRetried, current>>
      BY <2>6 DEF RunScheduled, memory
    <3> QED
      BY <2>2, <3>1, NewRowAsks
  <2>7. ASSUME NEW r \in RunId, Retry(r)
        PROVE  Lanes!Next
    <3>1. /\ UNCHANGED <<begun, autoRetried, current>>
          /\ requested' = [requested EXCEPT ![r] = @ + 1]
      BY <2>7 DEF Retry, memory
    <3> QED
      BY <2>2, <3>1, AskStep
  <2>8. ASSUME NEW r \in RunId, Cancel(r) \/ CancelIfUnclaimed(r)
        PROVE  UNCHANGED Lanes!vars
    BY <2>4, <2>8 DEF Cancel, CancelIfUnclaimed, memory
  <2>9. ASSUME NEW w \in Worker, Claim(w)
        PROVE  UNCHANGED Lanes!vars
    BY <2>4, <2>9 DEF Claim
  <2>10. ASSUME NEW w \in Worker, Abandon(w)
         PROVE  Lanes!Next \/ UNCHANGED Lanes!vars
    <3>1. current' = [current EXCEPT ![w] = Nobody] /\ UNCHANGED history
      BY <2>10 DEF Abandon
    <3>2. CASE current[w] = Nobody
      <4>1. current' = current
        BY <3>1, <3>2 DEF TypeOK
      <4> QED
        BY <2>4, <3>1, <4>1
    <3>3. CASE current[w] # Nobody
      BY <2>3, <3>1, <3>3 DEF history, Tickets
    <3> QED
      BY <3>2, <3>3
  <2>11. ASSUME NEW w \in Worker, NEW r \in RunId, Begin(w, r)
         PROVE  Lanes!Next
    <3>1. /\ r \in held[w] /\ current[w] = Nobody
          /\ current' = [current EXCEPT ![w] = r] /\ begun' = [begun EXCEPT ![r] = @ + 1]
          /\ UNCHANGED <<requested, autoRetried>>
      BY <2>11 DEF Begin, Takes
    <3>2. \A v \in Worker : current[v] # r
      <4> SUFFICES ASSUME NEW v \in Worker, current[v] = r PROVE FALSE
        OBVIOUS
      <4>1. r \in held[v]
        BY RunIdNat DEF OwnRows
      <4> QED
        BY <3>1, <4>1, OneHolder, RunIdNat
    <3>3. Tickets[r] > 0
      <4>1. Prospects(r) >= 1
        BY <3>1, <3>2 DEF Prospects, HeldBySome, Inflight
      <4>2. begun[r] + Prospects(r) <= requested[r] + autoRetried[r]
        BY DEF AtMostOncePerRequest
      <4>3. begun[r] \in Nat /\ requested[r] \in Nat /\ autoRetried[r] \in Nat
        BY DEF TypeOK
      <4>4. Prospects(r) \in Nat
        BY DEF Prospects
      <4> QED
        BY <4>1, <4>2, <4>3, <4>4 DEF Tickets
    <3>4. Tickets' = [Tickets EXCEPT ![r] = @ - 1]
      <4>1. ASSUME NEW q \in RunId
            PROVE  requested'[q] + autoRetried'[q] - begun'[q] =
                      IF q = r THEN (requested[q] + autoRetried[q] - begun[q]) + (-1)
                      ELSE requested[q] + autoRetried[q] - begun[q]
        <5>1. requested[q] \in Nat /\ autoRetried[q] \in Nat /\ begun[q] \in Nat
          BY DEF TypeOK
        <5>2. begun'[q] = IF q = r THEN begun[q] + 1 ELSE begun[q]
          BY <3>1 DEF TypeOK
        <5> QED
          BY <3>1, <5>1, <5>2
      <4>2. Tickets' = [Tickets EXCEPT ![r] = @ + (-1)]
        BY <4>1, TicketMoves
      <4>3. Tickets[r] \in Int
        BY DEF Tickets, TypeOK
      <4> QED
        BY <4>2, <4>3 DEF Tickets
    <3>5. Lanes!Start(w, r)
      BY <3>1, <3>2, <3>3, <3>4 DEF Tickets
    <3> QED
      BY <3>5
  <2>12. ASSUME NEW r \in RunId, NEW w \in Worker, Leaves(w, r), UNCHANGED autoRetried,
                UNCHANGED Tickets \/ \E q \in RunId : Tickets' = [Tickets EXCEPT ![q] = @ + 1]
         PROVE  Lanes!Next \/ UNCHANGED Lanes!vars
    <3>1. CASE current[w] = Nobody
      BY <2>1, <2>2, <2>12, <3>1, LeavesFreesLane
    <3>2. CASE current[w] # Nobody
      BY <2>3, <2>12, <3>2, LeavesFreesLane
    <3> QED
      BY <3>1, <3>2
  <2>13. ASSUME NEW r \in RunId, TurnAway(r) \/ MissingDelivery(r)
         PROVE  Lanes!Next \/ UNCHANGED Lanes!vars
    BY <2>12, <2>13, WorkersDiffer DEF TurnAway, MissingDelivery, history, Tickets
  <2>14. ASSUME NEW r \in RunId, Reject(r) \/ FinishTask(r)
         PROVE  Lanes!Next \/ UNCHANGED Lanes!vars
    <3>1. Leaves(TaskWorker, r) /\ UNCHANGED <<begun, autoRetried>>
      BY <2>14 DEF Reject, FinishTask
    <3>2. UNCHANGED Tickets \/ \E q \in RunId : Tickets' = [Tickets EXCEPT ![q] = @ + 1]
      <4>1. CASE Fails(r)
        BY <3>1, <4>1, FailsAsks
      <4>2. CASE ~Fails(r)
        BY <2>14, <3>1, <4>2 DEF Reject, FinishTask, Tickets
      <4> QED
        BY <4>1, <4>2
    <3> QED
      BY <2>12, <3>1, <3>2, WorkersDiffer
  <2>15. ASSUME NEW r \in RunId, FinishNotification(r)
         PROVE  Lanes!Next \/ UNCHANGED Lanes!vars
    <3>1. /\ current[NotifyWorker] = r /\ Leaves(NotifyWorker, r)
          /\ UNCHANGED <<requested, begun>>
      BY <2>15 DEF FinishNotification
    <3>2. CASE UNCHANGED autoRetried
      BY <2>12, <3>1, <3>2, WorkersDiffer DEF Tickets
    <3>3. CASE ~UNCHANGED autoRetried
      <4>1. seen[r] + 1 < MaxAttempts /\ autoRetried' = [autoRetried EXCEPT ![r] = @ + 1]
        BY <2>15, <3>3 DEF FinishNotification
      <4>2. r \in held[NotifyWorker]
        BY <3>1, RunIdNat, WorkersDiffer DEF OwnRows
      <4>3. autoRetried[r] + 1 < MaxAttempts
        BY <4>1, <4>2, TaskRunsAssumption DEF RetriesCounted, TypeOK
      <4>4. Tickets' = [Tickets EXCEPT ![r] = @ + 1]
        <5>1. ASSUME NEW q \in RunId
              PROVE  requested'[q] + autoRetried'[q] - begun'[q] =
                        IF q = r THEN (requested[q] + autoRetried[q] - begun[q]) + 1
                        ELSE requested[q] + autoRetried[q] - begun[q]
          <6>1. requested[q] \in Nat /\ autoRetried[q] \in Nat /\ begun[q] \in Nat
            BY DEF TypeOK
          <6>2. autoRetried'[q] = IF q = r THEN autoRetried[q] + 1 ELSE autoRetried[q]
            BY <4>1 DEF TypeOK
          <6> QED
            BY <3>1, <6>1, <6>2
        <5> QED
          BY <5>1, TicketMoves
      <4>5. current' = [current EXCEPT ![NotifyWorker] = Nobody]
        BY <3>1, LeavesFreesLane, WorkersDiffer
      <4>6. Lanes!Again(NotifyWorker)
        BY <3>1, <4>1, <4>3, <4>4, <4>5, RunIdNat DEF Tickets
      <4> QED
        BY <4>6, WorkersDiffer
    <3> QED
      BY <3>2, <3>3
  <2>16. ASSUME NEW r \in RunId, Sweep(r)
         PROVE  Lanes!Next \/ UNCHANGED Lanes!vars
    <3>1. Fails(r) /\ UNCHANGED <<begun, autoRetried, current>>
      BY <2>16 DEF Sweep, memory
    <3> QED
      BY <2>1, <2>2, <3>1, FailsAsks
  <2>17. ASSUME NEW r \in RunId, Heartbeat(r) \/ ComeDue(r) \/ GrowStale(r)
         PROVE  UNCHANGED Lanes!vars
    BY <2>4, <2>17 DEF Heartbeat, ComeDue, GrowStale, memory
  <2>18. CASE Close \/ Restart \/ UNCHANGED vars
    BY <2>4, <2>18 DEF Close, Restart, vars, memory
  <2>19. CASE Crash
    <3>1. current' = [v \in Worker |-> Nobody] /\ UNCHANGED history
      BY <2>19 DEF Crash
    <3>2. Lanes!Halt
      BY <3>1 DEF history
    <3> QED
      BY <3>2
  <2> QED
    BY <2>5, <2>6, <2>7, <2>8, <2>9, <2>10, <2>11, <2>13, <2>14, <2>15, <2>16, <2>17,
       <2>18, <2>19 DEF Next, Input, WorkerStep
<1> QED
  BY <1>1, <1>2, Invariance, PTL DEF Spec, ImplementsLanes, Lanes!Spec

=============================================================================
