--------------------------- MODULE ExecutionLanes ---------------------------
(***************************************************************************)
(* What the run queue promises, with no table, batches, sweeps or          *)
(* restarts: a run holds tickets, one for each time somebody asked for it  *)
(* and one for each automatic retry (of which it gets fewer than           *)
(* MaxAttempts); starting it costs a ticket; every lane executes at most   *)
(* one run at a time and no run is in two lanes.                           *)
(***************************************************************************)
EXTENDS Integers

CONSTANTS Runs, Lanes, Idle, MaxAttempts

VARIABLES tickets, extra, lane
vars == <<tickets, extra, lane>>

Init ==
    /\ tickets = [r \in Runs |-> 0]
    /\ extra = [r \in Runs |-> 0]
    /\ lane = [w \in Lanes |-> Idle]

Ask(r) ==
    /\ tickets' = [tickets EXCEPT ![r] = @ + 1]
    /\ UNCHANGED <<extra, lane>>

Start(w, r) ==
    /\ lane[w] = Idle
    /\ \A v \in Lanes : lane[v] # r
    /\ tickets[r] > 0
    /\ tickets' = [tickets EXCEPT ![r] = @ - 1]
    /\ lane' = [lane EXCEPT ![w] = r]
    /\ UNCHANGED extra

\* An execution ends; its failure may be answered by another run.
End(w) ==
    /\ lane[w] # Idle
    /\ lane' = [lane EXCEPT ![w] = Idle]
    /\ \/ UNCHANGED tickets
       \/ \E q \in Runs : tickets' = [tickets EXCEPT ![q] = @ + 1]
    /\ UNCHANGED extra

Again(w) ==
    /\ lane[w] # Idle
    /\ extra[lane[w]] + 1 < MaxAttempts
    /\ tickets' = [tickets EXCEPT ![lane[w]] = @ + 1]
    /\ extra' = [extra EXCEPT ![lane[w]] = @ + 1]
    /\ lane' = [lane EXCEPT ![w] = Idle]

Halt ==
    /\ lane' = [w \in Lanes |-> Idle]
    /\ UNCHANGED <<tickets, extra>>

Next ==
    \/ \E r \in Runs : Ask(r)
    \/ \E w \in Lanes : End(w) \/ Again(w) \/ \E r \in Runs : Start(w, r)
    \/ Halt

Spec == Init /\ [][Next]_vars
=============================================================================
