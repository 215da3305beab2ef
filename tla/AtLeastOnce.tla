----------------------------- MODULE AtLeastOnce -----------------------------
(***************************************************************************)
(* What the recipient of a message is promised: no second copy without an  *)
(* excuse (the sender lost track of the first one), and none at all once   *)
(* the sender has recorded the message as sent.                            *)
(***************************************************************************)
EXTENDS Integers

CONSTANT Message

VARIABLES copies,     \* copies the provider accepted
          excuses,    \* copies whose acceptance the sender never learned or forgot
          recorded    \* messages recorded as sent
vars == <<copies, excuses, recorded>>

Init ==
    /\ copies = [m \in Message |-> 0]
    /\ excuses = [m \in Message |-> 0]
    /\ recorded = {}

\* A copy goes out; the sender may already have lost track of it.
Copy(m) ==
    /\ m \notin recorded
    /\ copies[m] = excuses[m]
    /\ copies' = [copies EXCEPT ![m] = @ + 1]
    /\ excuses' \in {excuses, [excuses EXCEPT ![m] = @ + 1]}
    /\ UNCHANGED recorded

\* The sender forgets what it has not recorded.
Forget(S) ==
    /\ \A m \in S : m \notin recorded /\ copies[m] = excuses[m] + 1
    /\ excuses' = [m \in Message |-> IF m \in S THEN copies[m] ELSE excuses[m]]
    /\ UNCHANGED <<copies, recorded>>

Record(S) ==
    /\ \A m \in S : m \notin recorded /\ copies[m] = excuses[m] + 1
    /\ recorded' = recorded \cup S
    /\ UNCHANGED <<copies, excuses>>

Next ==
    \/ \E m \in Message : Copy(m)
    \/ \E S \in SUBSET Message : Forget(S) \/ Record(S)

Spec == Init /\ [][Next]_vars
=============================================================================
