------------------------ MODULE MCAdmissionFairness ------------------------
(***************************************************************************)
(* The order in which the admission queue serves applications.             *)
(*                                                                         *)
(* dispatchLocked starts, among the tickets that can start, one of the key *)
(* with the fewest running requests, then of the key served longest ago,   *)
(* then the oldest.  removeLocked forgets a key's turn when its last       *)
(* ticket leaves.  The history variable overtaken counts, for each ticket  *)
(* that could have started and whose key runs nothing, how often each      *)
(* other key was started instead since the ticket was queued.              *)
(***************************************************************************)
EXTENDS Admission

VARIABLE overtaken

fairVars == <<vars, overtaken>>

\* The ticket this step takes out of the queue to run it.
Started(q) == q \in Range(queue) /\ q \in running' \ running

\* r could have started in the step that started another key's ticket q.
PassedOver(r, q) ==
    /\ Started(q)
    /\ KeyOf[q] # KeyOf[r]
    /\ byKey[KeyOf[r]] = 0
    /\ \E w \in Picks(Scanned) : r \in Startable(w)

CountOvertaking ==
    overtaken' = [r \in Requests |-> [k \in Keys |->
        IF r \notin Range(queue') THEN 0
        ELSE IF \E q \in Requests : PassedOver(r, q) /\ KeyOf[q] = k
             THEN overtaken[r][k] + 1
             ELSE overtaken[r][k]]]

FairnessInit == Init /\ overtaken = [r \in Requests |-> [k \in Keys |-> 0]]
FairnessNext == Next /\ CountOvertaking
FairnessSpec == FairnessInit /\ [][FairnessNext]_fairVars

\* "A single bounded queue rotates between authenticated applications": a
\* waiting ticket whose application runs nothing is passed over at most once
\* by each other application before it has its turn.
RotatesBetweenKeys ==
    \A r \in Requests, k \in Keys : overtaken[r][k] <= 1

-----------------------------------------------------------------------------
\* The instance: one slot, three applications.

CONSTANTS r1, r2, r3, r4, r5, appA, appB, appC, m1

\* A and B call twice, C once.
Callers == [r \in Requests |->
    IF r \in {r1, r2} THEN appA ELSE IF r \in {r3, r4} THEN appB ELSE appC]

OneModel == [r \in Requests |-> m1]
NoKeyLimit == [k \in Keys |-> 0]
NoScope == [r \in Requests |-> {}]
=============================================================================
