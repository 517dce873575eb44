------------------------------- MODULE Capacity -------------------------------
(***************************************************************************)
(* What requestGuard lends a request before its handler runs: a reader     *)
(* slot, bytes of the body budget, and for a catalogue refresh a flight    *)
(* that others with the same key join.  Slots and bytes pass between       *)
(* requests that fail, panic, leave and time out at any step.              *)
(***************************************************************************)
EXTENDS Integers, FiniteSets

CONSTANTS
    Requests,
    BodySlots,    \* BODY_READ_CONCURRENCY
    BodyWaiting,  \* readers that may wait for a slot
    Budget,       \* of the body buffers, in units of capacity
    MaxBody,      \* longest body, in the same units
    HeavySlots,
    Nobody

VARIABLES
    slots,    \* reader slots taken
    waiting,  \* places among the waiting readers taken
    used,     \* bodyBudget.used
    heavy,    \* heavySlots taken
    flight,   \* leader of the refresh under way, or Nobody
    req

vars == <<slots, waiting, used, heavy, flight, req>>

Idle == [at |-> "idle", held |-> 0]
At(p) == {q \in Requests : req[q].at = p}

Init ==
    /\ slots = 0 /\ waiting = 0 /\ used = 0 /\ heavy = 0
    /\ flight = Nobody
    /\ req = [q \in Requests |-> Idle]

Become(q, p) == req' = [req EXCEPT ![q] = p]

\* The request arrives: there is a slot, or a place to wait, or it is refused.
Arrive(q, kind) ==
    /\ req[q] = Idle
    /\ CASE slots < BodySlots ->
                /\ slots' = slots + 1 /\ UNCHANGED waiting
                /\ Become(q, [at |-> "read", held |-> 0, copy |-> 0, kind |-> kind])
         [] slots = BodySlots /\ waiting < BodyWaiting ->
                /\ waiting' = waiting + 1 /\ UNCHANGED slots
                /\ Become(q, [at |-> "wait", held |-> 0, copy |-> 0, kind |-> kind])
         [] OTHER -> UNCHANGED <<slots, waiting, req>>
    /\ UNCHANGED <<used, heavy, flight>>

\* A waiting reader gets a slot; or its time or its client is gone.
Admit(q) ==
    /\ req[q].at = "wait" /\ slots < BodySlots
    /\ slots' = slots + 1 /\ waiting' = waiting - 1
    /\ Become(q, [req[q] EXCEPT !.at = "read"])
    /\ UNCHANGED <<used, heavy, flight>>

GiveUp(q) ==
    /\ req[q].at = "wait"
    /\ waiting' = waiting - 1
    /\ Become(q, Idle)
    /\ UNCHANGED <<slots, used, heavy, flight>>

\* Mutant: growing charges the difference of the buffers.
GrowsInPlace(q, n) == used + (n - req[q].held) <= Budget

\* reserve: the larger buffer is charged while the old one is still held.
Reserves(q, n) == used + n <= Budget

\* bodyBudget.read: more bytes than the buffer holds.  When the budget refuses,
\* the reader's slot is free and what it held is released by the deferred call.
Grow(q, n) ==
    /\ req[q].at = "read" /\ req[q].copy = 0 /\ n > req[q].held
    /\ IF Reserves(q, n)
       THEN /\ used' = used + n
            /\ Become(q, [req[q] EXCEPT !.copy = n])
            /\ UNCHANGED slots
       ELSE /\ used' = used - req[q].held
            /\ slots' = slots - 1
            /\ Become(q, Idle)
    /\ UNCHANGED <<waiting, heavy, flight>>

\* The bytes are copied and the old buffer is released.
Copied(q) ==
    /\ req[q].at = "read" /\ req[q].copy > 0
    /\ used' = used - req[q].held
    /\ Become(q, [req[q] EXCEPT !.held = req[q].copy, !.copy = 0])
    /\ UNCHANGED <<slots, waiting, heavy, flight>>

\* The connection breaks, is too slow or sends too much.
ReadFails(q) ==
    /\ req[q].at = "read" /\ req[q].copy = 0
    /\ used' = used - req[q].held
    /\ slots' = slots - 1
    /\ Become(q, Idle)
    /\ UNCHANGED <<waiting, heavy, flight>>

\* The body is complete: its reservation belongs to bufferedRequestBody now.
ReadDone(q) ==
    /\ req[q].at = "read" /\ req[q].copy = 0
    /\ slots' = slots - 1
    /\ \/ Become(q, [req[q] EXCEPT !.at = req[q].kind]) /\ UNCHANGED used
       \/ used' = used - req[q].held /\ Become(q, Idle)   \* too complex
    /\ UNCHANGED <<waiting, heavy, flight>>

\* Mutant: a closed body still carries its reservation.
ClosedHeld(q) == req[q].held

\* What is left to release after a close.
AfterClose(q) == 0

\* readJSON closes the body as soon as it is decoded ...
Decode(q) ==
    /\ req[q].at = "handle"
    /\ used' = used - req[q].held
    /\ Become(q, [req[q] EXCEPT !.at = "run", !.held = AfterClose(q)])
    /\ UNCHANGED <<slots, waiting, heavy, flight>>

\* ... and the guard closes it again when the handler returns or panics.
Finish(q) ==
    /\ req[q].at \in {"handle", "run"}
    /\ used' = used - req[q].held
    /\ Become(q, Idle)
    /\ UNCHANGED <<slots, waiting, heavy, flight>>

-----------------------------------------------------------------------------
\* serveRefresh.

\* Mutant: a refresh that finds no slot leaves its flight behind.
TurnedAway(q) == flight' = q

Refused(q) == UNCHANGED flight

\* A flight is joined; or the caller leads one, if a heavy slot is free.
Refresh(q) ==
    /\ req[q].at = "refresh"
    /\ IF flight # Nobody
       THEN Become(q, [at |-> "follow", held |-> req[q].held, leader |-> flight])
            /\ UNCHANGED <<used, heavy, flight>>
       ELSE IF heavy < HeavySlots
       THEN /\ heavy' = heavy + 1 /\ flight' = q
            /\ Become(q, [req[q] EXCEPT !.at = "lead"])
            /\ UNCHANGED used
       ELSE /\ used' = used - req[q].held /\ Become(q, Idle)
            /\ Refused(q) /\ UNCHANGED heavy
    /\ UNCHANGED <<slots, waiting>>

\* Other heavy work of administrators takes and returns the slots.
OtherHeavy ==
    /\ heavy' \in {heavy + 1, heavy - 1}
    /\ heavy' <= HeavySlots
    /\ heavy' >= IF flight = Nobody THEN 0 ELSE 1
    /\ UNCHANGED <<slots, waiting, used, flight, req>>

\* What f says altogether, counted one by one.
Units(f) == UNION {{x} \X (1..f[x]) : x \in DOMAIN f}
Total(f) == Cardinality(Units(f))

\* The refresh returns or panics: the flight goes, everyone on it is answered,
\* and the bodies of all of them are closed.
Landed(q) ==
    LET all == {q} \cup {p \in At("follow") : req[p].leader = q} IN
    /\ req[q].at = "lead"
    /\ flight' = Nobody /\ heavy' = heavy - 1
    /\ used' = used - Total([p \in all |-> req[p].held])
    /\ req' = [p \in Requests |-> IF p \in all THEN Idle ELSE req[p]]
    /\ UNCHANGED <<slots, waiting>>

\* A follower's client leaves.
Unfollow(q) ==
    /\ req[q].at = "follow"
    /\ used' = used - req[q].held
    /\ Become(q, Idle)
    /\ UNCHANGED <<slots, waiting, heavy, flight>>

Next ==
    \/ \E q \in Requests :
        \/ \E kind \in {"handle", "refresh"} : Arrive(q, kind)
        \/ Admit(q) \/ GiveUp(q)
        \/ \E n \in 1..MaxBody : Grow(q, n)
        \/ Copied(q) \/ ReadFails(q) \/ ReadDone(q)
        \/ Decode(q) \/ Finish(q)
        \/ Refresh(q) \/ Landed(q) \/ Unfollow(q)
    \/ OtherHeavy

Spec == Init /\ [][Next]_vars

-----------------------------------------------------------------------------
\* The bytes a request holds; twice while they are copied.
Holds(q) == req[q].held + (IF req[q].at = "read" THEN req[q].copy ELSE 0)

\* Whatever fails between, what is counted is what requests hold, buffers that
\* are being copied twice; the buffers never exceed the budget, and nobody
\* follows a refresh that has no leader.
CapacityExact ==
    /\ used = Total([q \in Requests |-> Holds(q)])
    /\ used <= Budget
    /\ slots = Cardinality(At("read")) /\ slots <= BodySlots
    /\ waiting = Cardinality(At("wait"))
    /\ \A q \in At("follow") : flight = req[q].leader
    /\ flight # Nobody => flight \in At("lead") /\ heavy >= 1
===============================================================================
