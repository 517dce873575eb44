-------------------------------- MODULE Quota --------------------------------
(***************************************************************************)
(* A portal user's daily quota.  A call is charged its bound when it       *)
(* starts, in the bucket of the local day, and settled when it ends, in    *)
(* that same bucket, with what the upstream reported; what was never       *)
(* reported stays charged.  Calls overlap each other and midnight; writes  *)
(* fail and the process restarts.  Tokens stand for the input and for the  *)
(* output column, which are treated alike.                                 *)
(***************************************************************************)
EXTENDS Integers, FiniteSets

CONSTANTS
    Calls,
    LimitRequests, LimitTokens,
    MaxTokens,     \* of one call, reserved or reported
    LastDay

Days == 0..LastDay
NoBucket == [requests |-> 0, tokens |-> 0]

VARIABLES
    today,
    bucket,   \* user_daily_quota: day -> what is charged
    call      \* portalQuotaReservation of each call, and where it is

vars == <<today, bucket, call>>

Idle == [at |-> "idle"]
Running == {c \in Calls : call[c].at = "running"}

Init ==
    /\ today = 0
    /\ bucket = [d \in Days |-> NoBucket]
    /\ call = [c \in Calls |-> Idle]

\* Mutant: the bound is compared with what is charged before the call.
FitsBefore(d, n) ==
    /\ LimitRequests > 0 => bucket[d].requests <= LimitRequests
    /\ LimitTokens > 0 => bucket[d].tokens <= LimitTokens

\* The condition of the UPDATE; a limit of zero is none.
Fits(d, n) ==
    /\ LimitRequests > 0 => bucket[d].requests <= LimitRequests - 1
    /\ LimitTokens > 0 => bucket[d].tokens <= LimitTokens - n

\* reservePortalBudget: n is the request's bound, the answer 429 if it is too much.
Reserve(c, n) ==
    /\ call[c] = Idle
    /\ IF Fits(today, n)
       THEN /\ bucket' = [bucket EXCEPT ![today] = [requests |-> @.requests + 1,
                                                    tokens |-> @.tokens + n]]
            /\ call' = [call EXCEPT ![c] = [at |-> "running", day |-> today, reserved |-> n,
                                            known |-> FALSE, actual |-> 0]]
       ELSE /\ call' = [call EXCEPT ![c] = [at |-> "refused"]]
            /\ UNCHANGED bucket
    /\ UNCHANGED today

\* Observe: usage in a form that can be trusted replaces what was seen before.
Observe(c, n) ==
    /\ call[c].at = "running"
    /\ call' = [call EXCEPT ![c].actual = n, ![c].known = TRUE]
    /\ UNCHANGED <<today, bucket>>

Due(c) == IF call[c].known THEN call[c].actual ELSE call[c].reserved
Covered(d, n) == bucket[d].requests >= 1 /\ bucket[d].tokens >= n

\* Mutant: what the call used is booked on the day it ends.
SettleToday(c) ==
    bucket' = [bucket EXCEPT ![today].tokens = @ - call[c].reserved + Due(c)]

\* SettleUserDailyQuota, in the bucket of the reservation.
SettleUserDailyQuota(c) ==
    bucket' = [bucket EXCEPT ![call[c].day].tokens = @ - call[c].reserved + Due(c)]

\* The deferred settle of a call: unknown usage or a failed write keeps the
\* reservation.
Settle(c, written) ==
    LET paid == call[c].known /\ written /\ Covered(call[c].day, call[c].reserved) IN
    /\ call[c].at = "running"
    /\ IF paid THEN SettleUserDailyQuota(c) ELSE UNCHANGED bucket
    /\ call' = [call EXCEPT ![c] = [at |-> "done", day |-> @.day, reserved |-> @.reserved,
                                    due |-> IF paid THEN Due(c) ELSE @.reserved,
                                    missing |-> ~Covered(@.day, @.reserved)]]
    /\ UNCHANGED today

\* The day's first maintenance deletes buckets of the day before yesterday and
\* older; a call of that age would have ended.
Midnight ==
    /\ today < LastDay
    /\ \A c \in Running : call[c].day = today
    /\ today' = today + 1
    /\ bucket' = [d \in Days |-> IF d < today' - 1 THEN NoBucket ELSE bucket[d]]
    /\ UNCHANGED call

\* The process ends: the calls are gone, their reservations stay.
Restart ==
    /\ Running # {}
    /\ call' = [c \in Calls |->
                    IF c \in Running
                    THEN [at |-> "done", day |-> call[c].day, reserved |-> call[c].reserved,
                          due |-> call[c].reserved, missing |-> FALSE]
                    ELSE call[c]]
    /\ UNCHANGED <<today, bucket>>

Next ==
    \/ \E c \in Calls :
        \/ \E n \in 1..MaxTokens : Reserve(c, n)
        \/ \E n \in 0..MaxTokens : Observe(c, n)
        \/ \E written \in BOOLEAN : Settle(c, written)
    \/ Midnight \/ Restart

Spec == Init /\ [][Next]_vars

-----------------------------------------------------------------------------
Charge(c) == IF call[c].at = "running" THEN call[c].reserved ELSE call[c].due
Of(d) == {c \in Calls : call[c].at \in {"running", "done"} /\ call[c].day = d}

\* What f says altogether, counted one by one.
Units(f) == UNION {{x} \X (1..f[x]) : x \in DOMAIN f}
Total(f) == Cardinality(Units(f))

\* A day that can still be charged holds exactly what its calls used or, where
\* that is unknown, what they reserved, in whatever order they end; every
\* reservation is found when its call is settled; and while no call used more
\* than it reserved, the day stays within its limits.
LedgerExact ==
    /\ \A d \in Days : d >= today - 1 =>
        /\ bucket[d].requests = Cardinality(Of(d))
        /\ bucket[d].tokens = Total([c \in Of(d) |-> Charge(c)])
        /\ LimitRequests > 0 => bucket[d].requests <= LimitRequests
        /\ LimitTokens > 0 /\ (\A c \in Of(d) : Charge(c) <= call[c].reserved)
            => bucket[d].tokens <= LimitTokens
    /\ \A c \in Calls : call[c].at = "done" => ~call[c].missing
===============================================================================
