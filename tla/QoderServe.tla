------------------------------ MODULE QoderServe ------------------------------
(***************************************************************************)
(* A call of the Qoder channel.  The connection is opened again after a    *)
(* transient failure, the stream after one it reports before its first     *)
(* delta, and another account of the region is taken after that; accounts  *)
(* that failed cool down for every call.  The upstream answers freely;     *)
(* accounts are hidden and permissions change at any step.                 *)
(***************************************************************************)
EXTENDS Integers, FiniteSets

CONSTANTS
    Accounts,
    Requests,
    MaxRetries,  \* TransientMaxRetries
    MaxTried,    \* accounts of one call
    None

VARIABLES
    usable,  \* accounts that are visible and that the caller may use
    cool,    \* accounts cooling down
    failed,  \* accounts that failed since they last stopped cooling down
    req

vars == <<usable, cool, failed, req>>
pool == <<usable, cool, failed>>

Idle == [at |-> "idle"]

Init ==
    /\ usable = Accounts /\ cool = {} /\ failed = {}
    /\ req = [q \in Requests |-> Idle]

\* Failures: of the transport and of the upstream, of its rate limit, of what the
\* request asks for (content, parameters, permissions), of a workspace or queue,
\* and of the name service.
Kinds == {"transient", "rate", "request", "quota", "dns"}

Set(q, r) == req' = [req EXCEPT ![q] = r]
Finish(r, result) == [r EXCEPT !.at = "done", !.result = result]

\* The first account: the active one, or the one the session is bound to.
Start(q, a) ==
    /\ req[q] = Idle
    /\ a \in usable
    /\ Set(q, [at |-> IF a \in cool THEN "find" ELSE "bridge", on |-> a, tried |-> {a},
               sends |-> [b \in Accounts |-> 0], opens |-> 0, tries |-> 0,
               emitted |-> FALSE, direct |-> FALSE, result |-> None])
    /\ UNCHANGED pool

\* Mutant: a request at fault moves on to the next account, too.
CanFailoverAny(kind) == kind # "dns"

\* canFailover: only what another account may do better.
CanFailover(kind) == kind \in {"transient", "rate"}

Fresh(r, a) == [r EXCEPT !.on = a, !.opens = 0, !.tries = 0]

\* The account has failed: it cools down, and the next one is looked for.
Fail(q, r, kind) ==
    /\ failed' = IF kind \in {"transient", "rate"} THEN failed \cup {r.on} ELSE failed
    /\ cool' = IF CanFailover(kind) THEN cool \cup {r.on} ELSE cool
    /\ Set(q, IF CanFailover(kind) /\ ~r.emitted /\ Cardinality(r.tried) < MaxTried
              THEN [r EXCEPT !.at = "find", !.direct = TRUE, !.result = kind]
              ELSE Finish(r, kind))
    /\ UNCHANGED usable

\* nextAccountBridge: a candidate is tried once, whatever its catalog and its
\* bridge say; a failover sends at once, a call that starts asks again.
Candidates(r) == IF Cardinality(r.tried) < MaxTried THEN usable \ (r.tried \cup cool) ELSE {}

Find(q, a, outcome) ==
    LET r == req[q] IN
    /\ r.at = "find"
    /\ a \in Candidates(r)
    /\ LET now == [r EXCEPT !.tried = @ \cup {a}]
       IN  Set(q, CASE outcome = "bridge" ->
                            [Fresh(now, a) EXCEPT !.at = IF r.direct THEN "send" ELSE "bridge"]
                    [] outcome = "none" -> now
                    [] outcome = "refused" -> Finish(now, "refused"))
    /\ UNCHANGED pool

NoCandidate(q) ==
    /\ req[q].at = "find" /\ Candidates(req[q]) = {}
    /\ LET first == req[q].result IN
       Set(q, Finish(req[q], IF first = None THEN "unavailable" ELSE first))
    /\ UNCHANGED pool

\* bridgeFor, and the permission once more.
Bridge(q) ==
    LET r == req[q] IN
    /\ r.at = "bridge"
    /\ IF r.on \in usable THEN Set(q, [r EXCEPT !.at = "send"]) ELSE Set(q, Finish(r, "refused"))
    /\ UNCHANGED pool

BridgeFails(q, kind) ==
    /\ req[q].at = "bridge"
    /\ Fail(q, req[q], kind)

-----------------------------------------------------------------------------
Sent(r) == [r EXCEPT !.sends[r.on] = @ + 1]

Open(q) ==
    /\ req[q].at = "send"
    /\ Set(q, [Sent(req[q]) EXCEPT !.at = "stream"])
    /\ UNCHANGED pool

\* openStreamLines: transient failures on the same account first.
OpenFails(q, kind) ==
    LET r == Sent(req[q]) IN
    /\ req[q].at = "send"
    /\ IF kind = "transient" /\ r.tries < MaxRetries
       THEN Set(q, [r EXCEPT !.tries = @ + 1]) /\ UNCHANGED pool
       ELSE Fail(q, r, kind)

Delta(q) ==
    /\ req[q].at = "stream"
    /\ Set(q, [req[q] EXCEPT !.emitted = TRUE])
    /\ UNCHANGED pool

\* Mutant: the stream is opened again after a delta.
ReopensStarted(r, kind) == kind = "transient" /\ r.opens < MaxRetries

\* An error in the envelope of a frame, or of the connection: nothing of the answer
\* may have been handed on.
Reopens(r, kind) == kind = "transient" /\ ~r.emitted /\ r.opens < MaxRetries

StreamFails(q, kind) ==
    LET r == req[q] IN
    /\ r.at = "stream"
    /\ IF Reopens(r, kind)
       THEN Set(q, [r EXCEPT !.at = "send", !.opens = @ + 1, !.tries = 0]) /\ UNCHANGED pool
       ELSE Fail(q, r, kind)

\* A stream that ends without a delta is an error of no account.
StreamEnds(q) ==
    /\ req[q].at = "stream"
    /\ Set(q, Finish(req[q], IF req[q].emitted THEN "ok" ELSE "empty"))
    /\ UNCHANGED pool

\* The client leaves, or has its answer.
Leave(q) ==
    /\ req[q] # Idle
    /\ Set(q, Idle)
    /\ UNCHANGED pool

-----------------------------------------------------------------------------
CoolingEnds(a) ==
    /\ a \in cool
    /\ cool' = cool \ {a} /\ failed' = failed \ {a}
    /\ UNCHANGED <<usable, req>>

Change(a) ==
    /\ usable' = IF a \in usable THEN usable \ {a} ELSE usable \cup {a}
    /\ UNCHANGED <<cool, failed, req>>

Next ==
    \/ \E q \in Requests :
        \/ \E a \in Accounts :
            \/ Start(q, a)
            \/ \E outcome \in {"bridge", "none", "refused"} : Find(q, a, outcome)
        \/ NoCandidate(q) \/ Bridge(q) \/ Open(q) \/ Delta(q) \/ StreamEnds(q) \/ Leave(q)
        \/ \E kind \in Kinds : BridgeFails(q, kind) \/ OpenFails(q, kind) \/ StreamFails(q, kind)
    \/ \E a \in Accounts : CoolingEnds(a) \/ Change(a)

Spec == Init /\ [][Next]_vars

-----------------------------------------------------------------------------
\* After its first delta a call asks nobody again; an account gets it a limited
\* number of times, a limited number of accounts get it at all, and an account
\* cools down only for a failure of its own.
CallsFit ==
    /\ cool \subseteq failed
    /\ \A q \in Requests : req[q] # Idle =>
        LET r == req[q] IN
        /\ r.emitted => r.at \in {"stream", "done"}
        /\ Cardinality(r.tried) <= MaxTried
        /\ \A a \in Accounts : r.sends[a] <= (MaxRetries + 1) * (MaxRetries + 1)
        /\ \A a \in Accounts : r.sends[a] > 0 => a \in r.tried
=============================================================================
