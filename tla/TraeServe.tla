------------------------------- MODULE TraeServe -------------------------------
(***************************************************************************)
(* Calls of the Trae channel: at most three requests to the upstream, each *)
(* on an account not tried before, with one same-account retry after a     *)
(* forced token refresh.  Rejections cool accounts down; balance reads,    *)
(* one at a time per account, thaw those that ran out.  The upstream, its  *)
(* balances and the dispatch check answer freely.                          *)
(***************************************************************************)
EXTENDS Integers, FiniteSets

CONSTANTS
    Accounts,
    Requests,
    MaxLoops,     \* attempts of Serve
    MaxProbes,    \* blocked accounts a request reads the balance of
    MaxChanges,   \* administrators' changes, and balances used up or refilled
    None

VARIABLES
    enabled,    \* accounts that are on
    needsLogin, \* accounts whose identity waits for a login
    cool,       \* account -> kind of rejection it cools down for, or None
    zero,       \* accounts whose last known balance is zero
    empty,      \* accounts that the upstream will not serve today
    changes,
    req

vars == <<enabled, needsLogin, cool, zero, empty, changes, req>>
pool == <<enabled, needsLogin, cool, zero, empty, changes>>

Idle == [at |-> "idle"]

Init ==
    /\ enabled = Accounts /\ needsLogin = {} /\ zero = {} /\ empty = {} /\ changes = 0
    /\ cool = [a \in Accounts |-> None]
    /\ req = [q \in Requests |-> Idle]

Set(q, r) == req' = [req EXCEPT ![q] = r]

\* Rejections: retried ones (rate, server, session, plan), and others (client).
Retryable(kind) == kind \in {"rate", "server", "session", "plan"}
Kinds == {"rate", "server", "session", "plan", "client"}

\* selectAccountFor: who may be chosen.
Eligible(r) ==
    {a \in enabled \ (r.tried \cup needsLogin \cup zero) : cool[a] = None}

\* refreshBlockedQuotas: nothing while an account can serve.
Blocked(r) ==
    {a \in enabled \ needsLogin : a \in zero \/ cool[a] = "plan"}
Healthy == {a \in enabled \ needsLogin : cool[a] = None /\ a \notin zero}

Start(q) ==
    /\ req[q] = Idle
    /\ LET r == [at |-> "select", attempt |-> 0, tried |-> {}, on |-> None, renewed |-> {},
                 probes |-> {}, rejection |-> None, by |-> None, lost |-> FALSE,
                 sends |-> 0, unsure |-> FALSE, result |-> None]
       IN  \E some \in SUBSET Blocked(r) :
            /\ Cardinality(some) <= MaxProbes
            /\ Set(q, IF Healthy # {} \/ some = {} THEN r
                      ELSE [r EXCEPT !.at = "recover", !.probes = some])
    /\ UNCHANGED pool

\* refreshQuotaRaw: credits end a cooldown for a used-up plan, not other ones.
Thaws(a, positive) == IF positive /\ cool[a] = "plan" THEN None ELSE cool[a]

\* Positive credits do not promise that the model's quota is left.
QuotaKnown(a) ==
    \E positive \in BOOLEAN :
        /\ cool' = [cool EXCEPT ![a] = Thaws(a, positive)]
        /\ zero' = IF positive THEN zero \ {a} ELSE zero \cup {a}

\* One blocked account's balance is read, or cannot be.
Recover(q) ==
    LET r == req[q] IN
    /\ r.at = "recover"
    /\ \E a \in r.probes :
        /\ QuotaKnown(a) \/ UNCHANGED <<cool, zero>>
        /\ Set(q, [r EXCEPT !.probes = @ \ {a}, !.at = IF r.probes = {a} THEN "select" ELSE @])
    /\ UNCHANGED <<enabled, needsLogin, empty, changes>>

\* An administrator or the scheduler reads a balance.
RefreshQuota(a) ==
    /\ QuotaKnown(a)
    /\ UNCHANGED <<enabled, needsLogin, empty, changes, req>>

-----------------------------------------------------------------------------
Finish(r, result) == [r EXCEPT !.at = "done", !.result = result]

\* Mutant: what an account rejected is forgotten.
LastWordForgets(r) == IF r.lost THEN "lost" ELSE "unavailable"

\* What a call without accounts left answers: a rejection before a lost connection.
LastWord(r) ==
    CASE r.rejection # None -> "rejection"
      [] r.rejection = None /\ r.lost -> "lost"
      [] OTHER -> "unavailable"

Select(q) ==
    LET r == req[q] IN
    /\ r.at = "select"
    /\ IF r.attempt = MaxLoops \/ Eligible(r) = {}
       THEN Set(q, Finish(r, LastWord(r)))
       ELSE \E a \in Eligible(r) :
                Set(q, [r EXCEPT !.at = "ensure", !.on = a, !.tried = @ \cup {a}])
    /\ UNCHANGED pool

Next1(r) == [r EXCEPT !.at = "select", !.attempt = @ + 1]

\* coolWithDelay.
Cools(a, kind) == IF Retryable(kind) THEN [cool EXCEPT ![a] = kind] ELSE cool

\* ensure: the identity may be lost meanwhile, its token may not be renewed.
Ensure(q) ==
    LET r == req[q] IN
    /\ r.at = "ensure"
    /\ \/ r.on \notin needsLogin /\ Set(q, [r EXCEPT !.at = "send"]) /\ UNCHANGED cool
       \/ r.on \in needsLogin /\ Set(q, Next1(r)) /\ UNCHANGED cool
       \/ IF r.attempt < MaxLoops - 1
          THEN cool' = Cools(r.on, "session") /\ Set(q, Next1(r))
          ELSE UNCHANGED cool /\ Set(q, Finish(r, "unavailable"))
    /\ UNCHANGED <<enabled, needsLogin, zero, empty, changes>>

\* CheckDispatch before every request; then the request goes out.
Send(q, checked) ==
    LET r == req[q] IN
    /\ r.at = "send"
    /\ Set(q, IF checked THEN [r EXCEPT !.at = "sent", !.sends = @ + 1]
              ELSE Finish(r, "refused"))
    /\ UNCHANGED pool

\* Mutant: every lost connection is retried.
RetriesAnyLoss(r, before) == r.attempt < MaxLoops - 1

\* Only a request that cannot have reached the upstream is sent again.
RetriesLoss(r, before) == before /\ r.attempt < MaxLoops - 1

\* The connection breaks: before the request was written, or after.
Lose(q, before) ==
    LET r == [req[q] EXCEPT !.lost = TRUE, !.unsure = @ \/ ~before] IN
    /\ req[q].at = "sent"
    /\ Set(q, IF RetriesLoss(r, before) THEN Next1(r) ELSE Finish(r, "lost"))
    /\ UNCHANGED pool

\* Mutant: the token is renewed for every rejection of the session.
RenewsAgain(r, kind) == kind = "session" /\ r.attempt < MaxLoops - 1

\* Once for each identity, in the budget of the attempts.
Renews(r, kind) == kind = "session" /\ r.on \notin r.renewed /\ r.attempt < MaxLoops - 1

\* The account is cooled down and another one tried, or the rejection is the answer.
Rejected(q, r, kind) ==
    LET now == [r EXCEPT !.rejection = kind, !.by = r.on] IN
    /\ cool' = Cools(r.on, kind)
    /\ Set(q, IF Retryable(kind) /\ r.attempt < MaxLoops - 1 THEN Next1(now)
              ELSE Finish(now, "rejection"))

\* A rejection, by status or as the first event of the stream.
Reject(q, kind, status) ==
    LET r == req[q] IN
    /\ r.at = "sent"
    /\ kind = "plan" => r.on \in empty
    /\ IF status /\ Renews(r, kind)
       THEN Set(q, [r EXCEPT !.at = "renew", !.renewed = @ \cup {r.on}]) /\ UNCHANGED cool
       ELSE Rejected(q, r, kind)
    /\ UNCHANGED <<enabled, needsLogin, zero, empty, changes>>

\* forceRefresh: the retry on the same account takes an attempt.
Renew(q, ok) ==
    LET r == req[q] IN
    /\ r.at = "renew"
    /\ IF ok THEN Set(q, [r EXCEPT !.at = "send", !.attempt = @ + 1]) /\ UNCHANGED cool
       ELSE Rejected(q, r, "session")
    /\ UNCHANGED <<enabled, needsLogin, zero, empty, changes>>

\* An empty reply or a stream that breaks before its first event.
NoFirstEvent(q) ==
    /\ req[q].at = "sent"
    /\ Set(q, Finish([req[q] EXCEPT !.unsure = TRUE], "broken"))
    /\ UNCHANGED pool

\* The stream is written to the client, to its end or not.
Stream(q, whole) ==
    /\ req[q].at = "sent" /\ req[q].on \notin empty
    /\ Set(q, Finish([req[q] EXCEPT !.unsure = TRUE], IF whole THEN "ok" ELSE "incomplete"))
    /\ UNCHANGED pool

Leave(q) ==
    /\ req[q].at # "idle"
    /\ Set(q, Idle)
    /\ UNCHANGED pool

-----------------------------------------------------------------------------
\* A cooldown ends; administrators and the upstream change an account.
CoolingEnds(a) ==
    /\ cool[a] # None
    /\ cool' = [cool EXCEPT ![a] = None]
    /\ UNCHANGED <<enabled, needsLogin, zero, empty, changes, req>>

Change(a) ==
    /\ changes < MaxChanges
    /\ changes' = changes + 1
    /\ \/ /\ empty' = IF a \in empty THEN empty \ {a} ELSE empty \cup {a}
          /\ UNCHANGED <<enabled, needsLogin>>
       \/ /\ enabled' = IF a \in enabled THEN enabled \ {a} ELSE enabled \cup {a}
          /\ UNCHANGED <<needsLogin, empty>>
       \/ /\ needsLogin' = IF a \in needsLogin THEN needsLogin \ {a} ELSE needsLogin \cup {a}
          /\ UNCHANGED <<enabled, empty>>
    /\ UNCHANGED <<cool, zero, req>>

Next ==
    \/ \E q \in Requests :
        \/ Start(q) \/ Recover(q) \/ Select(q) \/ Ensure(q)
        \/ \E b \in BOOLEAN : Send(q, b) \/ Lose(q, b) \/ Renew(q, b) \/ Stream(q, b)
        \/ \E kind \in Kinds, status \in BOOLEAN : Reject(q, kind, status)
        \/ NoFirstEvent(q) \/ Leave(q)
    \/ \E a \in Accounts : RefreshQuota(a) \/ CoolingEnds(a) \/ Change(a)

Spec == Init /\ [][Next]_vars

-----------------------------------------------------------------------------
\* The upstream gets a call at most three times, never again after it may have
\* begun to serve it, and each account once, or twice around a token refresh.
SendsFit ==
    \A q \in Requests : req[q] # Idle =>
        LET r == req[q] IN
        /\ r.sends <= MaxLoops
        /\ r.unsure => r.at = "done"
        /\ r.sends <= Cardinality(r.tried) + Cardinality(r.renewed)

\* What a call answers fits what it met: a rejection if an account gave one, and
\* no account was available only if no request was lost or rejected.
AnswersFit ==
    \A q \in Requests : req[q].at = "done" =>
        LET r == req[q] IN
        /\ r.result = "rejection" => r.by \in r.tried /\ r.sends > 0
        /\ r.result = "unavailable" => r.attempt = MaxLoops - 1 \/ (r.rejection = None /\ ~r.lost)
=============================================================================
