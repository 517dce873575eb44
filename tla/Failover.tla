------------------------------ MODULE Failover ------------------------------
(***************************************************************************)
(* The attempt loop of the WorkBuddy channel: OpenUpstreamScoped           *)
(* (internal/workbuddy/runtime/routing.go) around one attempt, Stream      *)
(* (attempt.go), with the error classes and penalties of errclass.go and   *)
(* the account pool (internal/workbuddy/pool/pool.go) they act on.         *)
(*                                                                         *)
(* A request selects an account, confirms it, obtains headers (which may   *)
(* wait for a token refresh), dispatches, and judges the outcome: it ends, *)
(* repairs its body for the same account, or gives the account up and      *)
(* picks another one.  Between these steps other requests and operators    *)
(* change accounts and permissions.  Sessions and slots, which only narrow *)
(* the choice of an account, are the subject of SessionRouter and          *)
(* Admission.                                                              *)
(***************************************************************************)
EXTENDS Integers, FiniteSets

CONSTANTS
    Requests, Accounts, NoAccount,
    Portal,       \* requests of portal users: a scope of shared accounts
    Unchecked,    \* requests of the administrator's key: no dispatch check
    MaxAttempts,  \* maxFailoverAttempts: attempts and dispatches
    MaxEvents     \* bound on what operators and refreshes change

ASSUME FailoverAssumption ==
    /\ NoAccount \notin Accounts
    /\ Portal \subseteq Requests
    /\ Unchecked \subseteq Requests \ Portal
    /\ MaxAttempts \in Nat \ {0}
    /\ MaxEvents \in Nat

VARIABLES
    account,    \* account -> pool.Account and the credentials' state
    grant,      \* request -> accounts the store lets its principal use
    scope,      \* request -> AccountScope of the principal
    pc, acc, tried, attempt, started,
    budget,     \* recoveryBudget.remaining
    retry,      \* retry of Stream
    images,     \* imageRecoveryStage
    compat,     \* compatTries
    used,       \* attemptManager: generation of the credentials
    events,
    \* history: dispatches, and the accounts given up for another one
    sent, givenUp

request == <<pc, acc, tried, attempt, started, budget, retry, images, compat,
             used, sent, givenUp>>
vars == <<account, grant, scope, request, events>>

\* Remaining cooldown of an account: none, within SessionStickyMaxCooldown
\* (30 s), longer.
Cooldown == 0..2
Grace == 1

\* newAccount
Fresh == [generation |-> 1, enabled |-> TRUE, invalid |-> FALSE,
          broke |-> FALSE, cooldown |-> 0, blocked |-> FALSE]

Init ==
    /\ account = [a \in Accounts |-> Fresh]
    /\ grant \in [Requests -> {Accounts}]
    /\ scope = [r \in Requests |-> IF r \in Portal THEN grant[r] ELSE {}]
    /\ pc = [r \in Requests |-> "idle"]
    /\ acc = [r \in Requests |-> NoAccount]
    /\ tried = [r \in Requests |-> {}]
    /\ attempt = [r \in Requests |-> 0]
    /\ started = [r \in Requests |-> FALSE]
    /\ budget = [r \in Requests |-> MaxAttempts]
    /\ retry = [r \in Requests |-> 0]
    /\ images = [r \in Requests |-> 0]
    /\ compat = [r \in Requests |-> 0]
    /\ used = [r \in Requests |-> 0]
    /\ events = 0
    /\ sent = [r \in Requests |-> 0]
    /\ givenUp = [r \in Requests |-> {}]

-----------------------------------------------------------------------------
\* What the pool says of an account.

\* ModelCallable: the account object, which a request may hold after the
\* account was deleted.  "broke" stands for no balance and no free model.
ModelCallable(a) == account[a].enabled /\ ~account[a].invalid /\ ~account[a].broke

Member(a) == account[a].generation # 0

\* ModelHealthy
ModelHealthy(a) == ModelCallable(a) /\ account[a].cooldown = 0

\* The accounts a selection starts from: ModelAccountUIDs within the scope
\* or the private pool.
Authorized(r) == IF r \in Portal THEN scope[r] ELSE grant[r]

\* PickAccountExcludingIn and PickInScope.
Candidates(r) ==
    {a \in Authorized(r) \ tried[r] :
        /\ Member(a) /\ ModelCallable(a) /\ ~account[a].blocked
        /\ account[a].cooldown <= Grace}

\* The accounts AccountSelector may return.
Ready(r) ==
    {a \in Authorized(r) \ tried[r] :
        /\ Member(a) /\ ~account[a].blocked
        /\ \/ ModelHealthy(a)
           \/ a = acc[r] /\ ModelCallable(a) /\ account[a].cooldown <= Grace}

-----------------------------------------------------------------------------
\* Errors of an attempt (ClassifyUpstream) and what they do (ActionFor).

Disabling == {"session_dead", "account_limited"}
ModelScoped == {"daily_limit", "model_blocked"}
FailFast == {"content_blocked", "prompt_too_long", "image_invalid"}
Credit == {"hard_credit"}
Unpunished == {"channel_denied", "bad_params", "client"}

\* Cooldowns of the remaining classes.  An upstream that says when to come
\* back may ask for less than the grace of a session.
CooldownOf(kind) ==
    CASE kind \in {"soft_rate", "waf_block"} -> {1, 2}
      [] OTHER -> {2}

Cooling == {"soft_rate", "waf_block", "not_found", "server", "account_fault"}

UpstreamErrors == Disabling \cup ModelScoped \cup FailFast \cup Credit
                  \cup Unpunished \cup Cooling

Max2(m, n) == IF m > n THEN m ELSE n

\* markFailure: a cooldown is only ever extended.
MarkFailure(a, until) ==
    account' = [account EXCEPT ![a].cooldown = Max2(@, until)]

\* penalizeAccount.  The credentials of the attempt are compared with the
\* current ones for a credit rejection only.
Penalize(r, kind) ==
    LET a == acc[r] IN
    CASE kind \in ModelScoped ->
            account' = [account EXCEPT ![a].blocked = TRUE]
      [] kind \in Disabling /\ Member(a) /\ ~account[a].invalid ->
            account' = [account EXCEPT ![a].enabled = FALSE]
      [] kind \in Credit /\ Member(a) /\ account[a].generation = used[r] ->
            MarkFailure(a, 2)
      [] kind \in Cooling /\ Member(a) ->
            \E until \in CooldownOf(kind) : MarkFailure(a, until)
      [] OTHER -> UNCHANGED account

-----------------------------------------------------------------------------
\* The loop of OpenUpstreamScoped.

Goto(r, place) == pc' = [pc EXCEPT ![r] = place]

\* The request returns; its locals go out of scope.
Return(r) ==
    /\ Goto(r, "done")
    /\ acc' = [acc EXCEPT ![r] = NoAccount]
    /\ tried' = [tried EXCEPT ![r] = {}]
    /\ attempt' = [attempt EXCEPT ![r] = 0]
    /\ started' = [started EXCEPT ![r] = FALSE]
    /\ budget' = [budget EXCEPT ![r] = 0]
    /\ retry' = [retry EXCEPT ![r] = 0]
    /\ images' = [images EXCEPT ![r] = 0]
    /\ compat' = [compat EXCEPT ![r] = 0]
    /\ used' = [used EXCEPT ![r] = 0]
    /\ givenUp' = [givenUp EXCEPT ![r] = {}]
    /\ UNCHANGED sent

\* Another round with the same account and another body: the account is
\* taken back out of those tried.
Repair(r) ==
    /\ Goto(r, "select")
    /\ attempt' = [attempt EXCEPT ![r] = @ + 1]
    /\ retry' = [retry EXCEPT ![r] = 0]
    /\ used' = [used EXCEPT ![r] = 0]
    /\ tried' = [tried EXCEPT ![r] = @ \ {acc[r]}]
    /\ UNCHANGED <<account, acc, started, budget, sent, givenUp>>

\* recoveryAvailable and the bound on attempts, for n more dispatches.
Room(r, n) == attempt[r] + n < MaxAttempts /\ budget[r] >= n

\* An image rejection: repair or drop the images at fault while a full
\* fallback remains possible, then drop every image.  Whether an image is
\* found depends on the body.
RepairImages(r) ==
    /\ images[r] < 2 /\ Room(r, 1)
    /\ \/ /\ images[r] = 0 /\ Room(r, 2)
          /\ images' = [images EXCEPT ![r] = 1]
       \/ images' = [images EXCEPT ![r] = 2]
    /\ UNCHANGED compat
    /\ Repair(r)

\* Mutant: the compatible body does not count against the attempts.
RepairCompatFree(r) ==
    /\ compat[r] < 2
    /\ compat' = [compat EXCEPT ![r] = @ + 1]
    /\ UNCHANGED images
    /\ budget' = [budget EXCEPT ![r] = @ + 1]
    /\ Goto(r, "select")
    /\ retry' = [retry EXCEPT ![r] = 0]
    /\ used' = [used EXCEPT ![r] = 0]
    /\ tried' = [tried EXCEPT ![r] = @ \ {acc[r]}]
    /\ UNCHANGED <<account, acc, attempt, started, sent, givenUp>>

\* A channel rejection: send the template at the next compatibility level,
\* if the body has one.
RepairCompat(r) ==
    /\ compat[r] < 2 /\ Room(r, 1)
    /\ compat' = [compat EXCEPT ![r] = @ + 1]
    /\ UNCHANGED images
    /\ Repair(r)

\* The account is given up: penalty, then another pick unless the bounds
\* are reached.
GiveUp(r, kind) ==
    /\ Penalize(r, kind)
    /\ IF Room(r, 1) /\ kind \notin FailFast
       THEN /\ Goto(r, "pick")
            /\ givenUp' = [givenUp EXCEPT ![r] = @ \cup {acc[r]}]
            /\ retry' = [retry EXCEPT ![r] = 0]
            /\ used' = [used EXCEPT ![r] = 0]
            /\ UNCHANGED <<acc, tried, attempt, started, budget, images, compat, sent>>
       ELSE Return(r)

\* What follows an attempt that failed with an error of the upstream.
Reject(r, kind) ==
    IF started[r]
    THEN /\ Return(r)
         /\ IF kind \in {"channel_denied", "image_invalid"} \/ ~Member(acc[r])
            THEN UNCHANGED account
            ELSE MarkFailure(acc[r], 2)
    ELSE \/ kind = "image_invalid" /\ RepairImages(r)
         \/ kind = "channel_denied" /\ RepairCompat(r)
         \/ GiveUp(r, kind)

\* A failure that is no answer of the upstream ends the request; it counts
\* against the account unless this host's network is at fault.
Break(r, local) ==
    /\ Return(r)
    /\ IF local \/ ~Member(acc[r]) THEN UNCHANGED account ELSE MarkFailure(acc[r], 2)

\* Success, cancellation, a response over its limit, a refused dispatch.
End(r) == Return(r) /\ UNCHANGED account

-----------------------------------------------------------------------------
\* The steps of a request.

environment == <<grant, scope, events>>

\* CheckDispatch of a key with an application: permissions are read again.
Refused(r) == r \notin Unchecked /\ acc[r] \notin grant[r]

\* The check also renews the scope of a portal user.
Rescope(r) ==
    scope' = IF r \in Portal THEN [scope EXCEPT ![r] = grant[r]] ELSE scope

\* The first pick, before the request is admitted.
Begin(r) ==
    /\ pc[r] = "idle"
    /\ IF Candidates(r) = {} THEN End(r) ELSE
        \E a \in Candidates(r) :
            /\ acc' = [acc EXCEPT ![r] = a]
            /\ Goto(r, "select")
            /\ UNCHANGED <<account, tried, attempt, started, budget, retry,
                           images, compat, used, sent, givenUp>>
    /\ UNCHANGED environment

\* AccountSelector: the queue may have held the request for long.
Select(r) ==
    /\ pc[r] = "select"
    /\ IF Ready(r) = {} THEN End(r) ELSE
        \E a \in Ready(r) :
            /\ acc' = [acc EXCEPT ![r] = a]
            /\ Goto(r, "confirm")
            /\ UNCHANGED <<account, tried, attempt, started, budget, retry,
                           images, compat, used, sent, givenUp>>
    /\ UNCHANGED environment

\* The checks before an attempt, and the credentials it is charged to.
Confirm(r) ==
    /\ pc[r] = "confirm"
    /\ IF acc[r] \notin grant[r] \/ ~ModelCallable(acc[r])
       THEN End(r)
       ELSE /\ tried' = [tried EXCEPT ![r] = @ \cup {acc[r]}]
            /\ used' = [used EXCEPT ![r] = account[acc[r]].generation]
            /\ Goto(r, "headers")
            /\ UNCHANGED <<account, acc, attempt, started, budget, retry,
                           images, compat, sent, givenUp>>
    /\ Rescope(r)
    /\ UNCHANGED <<grant, events>>

\* The headers of an attempt.
Headers(r) ==
    /\ pc[r] = "headers"
    /\ \/ /\ retry[r] = 0 /\ Refused(r)
          /\ End(r)
       \/ /\ retry[r] # 0 \/ ~Refused(r)
          /\ \/ ~Member(acc[r]) /\ Break(r, FALSE)
             \/ Member(acc[r]) /\ account[acc[r]].invalid /\ Reject(r, "client")
             \/ /\ Member(acc[r]) /\ ~account[acc[r]].invalid
                /\ \/ /\ Goto(r, "dispatch")
                      /\ UNCHANGED <<account, acc, tried, attempt, started,
                                     budget, retry, images, compat, used,
                                     sent, givenUp>>
                   \/ Reject(r, "server")
                   \/ Break(r, TRUE)
                   \/ End(r)
    /\ IF retry[r] = 0 THEN Rescope(r) ELSE UNCHANGED scope
    /\ UNCHANGED <<grant, events>>

\* The refresh that the headers wait for finds the login expired.
HeadersLogin(r) ==
    /\ pc[r] = "headers"
    /\ Member(acc[r]) /\ ~account[acc[r]].invalid
    /\ retry[r] # 0 \/ ~Refused(r)
    /\ events < MaxEvents
    /\ events' = events + 1
    /\ account' = [account EXCEPT ![acc[r]].invalid = TRUE]
    /\ UNCHANGED <<grant, scope, request>>

\* Mutant: the renewed attempt trusts the earlier check.
DispatchTrusting(r) ==
    /\ pc[r] = "dispatch"
    /\ IF retry[r] = 0 /\ Refused(r) THEN End(r)
       ELSE IF budget[r] = 0 THEN Reject(r, "client")
       ELSE /\ budget' = [budget EXCEPT ![r] = @ - 1]
            /\ sent' = [sent EXCEPT ![r] = @ + 1]
            /\ Goto(r, "wire")
            /\ UNCHANGED <<account, acc, tried, attempt, started, retry,
                           images, compat, used, givenUp>>
    /\ Rescope(r)
    /\ UNCHANGED <<grant, events>>

\* One pass of the retry loop of Stream up to the request on the wire.
Dispatch(r) ==
    /\ pc[r] = "dispatch"
    /\ IF Refused(r) THEN End(r)
       ELSE IF budget[r] = 0 THEN Reject(r, "client")
       ELSE /\ budget' = [budget EXCEPT ![r] = @ - 1]
            /\ sent' = [sent EXCEPT ![r] = @ + 1]
            /\ Goto(r, "wire")
            /\ UNCHANGED <<account, acc, tried, attempt, started, retry,
                           images, compat, used, givenUp>>
    /\ Rescope(r)
    /\ UNCHANGED <<grant, events>>

\* The first frame with output, or the end of the answer, reaches the client.
Output(r) ==
    /\ pc[r] = "wire" /\ ~started[r]
    /\ started' = [started EXCEPT ![r] = TRUE]
    /\ UNCHANGED <<account, environment, pc, acc, tried, attempt, budget,
                   retry, images, compat, used, sent, givenUp>>

\* Mutant: the same account is asked again after output.
UnauthorizedAfterOutput(r) ==
    /\ pc[r] = "wire"
    /\ IF retry[r] = 0 /\ budget[r] >= 1
       THEN /\ Goto(r, "renew")
            /\ UNCHANGED <<account, acc, tried, attempt, started, budget,
                           retry, images, compat, used, sent, givenUp>>
       ELSE Reject(r, "client")
    /\ UNCHANGED environment

\* HTTP 401: renew the credentials once, unless output has begun.
Unauthorized(r) ==
    /\ pc[r] = "wire"
    /\ IF ~started[r] /\ retry[r] = 0 /\ budget[r] >= 1
       THEN /\ Goto(r, "renew")
            /\ UNCHANGED <<account, acc, tried, attempt, started, budget,
                           retry, images, compat, used, sent, givenUp>>
       ELSE Reject(r, "client")
    /\ UNCHANGED environment

\* RecoverChatAuthorization; without credentials the first 401 stands.
Renew(r) ==
    /\ pc[r] = "renew"
    /\ \/ /\ Member(acc[r])
          /\ Goto(r, "headers")
          /\ retry' = [retry EXCEPT ![r] = 1]
          /\ UNCHANGED <<account, acc, tried, attempt, started, budget,
                         images, compat, used, sent, givenUp>>
       \/ Reject(r, "client")
       \/ ~Member(acc[r]) /\ Reject(r, "session_dead")
       \/ End(r)
    /\ UNCHANGED environment

\* The answer ends, or fails in a way that is not a 401.
Answer(r) ==
    /\ pc[r] = "wire"
    /\ \/ End(r)
       \/ \E kind \in UpstreamErrors : Reject(r, kind)
       \/ \E local \in BOOLEAN : Break(r, local)
    /\ UNCHANGED environment

\* Mutant: the next account is any of the authorized, and not counted.
PickAny(r) ==
    /\ pc[r] = "pick"
    /\ IF Authorized(r) = {} THEN Return(r) ELSE
        \E a \in Authorized(r) :
            /\ acc' = [acc EXCEPT ![r] = a]
            /\ tried' = [tried EXCEPT ![r] = {}]
            /\ Goto(r, "select")
            /\ UNCHANGED <<attempt, started, budget, retry, images, compat,
                           used, sent, givenUp>>
    /\ UNCHANGED <<account, environment>>

\* The pick of another account after one was given up.
Pick(r) ==
    /\ pc[r] = "pick"
    /\ IF Candidates(r) = {} THEN Return(r) ELSE
        \E a \in Candidates(r) :
            /\ acc' = [acc EXCEPT ![r] = a]
            /\ attempt' = [attempt EXCEPT ![r] = @ + 1]
            /\ Goto(r, "select")
            /\ UNCHANGED <<tried, started, budget, retry, images, compat,
                           used, sent, givenUp>>
    /\ UNCHANGED <<account, environment>>

-----------------------------------------------------------------------------
\* Operators, refreshes and time.

Event == events < MaxEvents /\ events' = events + 1

\* A balance reading or a new quote changes what the account may be used for.
Rebalance(a) ==
    /\ Event
    /\ account' = [account EXCEPT ![a].broke = ~@]
    /\ UNCHANGED <<grant, scope, request>>

\* A call that is not among Requests fails: penalizeAccount.
Elsewhere(a) ==
    /\ Event /\ Member(a)
    /\ \/ MarkFailure(a, 2)
       \/ account' = [account EXCEPT ![a].blocked = TRUE]
    /\ UNCHANGED <<grant, scope, request>>

\* SetAccountEnabled
SetEnabled(a) ==
    /\ Event /\ Member(a)
    /\ account' = [account EXCEPT ![a].enabled = ~@]
    /\ UNCHANGED <<grant, scope, request>>

\* DeleteAccount: requests keep the account object.
DeleteAccount(a) ==
    /\ Event /\ Member(a)
    /\ account' = [account EXCEPT ![a].generation = 0, ![a].blocked = FALSE]
    /\ UNCHANGED <<grant, scope, request>>

\* RegisterAuthUpload: a known account keeps its state and gets new
\* credentials, a deleted one starts again.
RegisterAuthUpload(a) ==
    /\ Event
    /\ account' = [account EXCEPT ![a] =
            IF Member(a)
            THEN [@ EXCEPT !.generation = events + 2, !.invalid = FALSE]
            ELSE [Fresh EXCEPT !.generation = events + 2,
                               !.blocked = account[a].blocked]]
    /\ UNCHANGED <<grant, scope, request>>

\* Permissions of a principal change in the store.
Regrant(r) ==
    /\ Event /\ pc[r] # "done"
    /\ \E a \in Accounts :
        grant' = [grant EXCEPT ![r] = IF a \in @ THEN @ \ {a} ELSE @ \cup {a}]
    /\ UNCHANGED <<account, scope, request>>

\* Time passes for an account in cooldown.
Thaw(a) ==
    /\ \/ /\ account[a].cooldown > 0
          /\ account' = [account EXCEPT ![a].cooldown = @ - 1]
       \/ /\ account[a].blocked
          /\ account' = [account EXCEPT ![a].blocked = FALSE]
    /\ UNCHANGED <<environment, request>>

-----------------------------------------------------------------------------
Step(r) ==
    \/ Begin(r) \/ Select(r) \/ Confirm(r) \/ Headers(r) \/ HeadersLogin(r)
    \/ Dispatch(r) \/ Output(r) \/ Unauthorized(r) \/ Renew(r) \/ Answer(r)
    \/ Pick(r)

Environment ==
    \/ \E a \in Accounts : Rebalance(a) \/ SetEnabled(a) \/ DeleteAccount(a)
                           \/ RegisterAuthUpload(a) \/ Elsewhere(a) \/ Thaw(a)
    \/ \E r \in Requests : Regrant(r)

Finished == (\A r \in Requests : pc[r] = "done") /\ UNCHANGED vars

Next == (\E r \in Requests : Step(r)) \/ Environment \/ Finished

Spec == Init /\ [][Next]_vars

\* Every call returns: upstream calls have deadlines, token refreshes and
\* selections end.
Fairness == \A r \in Requests : WF_vars(Step(r) /\ ~HeadersLogin(r))

FairSpec == Spec /\ Fairness

-----------------------------------------------------------------------------
TypeOK ==
    /\ account \in [Accounts ->
            [generation : 0..(MaxEvents + 1), enabled : BOOLEAN,
             invalid : BOOLEAN, broke : BOOLEAN, cooldown : Cooldown,
             blocked : BOOLEAN]]
    /\ grant \in [Requests -> SUBSET Accounts]
    /\ scope \in [Requests -> SUBSET Accounts]
    /\ pc \in [Requests -> {"idle", "select", "confirm", "headers",
                            "dispatch", "wire", "renew", "pick", "done"}]
    /\ acc \in [Requests -> Accounts \cup {NoAccount}]
    /\ tried \in [Requests -> SUBSET Accounts]
    /\ givenUp \in [Requests -> SUBSET Accounts]
    /\ attempt \in [Requests -> 0..(MaxAttempts - 1)]
    /\ {budget[r] : r \in Requests} \subseteq 0..MaxAttempts
    /\ sent \in [Requests -> Nat]
    /\ used \in [Requests -> 0..(MaxEvents + 1)]
    /\ retry \in [Requests -> 0..1]
    /\ images \in [Requests -> 0..2]
    /\ compat \in [Requests -> 0..2]
    /\ started \in [Requests -> BOOLEAN]
    /\ events \in 0..MaxEvents

\* "Retries are bounded to five total upstream attempts, including
\* compatibility retries": however image repairs, compatible templates,
\* renewed credentials and other accounts mix, a request is on the wire at
\* most MaxAttempts times.
WithinBudget == \A r \in Requests : sent[r] <= MaxAttempts

\* A request is sent again only where that is harmless: never, to any account,
\* once a frame has reached the client, and never to an account that this
\* request has given up for another one.
NoRepeat ==
    [][\A r \in Requests :
        sent'[r] > sent[r] => ~started[r] /\ acc[r] \notin givenUp[r]]_vars

\* A permission revoked during a wait (queue, token refresh, renewal) holds
\* at once: no request goes out to an account that its key may no longer use.
AuthorizedDispatch ==
    [][\A r \in Requests \ Unchecked :
        sent'[r] > sent[r] => acc[r] \in grant[r]]_vars

\* Types, and however repairs, renewals and other accounts mix, the budget.
BudgetKept == TypeOK /\ WithinBudget

\* Where a request is sent, sending it is harmless and still permitted.
DispatchesSafe == NoRepeat /\ AuthorizedDispatch

\* Every request returns: repairs, renewals and rotation cannot go on
\* forever, even while accounts thaw and fail again.
EveryRequestEnds == \A r \in Requests : pc[r] # "idle" ~> pc[r] = "done"
=============================================================================
