--------------------------- MODULE WorkBuddyProofs ---------------------------
(***************************************************************************)
(* Proofs about the attempt loop of WorkBuddy, for any number of requests, *)
(* accounts, attempts and outside events: a request is on the wire at most *)
(* MaxAttempts times, never again after output, never on an account it has *)
(* given up, and never on one that its key may no longer use.              *)
(*                                                                         *)
(* About credit rejections and balance readings, for any number of         *)
(* accounts, calls and readers, any backlog, interval and cooldowns, and   *)
(* behaviours of any length: the bounds on the clock and on events may be  *)
(* any numbers.                                                            *)
(*                                                                         *)
(* And about the channel, which MCWorkBuddy composes of the two and of the *)
(* credentials: what is proved of the three holds in the channel.          *)
(***************************************************************************)
EXTENDS MCWorkBuddy, Sequences, TLAPS

-----------------------------------------------------------------------------
\* The inductive invariant.

AccountRows ==
    [generation : 0..(MaxEvents + 1), enabled : BOOLEAN, invalid : BOOLEAN,
     broke : BOOLEAN, cooldown : Cooldown, blocked : BOOLEAN]

WorldTyped ==
    /\ account \in [Accounts -> AccountRows]
    /\ grant \in [Requests -> SUBSET Accounts]
    /\ scope \in [Requests -> SUBSET Accounts]
    /\ events \in 0..MaxEvents

RequestsTyped ==
    /\ pc \in [Requests -> {"idle", "select", "confirm", "headers",
                            "dispatch", "wire", "renew", "pick", "done"}]
    /\ acc \in [Requests -> Accounts \cup {NoAccount}]
    /\ tried \in [Requests -> SUBSET Accounts]
    /\ givenUp \in [Requests -> SUBSET Accounts]
    /\ attempt \in [Requests -> 0..(MaxAttempts - 1)]
    /\ budget \in [Requests -> 0..MaxAttempts]
    /\ sent \in [Requests -> Nat]
    /\ used \in [Requests -> 0..(MaxEvents + 1)]
    /\ retry \in [Requests -> 0..1]
    /\ images \in [Requests -> 0..2]
    /\ compat \in [Requests -> 0..2]
    /\ started \in [Requests -> BOOLEAN]

\* The places where an account is chosen, and those where it is being tried.
Chosen == {"select", "confirm", "headers", "dispatch", "wire", "renew"}
Trying == {"headers", "dispatch", "wire", "renew"}

\* Every dispatch was paid from the budget; output has begun only on the wire;
\* an account that is chosen was not given up, because what was given up stays
\* among those tried, and an account is chosen among the others.
Sound(r) ==
    /\ sent[r] + budget[r] <= MaxAttempts
    /\ pc[r] = "pick" => attempt[r] + 1 < MaxAttempts
    /\ started[r] => pc[r] = "wire"
    /\ givenUp[r] \subseteq tried[r]
    /\ pc[r] \in Chosen => acc[r] \in Accounts \ givenUp[r]
    /\ pc[r] \in Trying => acc[r] \in tried[r]

FailoverInv == WorldTyped /\ RequestsTyped /\ \A r \in Requests : Sound(r)

\* What the steps of a request keep of it, whatever they do to the accounts.
Kept == RequestsTyped' /\ \A q \in Requests : Sound(q)'

-----------------------------------------------------------------------------
\* What failures do to an account.

LEMMA MarkTyped ==
    ASSUME WorldTyped, NEW a \in Accounts, NEW until \in Cooldown, MarkFailure(a, until)
    PROVE  account' \in [Accounts -> AccountRows]
BY DEF WorldTyped, MarkFailure, AccountRows, Max2, Cooldown

LEMMA PenaltyTyped ==
    ASSUME WorldTyped, RequestsTyped, NEW r \in Requests, acc[r] \in Accounts,
           NEW kind, Penalize(r, kind)
    PROVE  account' \in [Accounts -> AccountRows]
<1>1. CASE account' = [account EXCEPT ![acc[r]].blocked = TRUE]
  BY <1>1 DEF WorldTyped, AccountRows
<1>2. CASE account' = [account EXCEPT ![acc[r]].enabled = FALSE]
  BY <1>2 DEF WorldTyped, AccountRows
<1>3. CASE \E until \in Cooldown : MarkFailure(acc[r], until)
  BY <1>3, MarkTyped
<1>4. CASE UNCHANGED account
  BY <1>4 DEF WorldTyped
<1>5. 2 \in Cooldown /\ CooldownOf(kind) \subseteq Cooldown
  BY DEF Cooldown, CooldownOf
<1> QED BY <1>1, <1>2, <1>3, <1>4, <1>5 DEF Penalize

\* One account gets another row.
LEMMA RowTyped ==
    ASSUME WorldTyped, NEW a \in Accounts, NEW row \in AccountRows,
           account' = [account EXCEPT ![a] = row]
    PROVE  account' \in [Accounts -> AccountRows]
BY DEF WorldTyped

LEMMA EventTyped ==
    ASSUME WorldTyped, Event
    PROVE  events' \in 0..MaxEvents /\ events' + 1 \in 0..(MaxEvents + 1)
BY FailoverAssumption DEF WorldTyped, Event

-----------------------------------------------------------------------------
\* The ends of an attempt.

LEMMA ReturnKeeps ==
    ASSUME FailoverInv, NEW r \in Requests, Return(r)
    PROVE  Kept
<1>1. RequestsTyped'
  BY FailoverAssumption DEF FailoverInv, RequestsTyped, Return, Goto
<1>2. ASSUME NEW q \in Requests PROVE Sound(q)'
  BY FailoverAssumption DEF FailoverInv, RequestsTyped, Sound, Return, Goto, Chosen, Trying
<1> QED BY <1>1, <1>2 DEF Kept

LEMMA RepairKeeps ==
    ASSUME FailoverInv, NEW r \in Requests, pc[r] \in Trying, ~started[r],
           RepairImages(r) \/ RepairCompat(r)
    PROVE  Kept
<1> USE DEF FailoverInv, RepairImages, RepairCompat, Repair, Room, Goto
<1>1. RequestsTyped'
  BY FailoverAssumption DEF RequestsTyped
<1>2. ASSUME NEW q \in Requests PROVE Sound(q)'
  BY FailoverAssumption DEF RequestsTyped, Sound, Chosen, Trying
<1> QED BY <1>1, <1>2 DEF Kept

LEMMA GiveUpKeeps ==
    ASSUME FailoverInv, NEW r \in Requests, pc[r] \in Trying, ~started[r],
           NEW kind, GiveUp(r, kind)
    PROVE  Kept
<1> USE DEF FailoverInv, GiveUp, Room, Goto
<1>1. CASE Return(r)
  BY <1>1, ReturnKeeps
<1>2. CASE ~Return(r)
  <2>1. RequestsTyped'
    BY <1>2, FailoverAssumption DEF RequestsTyped, Sound, Trying, Chosen
  <2>2. ASSUME NEW q \in Requests PROVE Sound(q)'
    BY <1>2, FailoverAssumption DEF RequestsTyped, Sound, Chosen, Trying
  <2> QED BY <2>1, <2>2 DEF Kept
<1> QED BY <1>1, <1>2

\* Whatever the upstream rejects, the request ends, repairs its body or moves on.
LEMMA RejectKeeps ==
    ASSUME FailoverInv, NEW r \in Requests, pc[r] \in Trying, NEW kind, Reject(r, kind)
    PROVE  Kept /\ account' \in [Accounts -> AccountRows]
<1> USE DEF FailoverInv
<1>1. acc[r] \in Accounts
  BY DEF Sound, Chosen, Trying
<1>2. CASE started[r]
  <2>1. Kept
    BY <1>2, ReturnKeeps DEF Reject
  <2>2. UNCHANGED account \/ MarkFailure(acc[r], 2)
    BY <1>2 DEF Reject
  <2> QED BY <1>1, <2>1, <2>2, MarkTyped DEF WorldTyped, Cooldown
<1>3. CASE ~started[r]
  <2>1. CASE RepairImages(r) \/ RepairCompat(r)
    BY <1>3, <2>1, RepairKeeps DEF WorldTyped, RepairImages, RepairCompat, Repair
  <2>2. CASE GiveUp(r, kind)
    BY <1>1, <1>3, <2>2, GiveUpKeeps, PenaltyTyped DEF GiveUp
  <2> QED BY <1>3, <2>1, <2>2 DEF Reject
<1> QED BY <1>2, <1>3

LEMMA BreakKeeps ==
    ASSUME FailoverInv, NEW r \in Requests, pc[r] \in Trying, NEW local, Break(r, local)
    PROVE  Kept /\ account' \in [Accounts -> AccountRows]
<1>1. acc[r] \in Accounts
  BY DEF FailoverInv, Sound, Chosen, Trying
<1>2. UNCHANGED account \/ MarkFailure(acc[r], 2)
  BY DEF Break
<1> QED BY <1>1, <1>2, ReturnKeeps, MarkTyped DEF FailoverInv, WorldTyped, Cooldown, Break

LEMMA EndKeeps ==
    ASSUME FailoverInv, NEW r \in Requests, End(r)
    PROVE  Kept /\ account' \in [Accounts -> AccountRows]
BY ReturnKeeps DEF End, FailoverInv, WorldTyped

-----------------------------------------------------------------------------
\* The steps of a request.

LEMMA RescopeTyped ==
    ASSUME WorldTyped, NEW r \in Requests, Rescope(r) \/ UNCHANGED scope
    PROVE  scope' \in [Requests -> SUBSET Accounts]
BY DEF WorldTyped, Rescope

LEMMA BeginInv ==
    ASSUME FailoverInv, NEW r \in Requests, Begin(r)
    PROVE  FailoverInv'
<1> USE DEF FailoverInv, Begin, environment
<1>1. CASE Candidates(r) = {}
  BY <1>1, EndKeeps DEF Kept, WorldTyped
<1>2. ASSUME NEW a \in Candidates(r), acc' = [acc EXCEPT ![r] = a], Goto(r, "select"),
             UNCHANGED <<account, tried, attempt, started, budget, retry,
                         images, compat, used, sent, givenUp>>
      PROVE  FailoverInv'
  <2>1. a \in Accounts \ tried[r]
    BY DEF Candidates, Authorized, WorldTyped
  <2>2. RequestsTyped'
    BY <1>2, <2>1 DEF RequestsTyped, Goto
  <2>3. ASSUME NEW q \in Requests PROVE Sound(q)'
    BY <1>2, <2>1 DEF RequestsTyped, Sound, Goto, Chosen, Trying
  <2> QED BY <1>2, <2>2, <2>3 DEF WorldTyped
<1> QED BY <1>1, <1>2

LEMMA SelectInv ==
    ASSUME FailoverInv, NEW r \in Requests, Select(r)
    PROVE  FailoverInv'
<1> USE DEF FailoverInv, Select, environment
<1>1. CASE Ready(r) = {}
  BY <1>1, EndKeeps DEF Kept, WorldTyped
<1>2. ASSUME NEW a \in Ready(r), acc' = [acc EXCEPT ![r] = a], Goto(r, "confirm"),
             UNCHANGED <<account, tried, attempt, started, budget, retry,
                         images, compat, used, sent, givenUp>>
      PROVE  FailoverInv'
  <2>1. a \in Accounts \ tried[r]
    BY DEF Ready, Authorized, WorldTyped
  <2>2. RequestsTyped'
    BY <1>2, <2>1 DEF RequestsTyped, Goto
  <2>3. ASSUME NEW q \in Requests PROVE Sound(q)'
    BY <1>2, <2>1 DEF RequestsTyped, Sound, Goto, Chosen, Trying
  <2> QED BY <1>2, <2>2, <2>3 DEF WorldTyped
<1> QED BY <1>1, <1>2

LEMMA ConfirmInv ==
    ASSUME FailoverInv, NEW r \in Requests, Confirm(r)
    PROVE  FailoverInv'
<1> USE DEF FailoverInv, Confirm
<1>1. scope' \in [Requests -> SUBSET Accounts]
  BY RescopeTyped
<1>2. CASE acc[r] \notin grant[r] \/ ~ModelCallable(acc[r])
  BY <1>1, <1>2, EndKeeps DEF Kept, WorldTyped
<1>3. CASE ~(acc[r] \notin grant[r] \/ ~ModelCallable(acc[r]))
  <2>1. acc[r] \in Accounts \ givenUp[r] /\ account[acc[r]].generation \in 0..(MaxEvents + 1)
    BY DEF Sound, Chosen, WorldTyped, AccountRows
  <2>2. RequestsTyped'
    BY <1>3, <2>1 DEF RequestsTyped, Goto
  <2>3. ASSUME NEW q \in Requests PROVE Sound(q)'
    BY <1>3, <2>1 DEF RequestsTyped, Sound, Goto, Chosen, Trying
  <2> QED BY <1>1, <1>3, <2>2, <2>3 DEF WorldTyped
<1> QED BY <1>2, <1>3

LEMMA HeadersInv ==
    ASSUME FailoverInv, NEW r \in Requests, Headers(r)
    PROVE  FailoverInv'
<1> USE DEF FailoverInv, Headers
<1>1. scope' \in [Requests -> SUBSET Accounts]
  BY RescopeTyped
<1>2. pc[r] \in Trying
  BY DEF Trying
<1>3. ASSUME Kept, account' \in [Accounts -> AccountRows]
      PROVE  FailoverInv'
  BY <1>1, <1>3 DEF Kept, WorldTyped
<1>4. ASSUME Goto(r, "dispatch"),
             UNCHANGED <<account, acc, tried, attempt, started, budget, retry, images,
                         compat, used, sent, givenUp>>
      PROVE  FailoverInv'
  <2>1. RequestsTyped'
    BY <1>4 DEF RequestsTyped, Goto
  <2>2. ASSUME NEW q \in Requests PROVE Sound(q)'
    BY <1>2, <1>4 DEF RequestsTyped, Sound, Goto, Chosen, Trying
  <2> QED BY <1>1, <1>4, <2>1, <2>2 DEF WorldTyped
<1>5. CASE End(r) BY <1>3, <1>5, EndKeeps
<1>6. CASE \E local : Break(r, local) BY <1>2, <1>3, <1>6, BreakKeeps
<1>7. CASE \E kind : Reject(r, kind) BY <1>2, <1>3, <1>7, RejectKeeps
<1> QED BY <1>4, <1>5, <1>6, <1>7

LEMMA HeadersLoginInv ==
    ASSUME FailoverInv, NEW r \in Requests, HeadersLogin(r)
    PROVE  FailoverInv'
<1> USE DEF FailoverInv, HeadersLogin, request
<1>1. acc[r] \in Accounts /\ account[acc[r]] \in AccountRows
  BY DEF Sound, Chosen, WorldTyped
<1>2. [account[acc[r]] EXCEPT !.invalid = TRUE] \in AccountRows
  BY <1>1 DEF AccountRows
<1>3. account' \in [Accounts -> AccountRows]
  BY <1>1, <1>2, RowTyped
<1>4. events' \in 0..MaxEvents
  BY EventTyped DEF Event
<1>5. WorldTyped'
  BY <1>3, <1>4 DEF WorldTyped
<1> QED BY <1>5 DEF RequestsTyped, Sound

\* The budget pays for the dispatch.
LEMMA DispatchInv ==
    ASSUME FailoverInv, NEW r \in Requests, Dispatch(r)
    PROVE  FailoverInv'
<1> USE DEF FailoverInv, Dispatch
<1>1. scope' \in [Requests -> SUBSET Accounts]
  BY RescopeTyped
<1>2. pc[r] \in Trying
  BY DEF Trying
<1>3. CASE Refused(r)
  BY <1>1, <1>3, EndKeeps DEF Kept, WorldTyped
<1>4. CASE ~Refused(r) /\ budget[r] = 0
  BY <1>1, <1>2, <1>4, RejectKeeps DEF Kept, WorldTyped
<1>5. CASE ~Refused(r) /\ budget[r] # 0
  <2>1. RequestsTyped'
    BY <1>5, FailoverAssumption DEF RequestsTyped, Goto
  <2>2. ASSUME NEW q \in Requests PROVE Sound(q)'
    BY <1>2, <1>5, FailoverAssumption DEF RequestsTyped, Sound, Goto, Chosen, Trying
  <2> QED BY <1>1, <1>5, <2>1, <2>2 DEF WorldTyped
<1> QED BY <1>3, <1>4, <1>5

LEMMA OutputInv ==
    ASSUME FailoverInv, NEW r \in Requests, Output(r)
    PROVE  FailoverInv'
<1> USE DEF FailoverInv, Output, environment
<1>1. WorldTyped' BY DEF WorldTyped
<1>2. RequestsTyped' BY DEF RequestsTyped
<1>3. ASSUME NEW q \in Requests PROVE Sound(q)'
  BY DEF RequestsTyped, Sound
<1> QED BY <1>1, <1>2, <1>3

LEMMA UnauthorizedInv ==
    ASSUME FailoverInv, NEW r \in Requests, Unauthorized(r)
    PROVE  FailoverInv'
<1> USE DEF FailoverInv, Unauthorized, environment
<1>1. pc[r] \in Trying
  BY DEF Trying
<1>2. CASE ~started[r] /\ retry[r] = 0 /\ budget[r] >= 1
  <2>1. RequestsTyped'
    BY <1>2 DEF RequestsTyped, Goto
  <2>2. ASSUME NEW q \in Requests PROVE Sound(q)'
    BY <1>1, <1>2 DEF RequestsTyped, Sound, Goto, Chosen, Trying
  <2> QED BY <1>2, <2>1, <2>2 DEF WorldTyped
<1>3. CASE ~(~started[r] /\ retry[r] = 0 /\ budget[r] >= 1)
  BY <1>1, <1>3, RejectKeeps DEF Kept, WorldTyped
<1> QED BY <1>2, <1>3

LEMMA RenewInv ==
    ASSUME FailoverInv, NEW r \in Requests, Renew(r)
    PROVE  FailoverInv'
<1> USE DEF FailoverInv, Renew, environment
<1>1. pc[r] \in Trying
  BY DEF Trying
<1>2. ASSUME Goto(r, "headers"), retry' = [retry EXCEPT ![r] = 1],
             UNCHANGED <<account, acc, tried, attempt, started, budget,
                         images, compat, used, sent, givenUp>>
      PROVE  FailoverInv'
  <2>1. RequestsTyped'
    BY <1>2 DEF RequestsTyped, Goto
  <2>2. ASSUME NEW q \in Requests PROVE Sound(q)'
    BY <1>1, <1>2 DEF RequestsTyped, Sound, Goto, Chosen, Trying
  <2> QED BY <1>2, <2>1, <2>2 DEF WorldTyped
<1>3. CASE \E kind : Reject(r, kind)
  BY <1>1, <1>3, RejectKeeps DEF Kept, WorldTyped
<1>4. CASE End(r)
  BY <1>4, EndKeeps DEF Kept, WorldTyped
<1> QED BY <1>2, <1>3, <1>4

LEMMA AnswerInv ==
    ASSUME FailoverInv, NEW r \in Requests, Answer(r)
    PROVE  FailoverInv'
<1> USE DEF FailoverInv, Answer, environment
<1>1. pc[r] \in Trying
  BY DEF Trying
<1>2. Kept /\ account' \in [Accounts -> AccountRows]
  BY <1>1, RejectKeeps, BreakKeeps, EndKeeps
<1> QED BY <1>2 DEF Kept, WorldTyped

LEMMA PickInv ==
    ASSUME FailoverInv, NEW r \in Requests, Pick(r)
    PROVE  FailoverInv'
<1> USE DEF FailoverInv, Pick, environment
<1>1. CASE Candidates(r) = {}
  BY <1>1, ReturnKeeps DEF Kept, WorldTyped
<1>2. ASSUME NEW a \in Candidates(r), acc' = [acc EXCEPT ![r] = a],
             attempt' = [attempt EXCEPT ![r] = @ + 1], Goto(r, "select"),
             UNCHANGED <<tried, started, budget, retry, images, compat, used, sent, givenUp>>
      PROVE  FailoverInv'
  <2>1. a \in Accounts \ tried[r]
    BY DEF Candidates, Authorized, WorldTyped
  <2>2. RequestsTyped'
    BY <1>2, <2>1, FailoverAssumption DEF RequestsTyped, Sound, Goto
  <2>3. ASSUME NEW q \in Requests PROVE Sound(q)'
    BY <1>2, <2>1, FailoverAssumption DEF RequestsTyped, Sound, Goto, Chosen, Trying
  <2> QED BY <1>2, <2>2, <2>3 DEF WorldTyped
<1> QED BY <1>1, <1>2

\* Operators, refreshes and time change accounts and permissions only.
LEMMA EnvironmentInv ==
    ASSUME FailoverInv, Environment
    PROVE  FailoverInv'
<1> USE DEF FailoverInv
<1>1. UNCHANGED request
  BY DEF Environment, Rebalance, SetEnabled, DeleteAccount, RegisterAuthUpload, Elsewhere,
         Thaw, Regrant
<1>2. RequestsTyped' /\ \A q \in Requests : Sound(q)'
  BY <1>1 DEF request, RequestsTyped, Sound
<1>3. ASSUME NEW a \in Accounts,
             \/ Rebalance(a) \/ SetEnabled(a) \/ DeleteAccount(a)
             \/ RegisterAuthUpload(a) \/ Elsewhere(a) \/ Thaw(a)
      PROVE  WorldTyped'
  <2>1. account[a] \in AccountRows
    BY DEF WorldTyped
  <2>2. events' \in 0..MaxEvents /\ (Event => events' + 1 \in 0..(MaxEvents + 1))
    BY <1>3, EventTyped
       DEF Rebalance, SetEnabled, DeleteAccount, RegisterAuthUpload, Elsewhere, Thaw,
           environment, WorldTyped
  <2>3. UNCHANGED <<grant, scope>>
    BY <1>3 DEF Rebalance, SetEnabled, DeleteAccount, RegisterAuthUpload, Elsewhere, Thaw,
                environment
  <2>4. account' \in [Accounts -> AccountRows]
    <3>1. CASE Rebalance(a)
      <4>1. [account[a] EXCEPT !.broke = ~@] \in AccountRows
        BY <2>1 DEF AccountRows
      <4> QED BY <3>1, <4>1, RowTyped DEF Rebalance
    <3>2. CASE SetEnabled(a)
      <4>1. [account[a] EXCEPT !.enabled = ~@] \in AccountRows
        BY <2>1 DEF AccountRows
      <4> QED BY <3>2, <4>1, RowTyped DEF SetEnabled
    <3>3. CASE DeleteAccount(a)
      <4>1. [account[a] EXCEPT !.generation = 0, !.blocked = FALSE] \in AccountRows
        <5>1. [account[a] EXCEPT !.generation = 0] \in AccountRows
          BY <2>1, FailoverAssumption DEF AccountRows
        <5> QED BY <5>1 DEF AccountRows
      <4> QED BY <3>3, <4>1 DEF DeleteAccount, WorldTyped
    <3>4. CASE RegisterAuthUpload(a)
      <4> DEFINE renewed == [account[a] EXCEPT !.generation = events + 2, !.invalid = FALSE]
                 again == [Fresh EXCEPT !.generation = events + 2,
                                        !.blocked = account[a].blocked]
      <4>1. events + 2 \in 0..(MaxEvents + 1)
        BY <2>2, <3>4 DEF RegisterAuthUpload, Event, WorldTyped
      <4>2. renewed \in AccountRows /\ again \in AccountRows
        <5>1. [account[a] EXCEPT !.generation = events + 2] \in AccountRows
          BY <2>1, <4>1 DEF AccountRows
        <5>2. [Fresh EXCEPT !.generation = events + 2] \in AccountRows
          <6>1. Fresh \in AccountRows
            BY FailoverAssumption DEF AccountRows, Fresh, Cooldown
          <6> QED BY <4>1, <6>1 DEF AccountRows
        <5>3. account[a].blocked \in BOOLEAN
          BY <2>1 DEF AccountRows
        <5> QED BY <5>1, <5>2, <5>3 DEF AccountRows
      <4>3. account' = [account EXCEPT ![a] = IF Member(a) THEN renewed ELSE again]
        BY <3>4 DEF RegisterAuthUpload
      <4> QED BY <4>2, <4>3, RowTyped
    <3>5. CASE Elsewhere(a)
      <4>1. [account[a] EXCEPT !.blocked = TRUE] \in AccountRows
        BY <2>1 DEF AccountRows
      <4>2. 2 \in Cooldown
        BY DEF Cooldown
      <4> QED BY <3>5, <4>1, <4>2, RowTyped, MarkTyped DEF Elsewhere
    <3>6. CASE Thaw(a)
      <4>1. account[a].cooldown > 0 => [account[a] EXCEPT !.cooldown = @ - 1] \in AccountRows
        BY <2>1 DEF AccountRows, Cooldown
      <4>2. [account[a] EXCEPT !.blocked = FALSE] \in AccountRows
        BY <2>1 DEF AccountRows
      <4> QED BY <3>6, <4>1, <4>2, RowTyped DEF Thaw
    <3> QED BY <1>3, <3>1, <3>2, <3>3, <3>4, <3>5, <3>6
  <2> QED BY <2>2, <2>3, <2>4 DEF WorldTyped
<1>4. ASSUME NEW r \in Requests, Regrant(r)
      PROVE  WorldTyped'
  BY <1>4, FailoverAssumption DEF Regrant, Event, WorldTyped
<1> QED BY <1>2, <1>3, <1>4 DEF Environment

-----------------------------------------------------------------------------
LEMMA InitInv == Init => FailoverInv
<1> SUFFICES ASSUME Init PROVE FailoverInv
  OBVIOUS
<1>1. WorldTyped
  BY FailoverAssumption DEF Init, WorldTyped, AccountRows, Fresh, Cooldown
<1>2. RequestsTyped
  BY FailoverAssumption DEF Init, RequestsTyped
<1>3. ASSUME NEW r \in Requests PROVE Sound(r)
  BY FailoverAssumption DEF Init, Sound, Chosen, Trying
<1> QED BY <1>1, <1>2, <1>3 DEF FailoverInv

LEMMA StepInv == FailoverInv /\ [Next]_vars => FailoverInv'
<1> SUFFICES ASSUME FailoverInv, [Next]_vars PROVE FailoverInv'
  OBVIOUS
<1>1. ASSUME NEW r \in Requests, Step(r) PROVE FailoverInv'
  BY <1>1, BeginInv, SelectInv, ConfirmInv, HeadersInv, HeadersLoginInv, DispatchInv,
     OutputInv, UnauthorizedInv, RenewInv, AnswerInv, PickInv DEF Step
<1>2. CASE UNCHANGED vars
  BY <1>2 DEF vars, request, FailoverInv, WorldTyped, RequestsTyped, Sound
<1> QED BY <1>1, <1>2, EnvironmentInv DEF Next, Finished

\* Every state of every behaviour is sound.
THEOREM InvariantHolds == Spec => []FailoverInv
BY InitInv, StepInv, PTL DEF Spec

\* The attempt loop of OpenUpstreamScoped keeps its types and its budget of
\* upstream requests, however repairs, renewals and rotation combine.
THEOREM BudgetHolds == Spec => []BudgetKept
<1>1. FailoverInv => BudgetKept
  <2> SUFFICES ASSUME FailoverInv PROVE BudgetKept
    OBVIOUS
  <2>1. TypeOK
    BY DEF FailoverInv, WorldTyped, RequestsTyped, TypeOK, AccountRows
  <2>2. WithinBudget
    BY FailoverAssumption DEF FailoverInv, RequestsTyped, Sound, WithinBudget
  <2> QED BY <2>1, <2>2 DEF BudgetKept
<1> QED BY <1>1, InvariantHolds, PTL

-----------------------------------------------------------------------------
\* Only Dispatch sends, on the account that was chosen and checked.
LEMMA OnlyDispatchSends ==
    ASSUME FailoverInv, [Next]_vars, NEW r \in Requests, sent'[r] > sent[r]
    PROVE  Dispatch(r) /\ ~Refused(r)
<1>1. ASSUME NEW q \in Requests, NEW kind, Reject(q, kind)
      PROVE  UNCHANGED sent
  BY <1>1 DEF Reject, RepairImages, RepairCompat, Repair, GiveUp, Return
<1>2. ASSUME NEW q \in Requests, (\E local : Break(q, local)) \/ End(q) \/ Return(q)
      PROVE  UNCHANGED sent
  BY <1>2 DEF Break, End, Return
<1>3. ASSUME NEW q \in Requests, Step(q), sent' # sent
      PROVE  Dispatch(q) /\ ~Refused(q) /\ sent' = [sent EXCEPT ![q] = @ + 1]
  BY <1>1, <1>2, <1>3
     DEF Step, Begin, Select, Confirm, Headers, HeadersLogin, Dispatch, Output,
         Unauthorized, Renew, Answer, Pick, request
<1>4. ASSUME Environment \/ UNCHANGED vars
      PROVE  UNCHANGED sent
  BY <1>4 DEF Environment, Rebalance, SetEnabled, DeleteAccount, RegisterAuthUpload,
              Elsewhere, Thaw, Regrant, request, vars
<1>5. sent[r] \in Nat /\ sent' # sent
  BY DEF FailoverInv, RequestsTyped
<1>6. PICK q \in Requests : Step(q)
  BY <1>4, <1>5 DEF Next, Finished
<1>7. q = r
  BY <1>3, <1>5, <1>6 DEF FailoverInv, RequestsTyped
<1> QED BY <1>3, <1>5, <1>6, <1>7

\* A dispatch, the first or a repeated one, never follows output, never goes
\* back to an account that was given up, and is authorised when it is made.
THEOREM DispatchesHold == Spec => DispatchesSafe
<1>1. ASSUME FailoverInv, [Next]_vars, NEW r \in Requests, sent'[r] > sent[r]
      PROVE  ~started[r] /\ acc[r] \notin givenUp[r] /\ (r \notin Unchecked =>
                 acc[r] \in grant[r])
  BY <1>1, OnlyDispatchSends DEF FailoverInv, Sound, Dispatch, Refused, Chosen
<1>2. FailoverInv /\ [Next]_vars =>
        [\A r \in Requests :
            sent'[r] > sent[r] => ~started[r] /\ acc[r] \notin givenUp[r]]_vars
  BY <1>1
<1>3. FailoverInv /\ [Next]_vars =>
        [\A r \in Requests \ Unchecked : sent'[r] > sent[r] => acc[r] \in grant[r]]_vars
  BY <1>1
<1> QED BY <1>2, <1>3, InvariantHolds, PTL DEF Spec, DispatchesSafe, NoRepeat,
           AuthorizedDispatch

-----------------------------------------------------------------------------
\* Credit rejections and balances, the part Balances of the channel.

\* The worker is a reader of its own; the bounds are numbers.
CreditBounds ==
    /\ Worker \notin Timers
    /\ {Soft, Long, Interval, Backlog, MaxClock, CreditEvents} \subseteq Nat

Pcs == {"idle", "gate", "wait", "enter", "query", "record", "apply", "ran", "joined"}
Founds == {"", "credit", "none", "failed", "read", "cut"}
Flying == {"enter", "query", "record", "apply"}
Reads == {"query", "record", "apply"}

-----------------------------------------------------------------------------
\* The inductive invariant.  That a recheck is answered by a reading which
\* began after its rejection rests on every reading of those credentials that
\* is still under way when the worker waits for the second time, or reads
\* itself: none of them may write back an older revision.

\* An account's cooldown covers those for other failures.
PoolInv ==
    /\ creditRevision <= creditEvents
    /\ \A a \in CreditAccounts :
        /\ manager[a] <= creditEvents + 1
        /\ cooldown[a] >= other[a] /\ other[a] = due[a]

\* While its credentials are in place, an account has seen the rejection that
\* a job is about.
Abreast(q) ==
    q # Balances!NoJob =>
    /\ q.manager <= creditEvents + 1
    /\ manager[q.account] = q.manager => revision[q.account] >= q.revision

JobsInv ==
    /\ \A i \in DOMAIN pending : Abreast(pending[i]) /\ pending[i].requested <= clock
    /\ \A c \in Calls : Abreast(call[c])
    /\ Abreast(job)

\* What was asked for last is in `recent`, for the newest credentials.
Recorded(q) ==
    LET r == recent[q.account] IN
    \/ r.manager > q.manager
    \/ r.manager = q.manager /\ r.requested >= q.requested

RecentInv ==
    \A a \in CreditAccounts :
        /\ recent[a].requested <= clock
        /\ recent[a].manager <= creditEvents + 1
        /\ manager[a] # 0 => recent[a].manager <= manager[a]

QueueInv ==
    /\ closed # "no" => pending = <<>>
    /\ Balances!NoLostJob
    /\ Balances!OneLiveJob
    /\ \A i \in DOMAIN pending : Recorded(pending[i])
    /\ RecentInv

\* A reading owns the flight of its account, and one that a rejection overtook
\* has an older revision than its account.
ReaderFits(p) ==
    LET d == reader[p]
        a == d.account IN
    /\ d.pc = "idle" => d = Balances!NoReading
    /\ d.pc # "idle" => a \in CreditAccounts /\ d.manager \in 1..(creditEvents + 1)
    /\ p \in Timers => d.floor = 0
    /\ d.pc \in Flying => reading[a].owner = p /\ reading[a].key = d.manager
    /\ d.revision <= creditRevision
    /\ p \in overtaken /\ d.pc \in Reads => revision[a] = 0 \/ revision[a] > d.revision
    /\ d.pc = "apply" => creditState[a] = [manager |-> d.manager, revision |-> d.revision]

ReadersInv == \A p \in Balances!Readers : ReaderFits(p)

WaitersInv ==
    \A a \in CreditAccounts : \A q \in reading[a].waiters :
        reader[q].pc = "wait" /\ reader[q].account = a

\* The worker reads for its job.
WorkerInv ==
    LET d == reader[Worker] IN
    /\ worker \in {"first", "second"} <=> job # Balances!NoJob
    /\ job = Balances!NoJob => d = Balances!NoReading
    /\ job # Balances!NoJob =>
        /\ d.pc # "idle" /\ d.account = job.account /\ d.manager = job.manager
        /\ d.floor = job.revision

\* The job is still about the account's credentials.
Current == job # Balances!NoJob /\ manager[job.account] = job.manager

\* No reading of them under way began before the job's rejection.
Past ==
    \A p \in Balances!Readers :
        /\ reader[p].account = job.account
        /\ reader[p].manager = job.manager
        /\ reader[p].pc \in Reads
        => reader[p].revision >= job.revision

\* The last reading of them began after it.
Answers ==
    /\ creditState[job.account].manager = job.manager
    /\ creditState[job.account].revision >= job.revision

\* The worker asks for the second time, reads itself, or has joined or ended a
\* reading.
Reached ==
    \/ worker = "second" \/ reader[Worker].pc \in Flying \cup {"joined"}
    \/ reader[Worker].pc = "ran" /\ reader[Worker].found # "cut"

\* The worker will not ask again.
Ended ==
    /\ reader[Worker].pc = "ran" \/ (reader[Worker].pc = "joined" /\ worker = "second")
    /\ reader[Worker].found # "cut"

PastInv == Current /\ Reached => Past
ReadingsInv == Current /\ Ended => Answers

CreditInv ==
    /\ Balances!TypeOK /\ PoolInv /\ JobsInv /\ QueueInv /\ ReadersInv /\ WaitersInv
    /\ WorkerInv /\ PastInv /\ ReadingsInv

-----------------------------------------------------------------------------
\* Shapes

LEMMA CreditShapes ==
    ASSUME CreditBounds, Balances!TypeOK
    PROVE  /\ clock \in Nat /\ creditEvents \in Nat /\ CreditEvents \in Nat /\ MaxClock \in Nat
           /\ Interval \in Nat /\ creditRevision \in Nat
           /\ creditEvents <= CreditEvents /\ clock <= MaxClock /\ creditRevision <= CreditEvents
           /\ \A a \in CreditAccounts :
                /\ manager[a] \in Nat /\ revision[a] \in Nat
                /\ cooldown[a] \in Nat /\ other[a] \in Nat /\ due[a] \in Nat
                /\ recent[a].manager \in Nat /\ recent[a].requested \in Nat
                /\ creditState[a].manager \in Nat /\ creditState[a].revision \in Nat
                /\ reading[a].key \in Nat /\ reading[a].waiters \subseteq Balances!Readers
           /\ \A p \in Balances!Readers : reader[p] \in Balances!ReaderStates
           /\ Worker \in Balances!Readers /\ Timers \subseteq Balances!Readers
<1> USE DEF CreditBounds
<1>1. /\ clock \in Nat /\ creditEvents \in Nat /\ CreditEvents \in Nat /\ MaxClock \in Nat
      /\ creditEvents <= CreditEvents /\ clock <= MaxClock
  BY DEF Balances!TypeOK
<1>2. creditRevision \in Nat /\ creditRevision <= CreditEvents BY DEF Balances!TypeOK,
                                                                  Balances!PoolType
<1>3. Interval \in Nat OBVIOUS
<1>4. ASSUME NEW a \in CreditAccounts
      PROVE  /\ manager[a] \in Nat /\ revision[a] \in Nat
             /\ cooldown[a] \in Nat /\ other[a] \in Nat /\ due[a] \in Nat
  BY <1>2 DEF Balances!TypeOK, Balances!PoolType
<1>5. ASSUME NEW a \in CreditAccounts
      PROVE  recent[a].manager \in Nat /\ recent[a].requested \in Nat
  BY DEF Balances!TypeOK, Balances!QueueType
<1>6. ASSUME NEW a \in CreditAccounts
      PROVE  /\ creditState[a].manager \in Nat /\ creditState[a].revision \in Nat
             /\ reading[a].key \in Nat /\ reading[a].waiters \subseteq Balances!Readers
  <2>1. creditState[a] \in [manager : 0..(CreditEvents + 1), revision : 0..CreditEvents]
    BY DEF Balances!TypeOK, Balances!ReadingType
  <2>2. reading[a] \in [key : 0..(CreditEvents + 1), owner : Balances!Readers,
            waiters : SUBSET Balances!Readers]
    BY DEF Balances!TypeOK, Balances!ReadingType
  <2>3. reading[a].key \in 0..(CreditEvents + 1) /\ reading[a].waiters \in SUBSET Balances!Readers
    BY <2>2
  <2> QED BY <1>1, <2>1, <2>3
<1>7. \A p \in Balances!Readers : reader[p] \in Balances!ReaderStates BY DEF Balances!TypeOK,
                                                                         Balances!ReadingType
<1>8. Worker \in Balances!Readers /\ Timers \subseteq Balances!Readers BY DEF Balances!Readers
<1> QED BY <1>1, <1>2, <1>3, <1>4, <1>5, <1>6, <1>7, <1>8

LEMMA GreaterBounds ==
    ASSUME NEW m \in Nat, NEW n \in Nat
    PROVE  Balances!Greater(m, n) \in Nat /\ Balances!Greater(m, n) >= m /\ Balances!Greater(m, n) >= n
BY DEF Balances!Greater

LEMMA JobFields ==
    ASSUME CreditBounds, NEW q \in Balances!Jobs, q # Balances!NoJob
    PROVE  /\ q.account \in CreditAccounts /\ q.manager \in Nat \ {0} /\ q.requested \in Nat
           /\ q.revision \in Nat \ {0} /\ q.manager <= CreditEvents + 1
           /\ q.revision <= CreditEvents /\ q.requested <= MaxClock
BY DEF CreditBounds, Balances!Jobs

\* What a reader's state is made of.
LEMMA ReaderFields ==
    ASSUME CreditBounds, NEW d \in Balances!ReaderStates
    PROVE  /\ d.manager \in Nat /\ d.manager <= CreditEvents + 1 /\ d.floor \in Nat
           /\ d.revision \in Nat /\ d.floor <= CreditEvents /\ d.revision <= CreditEvents
           /\ d.pc \in Pcs /\ d.account \in CreditAccounts \cup {NoAccount}
<1>1. CreditEvents \in Nat BY DEF CreditBounds
<1>2. d.pc \in Pcs /\ d.account \in CreditAccounts \cup {NoAccount}
  BY DEF Balances!ReaderStates, Pcs
<1>3. d.manager \in 0..(CreditEvents + 1) /\ d.floor \in 0..CreditEvents
  BY DEF Balances!ReaderStates
<1>4. d.revision \in 0..CreditEvents BY DEF Balances!ReaderStates
<1> QED BY <1>1, <1>2, <1>3, <1>4

\* One that moves on is otherwise the same.
LEMMA PcSet ==
    ASSUME NEW d \in Balances!ReaderStates, NEW s \in Pcs
    PROVE  /\ [d EXCEPT !.pc = s] \in Balances!ReaderStates
           /\ [d EXCEPT !.pc = s].pc = s
           /\ [d EXCEPT !.pc = s].account = d.account
           /\ [d EXCEPT !.pc = s].manager = d.manager
           /\ [d EXCEPT !.pc = s].floor = d.floor
           /\ [d EXCEPT !.pc = s].revision = d.revision
           /\ [d EXCEPT !.pc = s].found = d.found
BY DEF Balances!ReaderStates, Pcs

\* One that ends, and one that begins to read.
EndsWith(d, s, r) == [d EXCEPT !.pc = s, !.found = r]
ReadsFrom(d, s, n) == [d EXCEPT !.pc = s, !.revision = n]

LEMMA EndsWithFields ==
    ASSUME NEW d \in Balances!ReaderStates, NEW s \in Pcs, NEW r \in Founds
    PROVE  /\ EndsWith(d, s, r) \in Balances!ReaderStates
           /\ EndsWith(d, s, r).pc = s /\ EndsWith(d, s, r).found = r
           /\ EndsWith(d, s, r).account = d.account
           /\ EndsWith(d, s, r).manager = d.manager
           /\ EndsWith(d, s, r).floor = d.floor
           /\ EndsWith(d, s, r).revision = d.revision
BY DEF EndsWith, Balances!ReaderStates, Pcs, Founds

LEMMA ReadsFromFields ==
    ASSUME NEW d \in Balances!ReaderStates, NEW s \in Pcs, NEW n \in 0..CreditEvents
    PROVE  /\ ReadsFrom(d, s, n) \in Balances!ReaderStates
           /\ ReadsFrom(d, s, n).pc = s /\ ReadsFrom(d, s, n).revision = n
           /\ ReadsFrom(d, s, n).account = d.account
           /\ ReadsFrom(d, s, n).manager = d.manager
           /\ ReadsFrom(d, s, n).floor = d.floor
BY DEF ReadsFrom, Balances!ReaderStates, Pcs

-----------------------------------------------------------------------------
\* What stays

LEMMA PoolKept ==
    ASSUME CreditBounds, Balances!TypeOK, PoolInv, UNCHANGED <<manager, Balances!pool, due>>,
           creditEvents' \in Nat, creditEvents' >= creditEvents
    PROVE  Balances!PoolType' /\ PoolInv'
<1>1. Balances!PoolType' BY DEF Balances!TypeOK, Balances!PoolType, Balances!pool
<1>2. PoolInv'
  <2>1. creditRevision' <= creditEvents' BY CreditShapes DEF PoolInv, Balances!pool
  <2>2. ASSUME NEW a \in CreditAccounts
        PROVE  /\ manager'[a] <= creditEvents' + 1
               /\ cooldown'[a] >= other'[a] /\ other'[a] = due'[a]
    BY CreditShapes DEF PoolInv, Balances!pool
  <2> QED BY <2>1, <2>2 DEF PoolInv
<1> QED BY <1>1, <1>2

\* Jobs stay fresh while events pass, credentials are replaced by newer ones or
\* deleted, and rejections add up.
LEMMA FreshKept ==
    ASSUME CreditBounds, Balances!TypeOK, NEW q \in Balances!Jobs, Abreast(q),
               creditEvents' \in Nat, creditEvents' >= creditEvents,
           \A a \in CreditAccounts :
              \/ manager'[a] = 0 \/ manager'[a] > creditEvents + 1
              \/ manager'[a] = manager[a] /\ revision'[a] \in Nat /\ revision'[a] >= revision[a]
    PROVE  Abreast(q)'
<1> SUFFICES ASSUME q # Balances!NoJob
             PROVE  /\ q.manager <= creditEvents' + 1
                    /\ manager'[q.account] = q.manager => revision'[q.account] >= q.revision
  BY DEF Abreast
<1>1. q.account \in CreditAccounts /\ q.manager \in Nat \ {0} /\ q.revision \in Nat
  BY JobFields
<1>2. q.manager <= creditEvents + 1 BY DEF Abreast
<1>3. manager[q.account] = q.manager => revision[q.account] >= q.revision BY DEF Abreast
<1>4. revision[q.account] \in Nat /\ manager[q.account] \in Nat /\ creditEvents \in Nat
  BY <1>1, CreditShapes
<1> QED BY <1>1, <1>2, <1>3, <1>4

LEMMA JobsKept ==
    ASSUME CreditBounds, Balances!TypeOK, JobsInv, UNCHANGED <<pending, call, job>>,
           creditEvents' \in Nat, creditEvents' >= creditEvents, clock' \in Nat, clock' >= clock,
           \A a \in CreditAccounts :
              \/ manager'[a] = 0 \/ manager'[a] > creditEvents + 1
              \/ manager'[a] = manager[a] /\ revision'[a] \in Nat /\ revision'[a] >= revision[a]
    PROVE  JobsInv'
<1>1. \A q \in Balances!Jobs : Abreast(q) => Abreast(q)' BY FreshKept
<1>2. \A i \in DOMAIN pending : pending[i] \in Balances!Jobs /\ pending[i] # Balances!NoJob
  BY DEF Balances!TypeOK, Balances!QueueType
<1>3. \A c \in Calls : call[c] \in Balances!Jobs BY DEF Balances!TypeOK, Balances!QueueType
<1>4. job \in Balances!Jobs BY DEF Balances!TypeOK, Balances!QueueType
<1>5. ASSUME NEW i \in DOMAIN pending
      PROVE  Abreast(pending[i])' /\ pending'[i].requested <= clock'
  <2>1. pending[i].requested \in Nat BY <1>2, JobFields
  <2>2. pending[i].requested <= clock BY DEF JobsInv
  <2>3. Abreast(pending[i]) BY DEF JobsInv
  <2>4. Abreast(pending[i])' BY <1>1, <1>2, <2>3 DEF Abreast
  <2> QED BY <2>1, <2>2, <2>4, CreditShapes
<1>6. ASSUME NEW c \in Calls PROVE Abreast(call[c])'
  <2>1. Abreast(call[c]) BY DEF JobsInv
  <2> QED BY <1>1, <1>3, <2>1 DEF Abreast
<1>7. Abreast(job)'
  <2>1. Abreast(job) BY DEF JobsInv
  <2> QED BY <1>1, <1>4, <2>1 DEF Abreast
<1> QED BY <1>5, <1>6, <1>7 DEF JobsInv

LEMMA QueueKept ==
    ASSUME CreditBounds, Balances!TypeOK, QueueInv, UNCHANGED <<pending, recent, closed>>,
           worker' = "off" => worker = "off" \/ pending = <<>>,
           creditEvents' \in Nat, creditEvents' >= creditEvents, clock' \in Nat, clock' >= clock,
           \A a \in CreditAccounts :
              manager'[a] = 0 \/ manager'[a] > creditEvents + 1 \/ manager'[a] = manager[a],
           \A a \in CreditAccounts : manager'[a] \in Nat
    PROVE  QueueInv'
<1>1. /\ closed' # "no" => pending' = <<>>
      /\ Balances!NoLostJob'
      /\ \A i \in DOMAIN pending' : Recorded(pending[i])'
  BY DEF QueueInv, Balances!NoLostJob, Recorded
<1>2. Balances!OneLiveJob'
  <2>1. ASSUME NEW i \in DOMAIN pending PROVE pending[i].requested \in Nat
    BY JobFields DEF Balances!TypeOK, Balances!QueueType
  <2>2. Balances!OneLiveJob BY DEF QueueInv
  <2>3. clock \in Nat /\ Interval \in Nat BY CreditShapes
  <2> QED BY <2>1, <2>2, <2>3 DEF Balances!OneLiveJob
<1>3. RecentInv'
  <2> SUFFICES ASSUME NEW a \in CreditAccounts
               PROVE  /\ recent[a].requested <= clock'
                      /\ recent[a].manager <= creditEvents' + 1
                      /\ manager'[a] # 0 => recent[a].manager <= manager'[a]
    BY DEF RecentInv
  <2>1. /\ recent[a].requested <= clock
        /\ recent[a].manager <= creditEvents + 1
        /\ manager[a] # 0 => recent[a].manager <= manager[a]
    BY DEF QueueInv, RecentInv
  <2>2. /\ clock \in Nat /\ creditEvents \in Nat /\ manager[a] \in Nat
        /\ recent[a].requested \in Nat /\ recent[a].manager \in Nat
    BY CreditShapes
  <2> QED BY <2>1, <2>2
<1> QED BY <1>1, <1>2, <1>3 DEF QueueInv

\* A reader that a step leaves alone still fits.
LEMMA ReaderKept ==
    ASSUME CreditBounds, Balances!TypeOK, NEW q \in Balances!Readers, ReaderFits(q),
               reader'[q] = reader[q],
           creditEvents' \in Nat, creditEvents' >= creditEvents,
           creditRevision' \in Nat, creditRevision' >= creditRevision,
           reader[q].pc \in Flying =>
              /\ reading'[reader[q].account].owner = reading[reader[q].account].owner
              /\ reading'[reader[q].account].key = reading[reader[q].account].key
              /\ creditState'[reader[q].account] = creditState[reader[q].account],
           q \in overtaken' /\ reader[q].pc \in Reads =>
              \/ revision'[reader[q].account] = 0
              \/ revision'[reader[q].account] > reader[q].revision
    PROVE  ReaderFits(q)'
<1> DEFINE d == reader[q]
           a == d.account
<1>1. d \in Balances!ReaderStates BY CreditShapes
<1>2. d.manager \in Nat /\ d.revision \in Nat /\ creditEvents \in Nat /\ creditRevision \in Nat
  BY <1>1, ReaderFields, CreditShapes
<1>3. /\ d.pc = "idle" => d = Balances!NoReading
      /\ d.pc # "idle" => a \in CreditAccounts /\ d.manager \in 1..(creditEvents + 1)
      /\ q \in Timers => d.floor = 0
      /\ d.pc \in Flying => reading[a].owner = q /\ reading[a].key = d.manager
      /\ d.revision <= creditRevision
      /\ d.pc = "apply" => creditState[a] = [manager |-> d.manager, revision |-> d.revision]
  BY DEF ReaderFits
<1>4. d.pc # "idle" => d.manager \in 1..(creditEvents' + 1) BY <1>2, <1>3
<1>5. d.revision <= creditRevision' BY <1>2, <1>3
<1>6. d.pc = "apply" => d.pc \in Flying BY DEF Flying
<1>7. reader'[q] = d OBVIOUS
<1> QED BY <1>3, <1>4, <1>5, <1>6, <1>7 DEF ReaderFits

\* A flight has one owner.
LEMMA OneOwner ==
    ASSUME ReadersInv, NEW p \in Balances!Readers, NEW q \in Balances!Readers,
           reader[p].pc \in Flying, reader[q].pc \in Flying,
           reader[p].account = reader[q].account
    PROVE  p = q
BY DEF ReadersInv, ReaderFits

\* A step of one reader that neither starts nor ends a flight.
LEMMA OthersKept ==
    ASSUME CreditBounds, Balances!TypeOK, ReadersInv, WaitersInv, NEW p \in Balances!Readers,
           reader[p].pc # "wait", ReaderFits(p)',
           \A q \in Balances!Readers \ {p} : reader'[q] = reader[q],
           UNCHANGED <<reading, revision, creditRevision>>,
           creditEvents' \in Nat, creditEvents' >= creditEvents, overtaken' \subseteq overtaken,
           \/ creditState' = creditState
           \/ /\ reader[p].pc \in Flying
              /\ \A b \in CreditAccounts \ {reader[p].account} : creditState'[b] = creditState[b]
    PROVE  ReadersInv' /\ WaitersInv'
<1>1. ASSUME NEW q \in Balances!Readers, q # p PROVE ReaderFits(q)'
  <2>1. ReaderFits(q) /\ reader'[q] = reader[q] BY <1>1 DEF ReadersInv
  <2>2. reader[q].pc \in Flying =>
            creditState'[reader[q].account] = creditState[reader[q].account]
    <3>1. reader[q].pc \in Flying => reader[q].account \in CreditAccounts
      BY <2>1 DEF ReaderFits, Flying
    <3>2. reader[q].pc \in Flying /\ reader[p].pc \in Flying =>
              reader[q].account # reader[p].account
      BY <1>1, OneOwner
    <3> QED BY <3>1, <3>2
  <2>3. q \in overtaken' /\ reader[q].pc \in Reads =>
              \/ revision[reader[q].account] = 0
              \/ revision[reader[q].account] > reader[q].revision
    BY <2>1 DEF ReaderFits
  <2>4. creditRevision \in Nat BY CreditShapes
  <2> QED BY <2>1, <2>2, <2>3, <2>4, ReaderKept
<1>2. WaitersInv'
  <2> SUFFICES ASSUME NEW a \in CreditAccounts, NEW q \in reading[a].waiters
               PROVE  reader'[q].pc = "wait" /\ reader'[q].account = a
    BY DEF WaitersInv
  <2>1. reader[q].pc = "wait" /\ reader[q].account = a BY DEF WaitersInv
  <2>2. q \in Balances!Readers BY CreditShapes
  <2> QED BY <2>1, <2>2
<1> QED BY <1>1, <1>2 DEF ReadersInv

\* A step of none.
LEMMA ReadingsKept ==
    ASSUME CreditBounds, Balances!TypeOK, ReadersInv, WaitersInv,
           UNCHANGED <<reader, reading, creditState, revision, creditRevision, overtaken>>,
           creditEvents' \in Nat, creditEvents' >= creditEvents
    PROVE  ReadersInv' /\ WaitersInv'
<1>1. ASSUME NEW q \in Balances!Readers PROVE ReaderFits(q)'
  <2>1. ReaderFits(q) BY DEF ReadersInv
  <2>2. q \in overtaken /\ reader[q].pc \in Reads =>
              \/ revision[reader[q].account] = 0
              \/ revision[reader[q].account] > reader[q].revision
    BY <2>1 DEF ReaderFits
  <2>3. creditRevision \in Nat BY CreditShapes
  <2> QED BY <2>1, <2>2, <2>3, ReaderKept
<1>2. WaitersInv' BY DEF WaitersInv
<1> QED BY <1>1, <1>2 DEF ReadersInv

LEMMA WorkerKept ==
    ASSUME WorkerInv, PastInv, ReadingsInv, UNCHANGED <<job, reader, creditState>>,
           worker' = worker \/ {worker, worker'} \subseteq {"off", "loop"},
           job # Balances!NoJob =>
              manager'[job.account] \in {manager[job.account]}
              \/ manager'[job.account] # job.manager
    PROVE  WorkerInv' /\ PastInv' /\ ReadingsInv'
<1>1. WorkerInv' BY DEF WorkerInv
<1>2. Current' => Current BY DEF Current
<1>3. Reached' /\ Current => Reached
  BY DEF Reached, Current, WorkerInv
<1>4. Ended' /\ Current => Ended BY DEF Ended, Current, WorkerInv
<1>5. PastInv' BY <1>2, <1>3 DEF PastInv, Past
<1>6. ReadingsInv' BY <1>2, <1>4 DEF ReadingsInv, Answers
<1> QED BY <1>1, <1>5, <1>6

\* What a step leaves alone keeps its type.
LEMMA QueueTypeKept ==
    ASSUME Balances!QueueType, UNCHANGED <<Balances!queue, call>>
    PROVE  Balances!QueueType'
BY DEF Balances!QueueType, Balances!queue

LEMMA ReadingTypeKept ==
    ASSUME Balances!ReadingType, UNCHANGED Balances!readings,
               overtaken' \subseteq Balances!Readers
    PROVE  Balances!ReadingType'
BY DEF Balances!ReadingType, Balances!readings

LEMMA EventCounts ==
    ASSUME CreditBounds, Balances!TypeOK, Balances!Event
    PROVE  /\ creditEvents' \in 0..CreditEvents /\ creditEvents' \in Nat /\
                  creditEvents' = creditEvents + 1
           /\ creditEvents' >= creditEvents /\ creditEvents + 1 <= CreditEvents
BY CreditShapes DEF Balances!Event

-----------------------------------------------------------------------------
\* Failures of calls, and what operators do

LEMMA OnFailureKeeps ==
    ASSUME CreditBounds, CreditInv, NEW a \in CreditAccounts, Balances!OnFailure(a)
    PROVE  CreditInv'
<1> USE DEF CreditInv
<1>1. /\ creditEvents' \in 0..CreditEvents /\ creditEvents' \in Nat /\
             creditEvents' >= creditEvents
  BY EventCounts DEF Balances!OnFailure
<1>2. /\ UNCHANGED <<clock, manager, revision, creditRevision, Balances!queue, call,
             Balances!readings, overtaken>>
      /\ UNCHANGED <<pending, recent, closed, worker, job>>
      /\ UNCHANGED <<reader, reading, creditState, creditGuard, lock>>
  BY DEF Balances!OnFailure, Balances!queue, Balances!readings
<1> DEFINE m == clock + Soft
<1>3. clock \in Nat /\ m \in Nat BY CreditShapes DEF CreditBounds
<1>4. /\ cooldown' = [cooldown EXCEPT ![a] = Balances!Greater(@, m)]
      /\ other' = [other EXCEPT ![a] = Balances!Greater(@, m)]
      /\ due' = [due EXCEPT ![a] = Balances!Greater(@, m)]
  BY DEF Balances!OnFailure
<1> HIDE DEF m
<1>5. \A b \in CreditAccounts : /\ cooldown[b] \in Nat /\ other[b] \in Nat /\ due[b] \in Nat
                                /\ cooldown[b] >= other[b] /\ other[b] = due[b]
  BY CreditShapes DEF PoolInv
<1>6. Balances!PoolType'
  <2>1. /\ Balances!Greater(cooldown[a], m) \in Nat /\ Balances!Greater(other[a], m) \in Nat
        /\ Balances!Greater(due[a], m) \in Nat
    BY <1>3, <1>5, GreaterBounds
  <2> QED BY <1>2, <1>4, <2>1 DEF Balances!TypeOK, Balances!PoolType
<1>7. PoolInv'
  <2>1. Balances!Greater(cooldown[a], m) >= Balances!Greater(other[a], m) /\ Balances!Greater(other[a], m) = Balances!Greater(due[a], m)
    BY <1>3, <1>5 DEF Balances!Greater
  <2>2. \A b \in CreditAccounts : cooldown'[b] >= other'[b] /\ other'[b] = due'[b]
    BY <1>4, <1>5, <2>1 DEF Balances!TypeOK, Balances!PoolType
  <2>3. \A b \in CreditAccounts : manager[b] <= creditEvents' + 1
    <3>1. \A b \in CreditAccounts : manager[b] \in Nat /\ manager[b] <= creditEvents + 1
      BY CreditShapes DEF PoolInv
    <3> QED BY <1>1, <3>1, CreditShapes
  <2>4. creditRevision <= creditEvents' BY <1>1, CreditShapes DEF PoolInv
  <2> QED BY <1>2, <2>2, <2>3, <2>4 DEF PoolInv
<1>8. Balances!TypeOK'
  BY <1>1, <1>2, <1>6, QueueTypeKept, ReadingTypeKept DEF Balances!TypeOK, Balances!ReadingType
<1>9. JobsInv'
  <2>1. \A b \in CreditAccounts : revision[b] \in Nat BY CreditShapes
  <2> QED BY <1>1, <1>2, <1>3, <2>1, JobsKept
<1>10. QueueInv'
  <2>1. \A b \in CreditAccounts : manager[b] \in Nat BY CreditShapes
  <2> QED BY <1>1, <1>2, <1>3, <2>1, QueueKept
<1>11. ReadersInv' /\ WaitersInv' BY <1>1, <1>2, ReadingsKept
<1>12. WorkerInv' /\ PastInv' /\ ReadingsInv' BY <1>2, WorkerKept
<1> QED BY <1>7, <1>8, <1>9, <1>10, <1>11, <1>12

LEMMA ExhaustedKeeps ==
    ASSUME CreditBounds, CreditInv, NEW a \in CreditAccounts, NEW c \in Calls,
               Balances!Exhausted(c, a)
    PROVE  CreditInv'
<1> USE DEF CreditInv
<1>1. /\ creditEvents' \in 0..CreditEvents /\ creditEvents' \in Nat /\
             creditEvents' >= creditEvents
      /\ creditEvents' = creditEvents + 1 /\ creditEvents + 1 <= CreditEvents
  BY EventCounts DEF Balances!Exhausted
<1>2. /\ UNCHANGED <<clock, manager, other, Balances!queue, Balances!readings, due>>
      /\ UNCHANGED <<pending, recent, closed, worker, job>>
      /\ UNCHANGED <<reader, reading, creditState, creditGuard, lock>>
  BY DEF Balances!Exhausted, Balances!queue, Balances!readings
<1> DEFINE m == clock + Long
           n == creditRevision + 1
           q == [account |-> a, manager |-> manager[a], requested |-> 0, revision |-> n]
<1>3. /\ clock \in Nat /\ m \in Nat /\ creditRevision \in Nat /\ n \in Nat /\ creditEvents \in Nat
      /\ creditRevision <= creditEvents /\ n \in 1..CreditEvents /\ CreditEvents \in Nat
  BY <1>1, CreditShapes DEF CreditBounds, PoolInv
<1>4. /\ creditRevision' = n
      /\ cooldown' = [cooldown EXCEPT ![a] = Balances!Greater(@, m)]
      /\ revision' = [revision EXCEPT ![a] = n]
      /\ call' = call \/ call' = [call EXCEPT ![c] = q]
      /\ overtaken' = overtaken \cup {p \in Balances!Readers : reader[p].account = a}
      /\ manager[a] # 0
  BY DEF Balances!Exhausted
<1>5. \A b \in CreditAccounts : /\ revision[b] \in 0..creditRevision /\ revision[b] \in Nat
                                /\ revision'[b] \in 0..n /\ revision'[b] \in Nat
                                /\ revision'[b] >= revision[b]
  BY <1>3, <1>4 DEF Balances!TypeOK, Balances!PoolType
<1>6. revision' \in [CreditAccounts -> 0..creditRevision']
  BY <1>3, <1>4, <1>5 DEF Balances!TypeOK, Balances!PoolType
<1>7. revision'[a] = n BY <1>4 DEF Balances!TypeOK, Balances!PoolType
<1>8. q \in Balances!Jobs /\ q # Balances!NoJob
  <2>1. manager[a] \in 1..(CreditEvents + 1) BY <1>3, <1>4 DEF Balances!TypeOK,
                                                Balances!PoolType
  <2>2. 0 \in 0..MaxClock BY DEF CreditBounds
  <2>3. q.manager # Balances!NoJob.manager BY <1>4 DEF Balances!NoJob
  <2> QED BY <1>3, <2>1, <2>2, <2>3 DEF Balances!Jobs
<1>9. q.account = a /\ q.manager = manager[a] /\ q.revision = n OBVIOUS
<1> HIDE DEF m, n, q
<1>10. Balances!PoolType' /\ PoolInv'
  <2>1. \A b \in CreditAccounts : /\ cooldown[b] \in Nat /\ other[b] \in Nat
                                  /\ cooldown[b] >= other[b] /\ other[b] = due[b]
    BY CreditShapes DEF PoolInv
  <2>2. Balances!Greater(cooldown[a], m) \in Nat /\ Balances!Greater(cooldown[a], m) >= cooldown[a]
    BY <1>3, <2>1, GreaterBounds
  <2>3. \A b \in CreditAccounts : cooldown'[b] \in Nat /\ cooldown'[b] >= other[b]
    BY <1>4, <2>1, <2>2 DEF Balances!TypeOK, Balances!PoolType
  <2>4. cooldown' \in [CreditAccounts -> Nat] BY <1>4, <2>2 DEF Balances!TypeOK,
                                                 Balances!PoolType
  <2>5. Balances!PoolType'
    <3>1. creditRevision' \in 0..CreditEvents BY <1>3, <1>4
    <3> QED BY <1>2, <1>6, <2>4, <3>1 DEF Balances!TypeOK, Balances!PoolType
  <2>6. n <= creditEvents' BY <1>1, <1>3 DEF n
  <2>7. \A b \in CreditAccounts : manager[b] \in Nat /\ manager[b] <= creditEvents + 1
    BY CreditShapes DEF PoolInv
  <2>8. \A b \in CreditAccounts : manager[b] <= creditEvents' + 1 BY <1>1, <1>3, <2>7
  <2> QED BY <1>2, <1>4, <2>1, <2>3, <2>5, <2>6, <2>8 DEF PoolInv
<1>11. call' \in [Calls -> Balances!Jobs] BY <1>4, <1>8 DEF Balances!TypeOK, Balances!QueueType
<1>12. overtaken' \subseteq Balances!Readers BY <1>4 DEF Balances!TypeOK, Balances!ReadingType
<1>13. Balances!TypeOK'
  <2>1. Balances!QueueType' BY <1>2, <1>11 DEF Balances!TypeOK, Balances!QueueType
  <2> QED BY <1>1, <1>2, <1>10, <1>12, <2>1, ReadingTypeKept DEF Balances!TypeOK
<1>14. \A j \in Balances!Jobs : Abreast(j) => Abreast(j)' BY <1>1, <1>2, <1>5, FreshKept
<1>15. JobsInv'
  <2>1. \A i \in DOMAIN pending : pending[i] \in Balances!Jobs BY DEF Balances!TypeOK,
                                                                  Balances!QueueType
  <2>2. job \in Balances!Jobs /\ \A e \in Calls : call[e] \in Balances!Jobs
    BY DEF Balances!TypeOK, Balances!QueueType
  <2>3. \A i \in DOMAIN pending : Abreast(pending[i])' /\ pending[i].requested <= clock
    BY <1>2, <1>14, <2>1 DEF JobsInv, Abreast
  <2>4. Abreast(job)' BY <1>2, <1>14, <2>2 DEF JobsInv, Abreast
  <2>5. ASSUME NEW j \in Balances!Jobs, j = q PROVE Abreast(j)'
    <3>1. manager[a] <= creditEvents + 1 /\ manager[a] \in Nat BY CreditShapes DEF PoolInv
    <3>2. manager[a] <= creditEvents' + 1 BY <1>1, <1>3, <3>1
    <3>3. j.manager <= creditEvents' + 1 /\ revision'[j.account] >= j.revision
      BY <1>3, <1>7, <1>9, <2>5, <3>2
    <3> QED BY <3>3 DEF Abreast
  <2>6. ASSUME NEW e \in Calls PROVE Abreast(call[e])'
    <3>1. CASE call'[e] = call[e]
      <4>1. Abreast(call[e]) BY DEF JobsInv
      <4> QED BY <1>14, <2>2, <3>1, <4>1 DEF Abreast
    <3>2. CASE call'[e] # call[e]
      <4>1. call'[e] = q BY <1>4, <3>2 DEF Balances!TypeOK, Balances!QueueType
      <4> QED BY <1>8, <2>5, <4>1 DEF Abreast
    <3> QED BY <3>1, <3>2
  <2> QED BY <1>2, <2>3, <2>4, <2>6 DEF JobsInv
<1>16. QueueInv'
  <2>1. \A b \in CreditAccounts : manager[b] \in Nat BY CreditShapes
  <2> QED BY <1>1, <1>2, <1>3, <2>1, QueueKept
<1>17. ReadersInv'
  <2> SUFFICES ASSUME NEW p \in Balances!Readers PROVE ReaderFits(p)'
    BY DEF ReadersInv
  <2> DEFINE d == reader[p]
  <2>1. ReaderFits(p) BY DEF ReadersInv
  <2>2. d.revision <= creditRevision /\ d.revision \in Nat
    BY <2>1, CreditShapes, ReaderFields DEF ReaderFits
  <2>3. d.pc \in Reads => d.account \in CreditAccounts BY <2>1 DEF ReaderFits, Reads
  <2>4. ASSUME p \in overtaken', d.pc \in Reads
        PROVE  revision'[d.account] = 0 \/ revision'[d.account] > d.revision
    <3>1. CASE d.account = a
      <4>1. n > creditRevision BY <1>3 DEF n
      <4> QED BY <1>3, <1>7, <2>2, <3>1, <4>1
    <3>2. CASE d.account # a
      <4>1. p \in overtaken BY <1>4, <2>4, <3>2
      <4>2. revision'[d.account] = revision[d.account]
        BY <1>4, <2>3, <2>4, <3>2 DEF Balances!TypeOK, Balances!PoolType
      <4> QED BY <2>1, <2>4, <4>1, <4>2 DEF ReaderFits
    <3> QED BY <3>1, <3>2
  <2>5. creditRevision' \in Nat /\ creditRevision' >= creditRevision
    BY <1>3, <1>4 DEF n
  <2> QED BY <1>1, <1>2, <2>1, <2>4, <2>5, ReaderKept
<1>18. WaitersInv' BY <1>2 DEF WaitersInv
<1>19. WorkerInv' /\ PastInv' /\ ReadingsInv' BY <1>2, WorkerKept
<1> QED BY <1>10, <1>13, <1>15, <1>16, <1>17, <1>18, <1>19

-----------------------------------------------------------------------------
\* The queue and its worker

LEMMA RequestedSet ==
    ASSUME CreditBounds, NEW j \in Balances!Jobs, j # Balances!NoJob, NEW n \in 0..MaxClock
    PROVE  /\ [j EXCEPT !.requested = n] \in Balances!Jobs /\
                  [j EXCEPT !.requested = n] # Balances!NoJob
           /\ [j EXCEPT !.requested = n].account = j.account
           /\ [j EXCEPT !.requested = n].manager = j.manager
           /\ [j EXCEPT !.requested = n].revision = j.revision
           /\ [j EXCEPT !.requested = n].requested = n
<1>1. j \in [account : CreditAccounts, manager : 1..(CreditEvents + 1),
             requested : 0..MaxClock, revision : 1..CreditEvents]
  BY DEF Balances!Jobs
<1>2. /\ [j EXCEPT !.requested = n].account = j.account
      /\ [j EXCEPT !.requested = n].manager = j.manager
      /\ [j EXCEPT !.requested = n].revision = j.revision
      /\ [j EXCEPT !.requested = n].requested = n
  BY <1>1
<1>3. [j EXCEPT !.requested = n] \in Balances!Jobs BY <1>1 DEF Balances!Jobs
<1>4. [j EXCEPT !.requested = n] # Balances!NoJob
  <2>1. j.manager # 0 BY JobFields
  <2> QED BY <1>2, <2>1 DEF Balances!NoJob
<1> QED BY <1>2, <1>3, <1>4

LEMMA QueueRecheckKeeps ==
    ASSUME CreditBounds, CreditInv, NEW c \in Calls, Balances!QueueRecheck(c)
    PROVE  CreditInv'
<1> USE DEF CreditInv
<1>1. /\ UNCHANGED <<clock, creditEvents, manager, Balances!pool, Balances!readings, overtaken,
             due>>
      /\ UNCHANGED <<cooldown, other, revision, creditRevision>>
      /\ UNCHANGED <<reader, reading, creditState, creditGuard, lock>>
      /\ UNCHANGED <<closed, job>>
      /\ call[c] # Balances!NoJob /\ call' = [call EXCEPT ![c] = Balances!NoJob]
  BY DEF Balances!QueueRecheck, Balances!pool, Balances!readings, Balances!queue
<1>2. PICK q : q = [call[c] EXCEPT !.requested = clock] OBVIOUS
<1>3. call[c] \in Balances!Jobs /\ \A e \in Calls : call[e] \in Balances!Jobs
  BY DEF Balances!TypeOK, Balances!QueueType
<1>4. clock \in 0..MaxClock /\ clock \in Nat BY CreditShapes DEF Balances!TypeOK
<1>5. /\ q \in Balances!Jobs /\ q # Balances!NoJob /\ q.account = call[c].account
      /\ q.manager = call[c].manager /\ q.revision = call[c].revision
      /\ q.requested = clock
  BY <1>1, <1>2, <1>3, <1>4, RequestedSet
<1>6. IF Balances!Admits(q)
      THEN /\ pending' = Append(pending, q)
           /\ recent' = [recent EXCEPT ![q.account] =
                            [manager |-> q.manager, requested |-> clock]]
           /\ worker' = IF worker = "off" THEN "loop" ELSE worker
      ELSE UNCHANGED <<pending, recent, worker>>
  BY <1>2 DEF Balances!QueueRecheck, Balances!queue
<1>7. Balances!PoolType' /\ PoolInv' BY <1>1, CreditShapes, PoolKept
<1>8. Abreast(q)
  <2>1. Abreast(call[c]) BY DEF JobsInv
  <2> QED BY <1>1, <1>5, <2>1 DEF Abreast
<1>9. \A j : Abreast(j) => Abreast(j)' BY <1>1 DEF Abreast
<1>10. Abreast(job)' BY <1>1, <1>9 DEF JobsInv, Abreast
<1>11. call' \in [Calls -> Balances!Jobs] /\ \A e \in Calls : Abreast(call[e])'
  <2>1. Balances!NoJob \in Balances!Jobs BY DEF Balances!Jobs
  <2>2. call' \in [Calls -> Balances!Jobs] BY <1>1, <2>1 DEF Balances!TypeOK, Balances!QueueType
  <2>3. ASSUME NEW e \in Calls PROVE Abreast(call[e])'
    <3>1. CASE e = c
      <4>1. call'[e] = Balances!NoJob BY <1>1, <3>1 DEF Balances!TypeOK, Balances!QueueType
      <4> QED BY <4>1 DEF Abreast
    <3>2. CASE e # c
      <4>1. call'[e] = call[e] BY <1>1, <3>2 DEF Balances!TypeOK, Balances!QueueType
      <4>2. Abreast(call[e]) BY DEF JobsInv
      <4> QED BY <1>9, <4>1, <4>2 DEF Abreast
    <3> QED BY <3>1, <3>2
  <2> QED BY <2>2, <2>3
<1>12. ReadersInv' /\ WaitersInv' BY <1>1, CreditShapes, ReadingsKept
<1>13. worker' = worker \/ {worker, worker'} \subseteq {"off", "loop"} BY <1>6
<1>14. WorkerInv' /\ PastInv' /\ ReadingsInv' BY <1>1, <1>13, WorkerKept
<1>15. worker' \in {"off", "loop", "first", "second"} BY <1>6 DEF Balances!TypeOK,
                                                         Balances!QueueType
<1>16. CASE ~Balances!Admits(q)
  <2>1. UNCHANGED <<pending, recent, worker>> BY <1>6, <1>16
  <2>2. Balances!TypeOK'
    <3>1. Balances!QueueType' BY <1>1, <1>11, <2>1 DEF Balances!TypeOK, Balances!QueueType
    <3> QED BY <1>1, <1>7, <3>1, ReadingTypeKept DEF Balances!TypeOK, Balances!ReadingType
  <2>3. JobsInv' BY <1>1, <1>9, <1>10, <1>11, <2>1 DEF JobsInv, Abreast
  <2>4. QueueInv'
    <3>1. \A b \in CreditAccounts : manager[b] \in Nat BY CreditShapes
    <3>2. creditEvents \in Nat /\ creditEvents >= creditEvents /\ clock >= clock BY CreditShapes
    <3> QED BY <1>1, <1>4, <2>1, <3>1, <3>2, QueueKept
  <2> QED BY <1>7, <1>12, <1>14, <2>2, <2>3, <2>4
<1>17. CASE Balances!Admits(q)
  <2>1. /\ pending' = Append(pending, q)
        /\ recent' = [recent EXCEPT ![q.account] =
                         [manager |-> q.manager, requested |-> clock]]
        /\ worker' = IF worker = "off" THEN "loop" ELSE worker
    BY <1>6, <1>17
  <2>2. /\ closed = "no" /\ Len(pending) < Backlog /\ manager[q.account] = q.manager
        /\ \/ recent[q.account].manager # q.manager
           \/ clock - recent[q.account].requested >= Interval
    BY <1>17 DEF Balances!Admits
  <2>3. pending \in Seq(Balances!Jobs \ {Balances!NoJob}) /\ Len(pending) \in Nat /\ Backlog \in Nat
    BY DEF Balances!TypeOK, Balances!QueueType, CreditBounds
  <2>4. /\ pending' \in Seq(Balances!Jobs \ {Balances!NoJob}) /\ Len(pending') = Len(pending) + 1
        /\ DOMAIN pending' = 1..(Len(pending) + 1)
        /\ \A i \in 1..Len(pending) : pending'[i] = pending[i]
        /\ pending'[Len(pending) + 1] = q
        /\ DOMAIN pending = 1..Len(pending)
    BY <1>5, <2>1, <2>3
  <2>5. /\ q.account \in CreditAccounts /\ q.manager \in 0..(CreditEvents + 1)
        /\ q.manager \in Nat \ {0}
    BY <1>5, JobFields DEF CreditBounds
  <2>6. /\ recent' \in [CreditAccounts -> [manager : 0..(CreditEvents + 1),
               requested : 0..MaxClock]]
        /\ recent'[q.account].manager = q.manager /\ recent'[q.account].requested = clock
        /\ \A a \in CreditAccounts \ {q.account} : recent'[a] = recent[a]
    BY <1>4, <2>1, <2>5 DEF Balances!TypeOK, Balances!QueueType
  <2>7. Balances!TypeOK'
    <3>1. Len(pending') <= Backlog BY <2>2, <2>3, <2>4
    <3>2. Balances!QueueType' BY <1>1, <1>11, <1>15, <2>4, <2>6, <3>1 DEF Balances!TypeOK,
                                 Balances!QueueType
    <3> QED BY <1>1, <1>7, <3>2, ReadingTypeKept DEF Balances!TypeOK, Balances!ReadingType
  <2>8. JobsInv'
    <3>1. ASSUME NEW i \in DOMAIN pending'
          PROVE  Abreast(pending[i])' /\ pending'[i].requested <= clock'
      <4>1. CASE i = Len(pending) + 1
        <5>1. clock <= clock BY <1>4
        <5> QED BY <1>1, <1>5, <1>8, <1>9, <2>4, <4>1, <5>1 DEF Abreast
      <4>2. CASE i # Len(pending) + 1
        <5>1. i \in 1..Len(pending) BY <2>3, <2>4, <4>2
        <5>2. pending'[i] = pending[i] /\ i \in DOMAIN pending BY <2>4, <5>1
        <5>3. Abreast(pending[i]) /\ pending[i].requested <= clock BY <5>2 DEF JobsInv
        <5> QED BY <1>1, <1>9, <5>2, <5>3 DEF Abreast
      <4> QED BY <4>1, <4>2
    <3> QED BY <1>10, <1>11, <3>1 DEF JobsInv
  <2>9. \A i \in 1..Len(pending) :
            /\ pending[i] \in Balances!Jobs /\ pending[i] # Balances!NoJob /\
                   pending[i].requested \in Nat
            /\ pending[i].requested <= clock /\ pending[i].manager \in Nat
            /\ pending[i].account \in CreditAccounts /\ Recorded(pending[i])
    <3> SUFFICES ASSUME NEW i \in 1..Len(pending)
                 PROVE  /\ pending[i] \in Balances!Jobs /\ pending[i] # Balances!NoJob
                        /\ pending[i].requested \in Nat
                        /\ pending[i].requested <= clock /\ pending[i].manager \in Nat
                        /\ pending[i].account \in CreditAccounts /\ Recorded(pending[i])
      OBVIOUS
    <3>1. pending[i] \in Balances!Jobs /\ pending[i] # Balances!NoJob BY <2>3
    <3>2. Recorded(pending[i]) /\ pending[i].requested <= clock
      BY <2>4 DEF QueueInv, JobsInv
    <3> QED BY <3>1, <3>2, JobFields
  <2>10. /\ recent[q.account].manager \in Nat /\ recent[q.account].requested \in Nat
         /\ recent[q.account].manager <= q.manager
         /\ recent[q.account].requested <= clock
    BY <2>2, <2>5, CreditShapes DEF QueueInv, RecentInv
  <2>11. \A i \in DOMAIN pending' : Recorded(pending[i])'
    <3> SUFFICES ASSUME NEW i \in DOMAIN pending'
                 PROVE  \/ recent'[pending'[i].account].manager > pending'[i].manager
                        \/ /\ recent'[pending'[i].account].manager = pending'[i].manager
                           /\ recent'[pending'[i].account].requested >= pending'[i].requested
      BY DEF Recorded
    <3>1. CASE i = Len(pending) + 1
      <4>1. clock >= clock BY <1>4
      <4> QED BY <1>5, <2>4, <2>6, <3>1, <4>1
    <3>2. CASE i # Len(pending) + 1
      <4>1. i \in 1..Len(pending) BY <2>3, <2>4, <3>2
      <4>2. pending'[i] = pending[i] BY <2>4, <4>1
      <4> DEFINE j == pending[i]
      <4>3. /\ j.requested \in Nat /\ j.requested <= clock /\ j.manager \in Nat
            /\ j.account \in CreditAccounts
            /\ \/ recent[j.account].manager > j.manager
               \/ /\ recent[j.account].manager = j.manager
                  /\ recent[j.account].requested >= j.requested
        BY <2>9, <4>1 DEF Recorded
      <4>4. CASE j.account = q.account
        BY <1>4, <2>5, <2>6, <2>10, <4>2, <4>3, <4>4
      <4>5. CASE j.account # q.account
        BY <2>6, <4>2, <4>3, <4>5
      <4> QED BY <4>4, <4>5
    <3> QED BY <3>1, <3>2
  <2>12. Balances!OneLiveJob'
    <3> SUFFICES ASSUME NEW i \in DOMAIN pending', NEW k \in DOMAIN pending', i # k,
                        pending'[i].account = pending'[k].account,
                        pending'[i].manager = pending'[k].manager
                 PROVE  \/ clock - pending'[i].requested >= Interval
                        \/ clock - pending'[k].requested >= Interval
      BY <1>1 DEF Balances!OneLiveJob
    <3>1. ASSUME NEW x \in 1..Len(pending), pending[x].account = q.account,
                 pending[x].manager = q.manager
          PROVE  clock - pending[x].requested >= Interval
      <4>1. /\ pending[x].requested \in Nat
            /\ recent[q.account].manager = q.manager
            /\ recent[q.account].requested >= pending[x].requested
        BY <2>5, <2>9, <2>10, <3>1 DEF Recorded
      <4>2. clock - recent[q.account].requested >= Interval /\ Interval \in Nat
        BY <2>2, <4>1, CreditShapes
      <4> QED BY <1>4, <2>10, <4>1, <4>2
    <3>2. CASE i = Len(pending) + 1 \/ k = Len(pending) + 1
      <4>1. CASE i = Len(pending) + 1
        <5>1. k \in 1..Len(pending) BY <2>3, <2>4, <4>1
        <5> QED BY <2>4, <3>1, <4>1, <5>1
      <4>2. CASE k = Len(pending) + 1
        <5>1. i \in 1..Len(pending) BY <2>3, <2>4, <4>2
        <5> QED BY <2>4, <3>1, <4>2, <5>1
      <4> QED BY <3>2, <4>1, <4>2
    <3>3. CASE ~(i = Len(pending) + 1 \/ k = Len(pending) + 1)
      <4>1. i \in 1..Len(pending) /\ k \in 1..Len(pending) BY <2>3, <2>4, <3>3
      <4>2. pending'[i] = pending[i] /\ pending'[k] = pending[k] BY <2>4, <4>1
      <4> QED BY <2>4, <4>1, <4>2 DEF QueueInv, Balances!OneLiveJob
    <3> QED BY <3>2, <3>3
  <2>13. RecentInv'
    <3> SUFFICES ASSUME NEW a \in CreditAccounts
                 PROVE  /\ recent'[a].requested <= clock
                        /\ recent'[a].manager <= creditEvents + 1
                        /\ manager[a] # 0 => recent'[a].manager <= manager[a]
      BY <1>1 DEF RecentInv
    <3>1. CASE a = q.account
      <4>1. q.manager <= creditEvents + 1 BY <1>5, <1>8 DEF Abreast
      <4>2. q.manager <= manager[a] /\ clock <= clock BY <1>4, <2>2, <2>5, <3>1
      <4> QED BY <2>6, <3>1, <4>1, <4>2
    <3>2. CASE a # q.account BY <2>6, <3>2 DEF QueueInv, RecentInv
    <3> QED BY <3>1, <3>2
  <2>14. Balances!NoLostJob' BY <2>1 DEF Balances!NoLostJob
  <2>15. QueueInv' BY <1>1, <2>2, <2>11, <2>12, <2>13, <2>14 DEF QueueInv
  <2> QED BY <1>7, <1>12, <1>14, <2>7, <2>8, <2>15
<1> QED BY <1>16, <1>17

\* The end of the worker, with nothing to do or when the queue closes.
LEMMA WorkerExitKeeps ==
    ASSUME CreditBounds, CreditInv, Balances!WorkerExit
    PROVE  CreditInv'
<1> USE DEF CreditInv
<1>1. /\ worker = "loop" /\ worker' = "off"
      /\ UNCHANGED <<clock, creditEvents, manager, Balances!pool, pending, recent, closed, job,
                     call, Balances!readings, overtaken, due>>
      /\ UNCHANGED <<cooldown, other, revision, creditRevision>>
      /\ UNCHANGED <<reader, reading, creditState, creditGuard, lock>>
  BY DEF Balances!WorkerExit, Balances!pool, Balances!readings
<1>2. pending = <<>> BY DEF Balances!WorkerExit, QueueInv
<1>3. clock >= clock /\ creditEvents >= creditEvents /\ clock \in Nat /\ creditEvents \in Nat
  BY CreditShapes
<1>4. \A b \in CreditAccounts : manager[b] \in Nat /\ revision[b] \in Nat /\
          revision[b] >= revision[b]
  BY CreditShapes
<1>5. Balances!PoolType' /\ PoolInv' BY <1>1, <1>3, PoolKept
<1>6. Balances!TypeOK'
  <2>1. Balances!QueueType' BY <1>1 DEF Balances!TypeOK, Balances!QueueType
  <2> QED BY <1>1, <1>5, <2>1, ReadingTypeKept DEF Balances!TypeOK, Balances!ReadingType
<1>7. JobsInv' BY <1>1, <1>3, <1>4, JobsKept
<1>8. QueueInv' BY <1>1, <1>2, <1>3, <1>4, QueueKept
<1>9. ReadersInv' /\ WaitersInv' BY <1>1, <1>3, ReadingsKept
<1>10. WorkerInv' /\ PastInv' /\ ReadingsInv' BY <1>1, WorkerKept
<1> QED BY <1>5, <1>6, <1>7, <1>8, <1>9, <1>10

\* The first job leaves the queue.
LEMMA TailKeeps ==
    ASSUME CreditBounds, Balances!TypeOK, JobsInv, QueueInv, pending # <<>>, closed = "no",
           pending' = Tail(pending), worker' # "off",
           UNCHANGED <<clock, creditEvents, manager, revision, call, recent, closed>>
    PROVE  /\ pending' \in Seq(Balances!Jobs \ {Balances!NoJob}) /\ Len(pending') <= Backlog
           /\ \A i \in DOMAIN pending' : Abreast(pending[i])' /\ pending'[i].requested <= clock'
           /\ QueueInv'
<1>1. pending \in Seq(Balances!Jobs \ {Balances!NoJob}) /\ Len(pending) \in Nat /\ Backlog \in Nat
  BY DEF Balances!TypeOK, Balances!QueueType, CreditBounds
<1>2. /\ pending' \in Seq(Balances!Jobs \ {Balances!NoJob}) /\ Len(pending') = Len(pending) - 1
      /\ DOMAIN pending = 1..Len(pending) /\ DOMAIN pending' = 1..(Len(pending) - 1)
      /\ \A i \in 1..(Len(pending) - 1) : pending'[i] = pending[i + 1]
  BY <1>1
<1>3. \A i \in DOMAIN pending' : i + 1 \in DOMAIN pending /\ pending'[i] = pending[i + 1]
  BY <1>1, <1>2
<1>4. Len(pending') <= Backlog BY <1>1, <1>2 DEF Balances!TypeOK, Balances!QueueType
<1>5. \A i \in DOMAIN pending' : Abreast(pending[i])' /\ pending'[i].requested <= clock'
  BY <1>3 DEF JobsInv, Abreast
<1>6. \A i \in DOMAIN pending' : Recorded(pending[i])' BY <1>3 DEF QueueInv, Recorded
<1>7. Balances!OneLiveJob'
  <2>1. \A i, k \in DOMAIN pending' : i # k => i + 1 # k + 1 BY <1>2
  <2> QED BY <1>3, <2>1 DEF QueueInv, Balances!OneLiveJob
<1>8. RecentInv' BY DEF QueueInv, RecentInv
<1>9. Balances!NoLostJob' BY DEF Balances!NoLostJob
<1> QED BY <1>2, <1>4, <1>5, <1>6, <1>7, <1>8, <1>9 DEF QueueInv

\* What the worker is not reading for it is idle about.
LEMMA WorkerIdle ==
    ASSUME CreditBounds, Balances!TypeOK, ReadersInv, WorkerInv, worker \notin {"first", "second"}
    PROVE  job = Balances!NoJob /\ reader[Worker] = Balances!NoReading /\
               Balances!NoReading.pc = "idle"
BY DEF WorkerInv, Balances!NoReading

LEMMA WorkerTakeKeeps ==
    ASSUME CreditBounds, CreditInv, Balances!WorkerTake
    PROVE  CreditInv'
<1> USE DEF CreditInv
<1>1. /\ worker = "loop" /\ closed = "no" /\ pending # <<>> /\ pending' = Tail(pending)
      /\ UNCHANGED <<clock, creditEvents, manager, Balances!pool, recent, closed, call, reading,
                     creditState, creditGuard, lock, overtaken, due>>
      /\ UNCHANGED <<cooldown, other, revision, creditRevision>>
  BY DEF Balances!WorkerTake, Balances!pool
<1> DEFINE q == Head(pending)
           d == Balances!Asking(q.account, q.manager, q.revision)
<1>2. \/ UNCHANGED <<worker, job, reader>>
      \/ worker' = "first" /\ job' = q /\ reader' = [reader EXCEPT ![Worker] = d]
  BY DEF Balances!WorkerTake
<1>3. /\ clock \in Nat /\ creditEvents \in Nat /\ clock >= clock /\ creditEvents >= creditEvents
      /\ creditEvents <= CreditEvents /\ CreditEvents \in Nat
  BY CreditShapes
<1>4. Balances!PoolType' /\ PoolInv' BY <1>1, <1>3, PoolKept
<1>5. /\ pending' \in Seq(Balances!Jobs \ {Balances!NoJob}) /\ Len(pending') <= Backlog
      /\ \A i \in DOMAIN pending' : Abreast(pending[i])' /\ pending'[i].requested <= clock'
      /\ QueueInv'
  <2>1. worker' # "off" BY <1>1, <1>2
  <2> QED BY <1>1, <2>1, TailKeeps
<1>6. q \in Balances!Jobs /\ q # Balances!NoJob /\ Abreast(q)
  <2>1. pending \in Seq(Balances!Jobs \ {Balances!NoJob}) BY DEF Balances!TypeOK,
                                                             Balances!QueueType
  <2>2. q = pending[1] /\ 1 \in DOMAIN pending BY <1>1, <2>1
  <2>3. Abreast(q) BY <2>2 DEF JobsInv
  <2> QED BY <1>1, <2>1, <2>3
<1>7. /\ q.account \in CreditAccounts /\ q.manager \in Nat \ {0} /\ q.revision \in Nat
      /\ q.manager <= CreditEvents + 1 /\ q.revision <= CreditEvents /\
             q.manager <= creditEvents + 1
  BY <1>6, JobFields DEF Abreast
<1>8. /\ d \in Balances!ReaderStates /\ d.pc = "gate" /\ d.account = q.account
      /\ d.manager = q.manager /\ d.floor = q.revision /\ d.revision = 0
  <2>2. /\ q.manager \in 0..(CreditEvents + 1) /\ q.revision \in 0..CreditEvents
        /\ 0 \in 0..CreditEvents /\ q.account \in CreditAccounts \cup {NoAccount}
    BY <1>3, <1>7
  <2> HIDE DEF q
  <2>3. d \in Balances!ReaderStates BY <2>2 DEF Balances!Asking, Balances!ReaderStates
  <2> QED BY <2>3 DEF Balances!Asking
<1>9. job = Balances!NoJob /\ reader[Worker] = Balances!NoReading /\
          Balances!NoReading.pc = "idle"
  BY <1>1, WorkerIdle
<1>10. \A j : Abreast(j) => Abreast(j)' BY <1>1 DEF Abreast
<1>11. \A c \in Calls : Abreast(call[c])' BY <1>1, <1>10 DEF JobsInv, Abreast
<1>12. CASE UNCHANGED <<worker, job, reader>>
  <2>1. Balances!TypeOK'
    <3>1. Balances!QueueType' BY <1>1, <1>5, <1>12 DEF Balances!TypeOK, Balances!QueueType
    <3> QED BY <1>1, <1>4, <1>12, <3>1 DEF Balances!TypeOK, Balances!ReadingType
  <2>2. JobsInv' BY <1>5, <1>10, <1>11, <1>12 DEF JobsInv, Abreast
  <2>3. ReadersInv' /\ WaitersInv' BY <1>1, <1>3, <1>12, ReadingsKept
  <2>4. WorkerInv' /\ PastInv' /\ ReadingsInv' BY <1>1, <1>12, WorkerKept
  <2> QED BY <1>4, <1>5, <2>1, <2>2, <2>3, <2>4
<1>13. CASE worker' = "first" /\ job' = q /\ reader' = [reader EXCEPT ![Worker] = d]
  <2> HIDE DEF d, q
  <2>1. Worker \in Balances!Readers /\ reader \in [Balances!Readers -> Balances!ReaderStates]
    BY CreditShapes DEF Balances!TypeOK, Balances!ReadingType
  <2>2. reader'[Worker] = d /\ \A p \in Balances!Readers \ {Worker} : reader'[p] = reader[p]
    BY <1>13, <2>1
  <2>3. reader' \in [Balances!Readers -> Balances!ReaderStates] BY <1>8, <1>13, <2>1
  <2>4. Balances!TypeOK'
    <3>1. Balances!QueueType' BY <1>1, <1>5, <1>6, <1>13 DEF Balances!TypeOK, Balances!QueueType
    <3>2. Balances!ReadingType' BY <1>1, <2>3 DEF Balances!TypeOK, Balances!ReadingType
    <3> QED BY <1>1, <1>4, <3>1, <3>2 DEF Balances!TypeOK
  <2>5. JobsInv'
    <3>1. Abreast(job)' BY <1>6, <1>10, <1>13 DEF Abreast
    <3> QED BY <1>5, <1>11, <3>1 DEF JobsInv
  <2>6. ReaderFits(Worker)'
    <3>1. 0 <= creditRevision BY CreditShapes
    <3>2. d.manager \in 1..(creditEvents + 1) BY <1>3, <1>7, <1>8
    <3>3. Worker \notin Timers BY DEF CreditBounds
    <3> QED BY <1>1, <1>7, <1>8, <2>2, <3>1, <3>2, <3>3 DEF ReaderFits, Flying, Reads
  <2>7. ReadersInv' /\ WaitersInv'
    <3>1. reader[Worker].pc # "wait" BY <1>9
    <3> QED BY <1>1, <1>3, <2>1, <2>2, <2>6, <3>1, OthersKept
  <2>8. WorkerInv' BY <1>6, <1>8, <1>13, <2>2 DEF WorkerInv
  <2>9. ~Reached' /\ ~Ended' BY <1>8, <1>13, <2>2 DEF Reached, Ended, Flying
  <2>10. PastInv' /\ ReadingsInv' BY <2>9 DEF PastInv, ReadingsInv
  <2> QED BY <1>4, <1>5, <2>4, <2>5, <2>7, <2>8, <2>10
<1> QED BY <1>2, <1>12, <1>13

LEMMA WorkerReturnKeeps ==
    ASSUME CreditBounds, CreditInv, Balances!WorkerReturn
    PROVE  CreditInv'
<1> USE DEF CreditInv
<1>1. /\ worker \in {"first", "second"} /\ reader[Worker].pc \in {"ran", "joined"}
      /\ UNCHANGED <<clock, creditEvents, manager, Balances!pool, pending, recent, closed, call,
                     reading, creditState, creditGuard, lock, overtaken, due>>
      /\ UNCHANGED <<cooldown, other, revision, creditRevision>>
      /\ \/ /\ worker = "first" /\ reader[Worker].pc = "joined" /\ closed = "no"
            /\ worker' = "second" /\ UNCHANGED job
            /\ reader' = [reader EXCEPT ![Worker].pc = "gate"]
         \/ /\ worker' = "loop" /\ job' = Balances!NoJob
            /\ reader' = [reader EXCEPT ![Worker] = Balances!NoReading]
  BY DEF Balances!WorkerReturn, Balances!pool
<1>2. /\ clock \in Nat /\ creditEvents \in Nat /\ clock >= clock /\ creditEvents >= creditEvents
      /\ creditRevision \in Nat
  BY CreditShapes
<1>3. \A b \in CreditAccounts : manager[b] \in Nat BY CreditShapes
<1>4. Balances!PoolType' /\ PoolInv' BY <1>1, <1>2, PoolKept
<1>5. QueueInv' BY <1>1, <1>2, <1>3, QueueKept
<1>6. Worker \in Balances!Readers /\ reader \in [Balances!Readers -> Balances!ReaderStates]
  BY CreditShapes DEF Balances!TypeOK, Balances!ReadingType
<1> DEFINE d == [reader[Worker] EXCEPT !.pc = "gate"]
<1>7. Balances!NoReading \in Balances!ReaderStates /\ Balances!NoReading.pc = "idle" /\
          Balances!NoReading.floor = 0
  <2>1. CreditEvents \in Nat BY CreditShapes
  <2> QED BY <2>1 DEF Balances!NoReading, Balances!ReaderStates
<1>8. /\ d \in Balances!ReaderStates /\ d.pc = "gate" /\ d.account = reader[Worker].account
      /\ d.manager = reader[Worker].manager /\ d.floor = reader[Worker].floor
      /\ d.revision = reader[Worker].revision
  <2>1. reader[Worker] \in Balances!ReaderStates /\ "gate" \in Pcs BY <1>6 DEF Pcs
  <2> QED BY <2>1, PcSet
<1>9. /\ reader' \in [Balances!Readers -> Balances!ReaderStates]
      /\ \A p \in Balances!Readers \ {Worker} : reader'[p] = reader[p]
      /\ \/ worker' = "second" /\ reader'[Worker] = d
         \/ worker' = "loop" /\ reader'[Worker] = Balances!NoReading
  BY <1>1, <1>6, <1>7, <1>8
<1>10. Balances!NoJob \in Balances!Jobs BY DEF Balances!Jobs
<1>11. Balances!TypeOK'
  <2>1. Balances!QueueType' BY <1>1, <1>10 DEF Balances!TypeOK, Balances!QueueType
  <2>2. Balances!ReadingType' BY <1>1, <1>9 DEF Balances!TypeOK, Balances!ReadingType
  <2> QED BY <1>1, <1>4, <2>1, <2>2 DEF Balances!TypeOK
<1>12. JobsInv'
  <2>1. \A j : Abreast(j) => Abreast(j)' BY <1>1 DEF Abreast
  <2>2. Abreast(job)' BY <1>1, <2>1 DEF JobsInv, Abreast
  <2>3. \A i \in DOMAIN pending : Abreast(pending[i])' /\ pending'[i].requested <= clock'
    BY <1>1, <2>1 DEF JobsInv, Abreast
  <2>4. \A c \in Calls : Abreast(call[c])' BY <1>1, <2>1 DEF JobsInv, Abreast
  <2> QED BY <1>1, <2>2, <2>3, <2>4 DEF JobsInv
<1>13. ReadersInv' /\ WaitersInv'
  <2>1. ReaderFits(Worker) BY <1>6 DEF ReadersInv
  <2>2. ReaderFits(Worker)'
    <3>1. CASE reader'[Worker] = d
      BY <1>1, <1>8, <2>1, <3>1 DEF ReaderFits, Flying, Reads, CreditBounds
    <3>2. CASE reader'[Worker] = Balances!NoReading
      <4>1. Balances!NoReading.revision = 0 BY DEF Balances!NoReading
      <4> QED BY <1>1, <1>2, <1>7, <3>2, <4>1 DEF ReaderFits, Flying, Reads
    <3> QED BY <1>9, <3>1, <3>2
  <2>3. reader[Worker].pc # "wait" BY <1>1
  <2> QED BY <1>1, <1>2, <1>6, <1>9, <2>2, <2>3, OthersKept
<1>14. job # Balances!NoJob BY <1>1 DEF WorkerInv
<1>15. CASE job' = Balances!NoJob /\ worker' = "loop" /\ reader'[Worker] = Balances!NoReading
  <2>1. WorkerInv' BY <1>15 DEF WorkerInv
  <2>2. PastInv' /\ ReadingsInv' BY <1>15 DEF PastInv, ReadingsInv, Current
  <2> QED BY <1>4, <1>5, <1>11, <1>12, <1>13, <2>1, <2>2
<1>16. CASE worker' = "second" /\ job' = job /\ reader'[Worker] = d
            /\ reader[Worker].pc = "joined"
  <2> HIDE DEF d
  <2>1. WorkerInv' BY <1>8, <1>14, <1>16 DEF WorkerInv
  <2>2. Reached BY <1>16 DEF Reached
  <2>3. Current' => Current BY <1>1, <1>16 DEF Current
  <2>4. Past => Past'
    <3>1. \A p \in Balances!Readers : reader'[p] = reader[p] \/ reader'[p].pc \notin Reads
      BY <1>8, <1>9, <1>16 DEF Reads
    <3> QED BY <1>16, <3>1 DEF Past
  <2>5. PastInv' BY <2>2, <2>3, <2>4 DEF PastInv
  <2>6. ~Ended' BY <1>8, <1>16 DEF Ended
  <2>7. ReadingsInv' BY <2>6 DEF ReadingsInv
  <2> QED BY <1>4, <1>5, <1>11, <1>12, <1>13, <2>1, <2>5, <2>7
<1> QED BY <1>1, <1>6, <1>9, <1>15, <1>16

LEMMA CloseKeeps ==
    ASSUME CreditBounds, CreditInv, Balances!Close
    PROVE  CreditInv'
<1> USE DEF CreditInv
<1>1. /\ closed' = "waiting" /\ pending' = <<>>
      /\ recent' = [a \in CreditAccounts |-> Balances!NoRecent]
      /\ UNCHANGED <<clock, manager, Balances!pool, worker, job, call, Balances!readings,
             overtaken, due>>
      /\ UNCHANGED <<cooldown, other, revision, creditRevision>>
      /\ UNCHANGED <<reader, reading, creditState, creditGuard, lock>>
  BY DEF Balances!Close, Balances!pool, Balances!readings
<1>2. /\ creditEvents' \in 0..CreditEvents /\ creditEvents' \in Nat /\
             creditEvents' >= creditEvents
      /\ creditEvents \in Nat /\ clock \in Nat /\ MaxClock \in Nat /\ CreditEvents \in Nat
  BY EventCounts, CreditShapes DEF Balances!Close
<1>3. Balances!PoolType' /\ PoolInv' BY <1>1, <1>2, PoolKept
<1>4. /\ Balances!NoRecent.manager = 0 /\ Balances!NoRecent.requested = 0
      /\ Balances!NoRecent \in [manager : 0..(CreditEvents + 1), requested : 0..MaxClock]
  BY <1>2 DEF Balances!NoRecent
<1>5. Balances!TypeOK'
  <2>1. Balances!QueueType'
    <3>1. <<>> \in Seq(Balances!Jobs \ {Balances!NoJob}) /\ Len(<<>>) = 0 OBVIOUS
    <3>2. 0 <= Backlog BY DEF CreditBounds
    <3> QED BY <1>1, <1>4, <3>1, <3>2 DEF Balances!TypeOK, Balances!QueueType
  <2> QED BY <1>1, <1>2, <1>3, <2>1, ReadingTypeKept DEF Balances!TypeOK, Balances!ReadingType
<1>6. JobsInv'
  <2>1. \A b \in CreditAccounts : revision[b] \in Nat /\ revision[b] >= revision[b]
    BY CreditShapes
  <2>2. \A j \in Balances!Jobs : Abreast(j) => Abreast(j)' BY <1>1, <1>2, <2>1, FreshKept
  <2>3. job \in Balances!Jobs /\ \A c \in Calls : call[c] \in Balances!Jobs
    BY DEF Balances!TypeOK, Balances!QueueType
  <2>4. Abreast(job)' BY <1>1, <2>2, <2>3 DEF JobsInv, Abreast
  <2>5. \A c \in Calls : Abreast(call[c])' BY <1>1, <2>2, <2>3 DEF JobsInv, Abreast
  <2>6. DOMAIN pending' = {} BY <1>1
  <2> QED BY <2>4, <2>5, <2>6 DEF JobsInv
<1>7. QueueInv'
  <2>1. DOMAIN pending' = {} BY <1>1
  <2>2. Balances!OneLiveJob' /\ Balances!NoLostJob' BY <1>1, <2>1 DEF Balances!OneLiveJob,
                                                       Balances!NoLostJob
  <2>3. RecentInv'
    <3>1. \A a \in CreditAccounts : manager[a] \in Nat BY CreditShapes
    <3> QED BY <1>1, <1>2, <1>4, <3>1 DEF RecentInv
  <2> QED BY <1>1, <2>1, <2>2, <2>3 DEF QueueInv
<1>8. ReadersInv' /\ WaitersInv' BY <1>1, <1>2, ReadingsKept
<1>9. WorkerInv' /\ PastInv' /\ ReadingsInv' BY <1>1, WorkerKept
<1> QED BY <1>3, <1>5, <1>6, <1>7, <1>8, <1>9

-----------------------------------------------------------------------------
\* What readings have in common

\* A reading changes nothing outside, but for the cooldown it lifts.
LEMMA OutsideKept ==
    ASSUME CreditBounds, CreditInv, UNCHANGED <<clock, manager, revision, Balances!queue, call>>,
           creditEvents' \in Nat, creditEvents' >= creditEvents
    PROVE  Balances!QueueType' /\ JobsInv' /\ QueueInv'
<1> USE DEF CreditInv
<1>1. UNCHANGED <<pending, recent, closed, worker, job>> BY DEF Balances!queue
<1>2. clock \in Nat /\ clock >= clock BY CreditShapes
<1>3. \A b \in CreditAccounts : manager[b] \in Nat /\ revision[b] \in Nat /\
          revision[b] >= revision[b]
  BY CreditShapes
<1>4. Balances!QueueType' BY QueueTypeKept DEF Balances!TypeOK
<1>5. JobsInv' BY <1>1, <1>2, <1>3, JobsKept
<1>6. QueueInv' BY <1>1, <1>2, <1>3, QueueKept
<1> QED BY <1>4, <1>5, <1>6

\* The state of its account that a reading records, if it does.
Notes(p) ==
    LET a == reader[p].account IN
    \/ creditState' = creditState
    \/ /\ reader[p].pc \in Reads /\ manager[a] = reader[p].manager
       /\ creditState' = [creditState EXCEPT ![a] =
              [manager |-> manager[a], revision |-> reader[p].revision]]

\* A job that is answered stays so: no reading records an older revision.
LEMMA NotesAnswer ==
    ASSUME CreditBounds, Balances!TypeOK, NEW p \in Balances!Readers,
               reader[p].account \in CreditAccounts,
           Current, Past, Answers, Notes(p), UNCHANGED job
    PROVE  Answers'
<1>1. CASE creditState' = creditState BY <1>1 DEF Answers
<1>2. CASE job.account # reader[p].account
  <2>1. job.account \in CreditAccounts BY JobFields DEF Current, Balances!TypeOK,
                                          Balances!QueueType
  <2>2. creditState'[job.account] = creditState[job.account]
    BY <1>2, <2>1 DEF Notes, Balances!TypeOK, Balances!ReadingType
  <2> QED BY <2>2 DEF Answers
<1>3. CASE job.account = reader[p].account /\ creditState' # creditState
  <2>1. /\ creditState'[job.account] =
              [manager |-> manager[job.account], revision |-> reader[p].revision]
        /\ reader[p].pc \in Reads /\ reader[p].manager = manager[job.account]
    BY <1>3 DEF Notes, Balances!TypeOK, Balances!ReadingType
  <2>2. reader[p].revision >= job.revision BY <1>3, <2>1 DEF Current, Past
  <2> QED BY <2>1, <2>2 DEF Answers, Current
<1> QED BY <1>1, <1>2, <1>3

\* A reading that goes on.
LEMMA MoveKeeps ==
    ASSUME CreditBounds, CreditInv, NEW p \in Balances!Readers, reader[p].pc \in Flying,
           UNCHANGED <<manager, job, worker>>, Notes(p),
           \A q \in Balances!Readers \ {p} : reader'[q] = reader[q],
           /\ reader'[p].account = reader[p].account
           /\ reader'[p].manager = reader[p].manager
           /\ reader'[p].floor = reader[p].floor
           /\ reader'[p].pc \in Reads,
           \/ reader[p].pc \in Reads /\ reader'[p].revision = reader[p].revision
           \/ reader'[p].revision = revision[reader[p].account]
    PROVE  WorkerInv' /\ PastInv' /\ ReadingsInv'
<1> USE DEF CreditInv
<1>1. Worker \in Balances!Readers BY CreditShapes
<1>2. reader[p].pc # "idle" /\ reader[p].account \in CreditAccounts
  BY DEF Flying, ReadersInv, ReaderFits
<1>3. WorkerInv'
  <2>1. CASE Worker = p
    <3>1. job # Balances!NoJob
      <4>1. Balances!NoReading.pc = "idle" BY DEF Balances!NoReading
      <4> QED BY <1>2, <2>1, <4>1 DEF WorkerInv
    <3>2. reader'[p].pc # "idle" BY DEF Reads
    <3> QED BY <2>1, <3>1, <3>2 DEF WorkerInv
  <2>2. CASE Worker # p BY <1>1, <2>2 DEF WorkerInv
  <2> QED BY <2>1, <2>2
<1>4. Current' <=> Current BY DEF Current
<1>5. Reached' => Reached
  <2>1. CASE Worker = p BY <2>1 DEF Reached
  <2>2. CASE Worker # p BY <1>1, <2>2 DEF Reached
  <2> QED BY <2>1, <2>2
<1>6. Current /\ Past => Past'
  <2> SUFFICES ASSUME Current, Past, NEW r \in Balances!Readers,
                      reader'[r].account = job.account, reader'[r].manager = job.manager,
                      reader'[r].pc \in Reads
               PROVE  reader'[r].revision >= job.revision
    BY DEF Past
  <2>1. CASE r # p BY <2>1 DEF Past
  <2>2. CASE r = p /\ reader[p].pc \in Reads /\ reader'[p].revision = reader[p].revision
    BY <2>2 DEF Past
  <2>3. CASE r = p /\ reader'[p].revision = revision[reader[p].account]
    <3>1. revision[job.account] >= job.revision BY DEF JobsInv, Abreast, Current
    <3> QED BY <2>3, <3>1
  <2> QED BY <2>1, <2>2, <2>3
<1>7. PastInv' BY <1>4, <1>5, <1>6 DEF PastInv
<1>8. ReadingsInv'
  <2> SUFFICES ASSUME Current, Ended' PROVE Answers'
    BY <1>4 DEF ReadingsInv
  <2>1. Worker # p BY DEF Ended, Reads
  <2>2. reader'[Worker] = reader[Worker] BY <1>1, <2>1
  <2>3. Ended BY <2>2 DEF Ended
  <2>4. Reached BY <2>3 DEF Ended, Reached
  <2>5. Past /\ Answers BY <2>3, <2>4 DEF PastInv, ReadingsInv
  <2> QED BY <1>2, <2>5, NotesAnswer
<1> QED BY <1>3, <1>7, <1>8

\* The readers after a flight.
LEMMA LandFacts ==
    ASSUME CreditBounds, CreditInv, NEW p \in Balances!Readers, NEW result \in {"read", "cut"},
           reader[p].pc \in Flying, Balances!Land(p, result)
    PROVE  LET a == reader[p].account IN
           /\ a \in CreditAccounts
           /\ reader' \in [Balances!Readers -> Balances!ReaderStates]
           /\ reading' \in [CreditAccounts -> [key : 0..(CreditEvents + 1),
                  owner : Balances!Readers,
                                               waiters : SUBSET Balances!Readers]]
           /\ reading'[a] = Balances!NoFlight /\
                  \A b \in CreditAccounts \ {a} : reading'[b] = reading[b]
           /\ overtaken' \subseteq overtaken
           /\ p \notin reading[a].waiters
           /\ \A q \in Balances!Readers :
                /\ reader'[q].account = reader[q].account
                /\ reader'[q].manager = reader[q].manager
                /\ reader'[q].floor = reader[q].floor
                /\ reader'[q].revision = reader[q].revision
                /\ q = p => reader'[q].pc = "ran" /\ reader'[q].found = result
                /\ q # p /\ q \notin reading[a].waiters => reader'[q] = reader[q]
                /\ q \in reading[a].waiters =>
                      \/ reader'[q].pc = "gate" /\ reader[q].manager # reading[a].key
                      \/ /\ reader'[q].pc = "joined" /\ reader'[q].found = result
                         /\ reader[q].manager = reading[a].key
<1> USE DEF CreditInv
<1> DEFINE a == reader[p].account
<1>1. a \in CreditAccounts BY DEF Flying, ReadersInv, ReaderFits
<1>2. p \notin reading[a].waiters BY <1>1 DEF WaitersInv, Flying
<1>3. /\ reading' = [reading EXCEPT ![a] = Balances!NoFlight]
      /\ reader' = [q \in Balances!Readers |->
            IF q = p THEN [reader[q] EXCEPT !.pc = "ran", !.found = result]
            ELSE IF q \notin reading[a].waiters THEN reader[q]
            ELSE IF reader[q].manager # reading[a].key THEN [reader[q] EXCEPT !.pc = "gate"]
            ELSE [reader[q] EXCEPT !.pc = "joined", !.found = result]]
      /\ overtaken' = overtaken \ {p}
  BY DEF Balances!Land
<1>4. Balances!NoFlight \in [key : 0..(CreditEvents + 1), owner : Balances!Readers,
          waiters : SUBSET Balances!Readers]
  BY CreditShapes DEF Balances!NoFlight
<1>5. /\ reading' \in [CreditAccounts -> [key : 0..(CreditEvents + 1), owner : Balances!Readers,
                                          waiters : SUBSET Balances!Readers]]
      /\ reading'[a] = Balances!NoFlight /\
             \A b \in CreditAccounts \ {a} : reading'[b] = reading[b]
  BY <1>1, <1>3, <1>4 DEF Balances!TypeOK, Balances!ReadingType
<1>9. result \in Founds BY DEF Founds
<1> HIDE DEF a
<1>6. ASSUME NEW q \in Balances!Readers
      PROVE  /\ reader'[q] \in Balances!ReaderStates
             /\ reader'[q].account = reader[q].account
             /\ reader'[q].manager = reader[q].manager
             /\ reader'[q].floor = reader[q].floor
             /\ reader'[q].revision = reader[q].revision
             /\ q = p => reader'[q].pc = "ran" /\ reader'[q].found = result
             /\ q # p /\ q \notin reading[a].waiters => reader'[q] = reader[q]
             /\ q \in reading[a].waiters =>
                   \/ reader'[q].pc = "gate" /\ reader[q].manager # reading[a].key
                   \/ /\ reader'[q].pc = "joined" /\ reader'[q].found = result
                      /\ reader[q].manager = reading[a].key
  <2>1. reader[q] \in Balances!ReaderStates BY CreditShapes
  <2>2. CASE q = p
    <3>1. "ran" \in Pcs BY DEF Pcs
    <3>2. reader'[q] = EndsWith(reader[q], "ran", result) BY <1>3, <2>2 DEF EndsWith
    <3>3. /\ EndsWith(reader[q], "ran", result) \in Balances!ReaderStates
          /\ EndsWith(reader[q], "ran", result).pc = "ran"
          /\ EndsWith(reader[q], "ran", result).found = result
          /\ EndsWith(reader[q], "ran", result).account = reader[q].account
          /\ EndsWith(reader[q], "ran", result).manager = reader[q].manager
          /\ EndsWith(reader[q], "ran", result).floor = reader[q].floor
          /\ EndsWith(reader[q], "ran", result).revision = reader[q].revision
      BY <1>9, <2>1, <3>1, EndsWithFields
    <3> QED BY <1>2, <2>2, <3>2, <3>3
  <2>3. CASE q # p /\ q \notin reading[a].waiters BY <1>3, <2>1, <2>3
  <2>4. CASE q # p /\ q \in reading[a].waiters /\ reader[q].manager # reading[a].key
    <3>1. "gate" \in Pcs BY DEF Pcs
    <3>2. reader'[q] = [reader[q] EXCEPT !.pc = "gate"] BY <1>3, <2>4
    <3> QED BY <2>1, <2>4, <3>1, <3>2, PcSet
  <2>5. CASE q # p /\ q \in reading[a].waiters /\ reader[q].manager = reading[a].key
    <3>1. "joined" \in Pcs BY DEF Pcs
    <3>2. reader'[q] = EndsWith(reader[q], "joined", result) BY <1>3, <2>5 DEF EndsWith
    <3>3. /\ EndsWith(reader[q], "joined", result) \in Balances!ReaderStates
          /\ EndsWith(reader[q], "joined", result).pc = "joined"
          /\ EndsWith(reader[q], "joined", result).found = result
          /\ EndsWith(reader[q], "joined", result).account = reader[q].account
          /\ EndsWith(reader[q], "joined", result).manager = reader[q].manager
          /\ EndsWith(reader[q], "joined", result).floor = reader[q].floor
          /\ EndsWith(reader[q], "joined", result).revision = reader[q].revision
      BY <1>9, <2>1, <3>1, EndsWithFields
    <3> QED BY <2>5, <3>2, <3>3
  <2> QED BY <2>2, <2>3, <2>4, <2>5
<1>7. reader' \in [Balances!Readers -> Balances!ReaderStates] BY <1>3, <1>6
<1>8. overtaken' \subseteq overtaken BY <1>3
<1> QED BY <1>1, <1>2, <1>5, <1>6, <1>7, <1>8 DEF a

\* A flight that ends keeps the readers in order, and answers the worker only
\* with a reading that began after the job's rejection.
LEMMA LandKeeps ==
    ASSUME CreditBounds, CreditInv, NEW p \in Balances!Readers, NEW result \in {"read", "cut"},
           reader[p].pc \in Flying, Balances!Land(p, result), Notes(p),
           UNCHANGED <<manager, revision, creditRevision, job, worker>>,
           creditEvents' \in Nat, creditEvents' >= creditEvents,
           result = "read" =>
              \/ /\ reader[p].pc \in Reads
                 /\ creditState'[reader[p].account] =
                        [manager |-> reader[p].manager, revision |-> reader[p].revision]
              \/ /\ reader[p].floor > 0 /\ creditState' = creditState
                 /\ Balances!Settled(reader[p].account, reader[p].manager, reader[p].floor)
    PROVE  /\ reader' \in [Balances!Readers -> Balances!ReaderStates]
           /\ reading' \in [CreditAccounts -> [key : 0..(CreditEvents + 1),
                  owner : Balances!Readers,
                                               waiters : SUBSET Balances!Readers]]
           /\ overtaken' \subseteq Balances!Readers
           /\ ReadersInv' /\ WaitersInv' /\ WorkerInv' /\ PastInv' /\ ReadingsInv'
<1> USE DEF CreditInv
<1> DEFINE a == reader[p].account
<1>1. /\ a \in CreditAccounts
      /\ reader' \in [Balances!Readers -> Balances!ReaderStates]
      /\ reading' \in [CreditAccounts -> [key : 0..(CreditEvents + 1), owner : Balances!Readers,
                                          waiters : SUBSET Balances!Readers]]
      /\ reading'[a] = Balances!NoFlight /\
             \A b \in CreditAccounts \ {a} : reading'[b] = reading[b]
      /\ overtaken' \subseteq overtaken
      /\ p \notin reading[a].waiters
  BY LandFacts
<1>2. \A q \in Balances!Readers :
        /\ reader'[q].account = reader[q].account
        /\ reader'[q].manager = reader[q].manager
        /\ reader'[q].floor = reader[q].floor
        /\ reader'[q].revision = reader[q].revision
        /\ q = p => reader'[q].pc = "ran" /\ reader'[q].found = result
        /\ q # p /\ q \notin reading[a].waiters => reader'[q] = reader[q]
        /\ q \in reading[a].waiters =>
              \/ reader'[q].pc = "gate" /\ reader[q].manager # reading[a].key
              \/ /\ reader'[q].pc = "joined" /\ reader'[q].found = result
                 /\ reader[q].manager = reading[a].key
  BY LandFacts
<1>3. overtaken' \subseteq Balances!Readers BY <1>1 DEF Balances!TypeOK, Balances!ReadingType
<1>4. \A q \in reading[a].waiters : q \in Balances!Readers /\ reader[q].pc = "wait" /\
          reader[q].account = a
  BY <1>1, CreditShapes DEF WaitersInv
<1>5. reading[a].key = reader[p].manager BY DEF ReadersInv, ReaderFits
<1>6. \A b \in CreditAccounts \ {a} : creditState'[b] = creditState[b]
  BY <1>1 DEF Notes, Balances!TypeOK, Balances!ReadingType
<1>7. \A q \in Balances!Readers : reader[q].pc \in Flying /\ reader[q].account = a => q = p
  BY OneOwner
<1> HIDE DEF a
<1>8. ReadersInv'
  <2> SUFFICES ASSUME NEW q \in Balances!Readers PROVE ReaderFits(q)'
    BY DEF ReadersInv
  <2>1. ReaderFits(q) BY DEF ReadersInv
  <2>2. creditRevision \in Nat /\ creditEvents \in Nat BY CreditShapes
  <2>3. CASE q # p /\ q \notin reading[a].waiters
    <3>1. reader'[q] = reader[q] BY <1>2, <2>3
    <3>2. reader[q].pc \in Flying =>
            reader[q].account \in CreditAccounts /\ reader[q].account # a
      BY <1>7, <2>1, <2>3 DEF ReaderFits, Flying
    <3>3. reader[q].pc \in Flying =>
            /\ reading'[reader[q].account] = reading[reader[q].account]
            /\ creditState'[reader[q].account] = creditState[reader[q].account]
      BY <1>1, <1>6, <3>2
    <3>4. q \in overtaken' /\ reader[q].pc \in Reads =>
            \/ revision[reader[q].account] = 0
            \/ revision[reader[q].account] > reader[q].revision
      BY <1>1, <2>1 DEF ReaderFits
    <3> QED BY <2>1, <2>2, <3>1, <3>3, <3>4, ReaderKept
  <2>4. CASE q = p \/ q \in reading[a].waiters
    <3>1. reader[q].pc # "idle" /\ reader[q].account = a
      BY <1>4, <2>4 DEF a, Flying
    <3>2. /\ reader'[q].pc # "idle" /\ reader'[q].pc \notin Flying
          /\ reader'[q].pc \notin Reads /\ reader'[q].pc # "apply"
      BY <1>2, <2>4 DEF Flying, Reads
    <3>3. /\ reader[q].manager \in 1..(creditEvents + 1) /\ reader[q].revision <= creditRevision
          /\ q \in Timers => reader[q].floor = 0
      BY <2>1, <3>1 DEF ReaderFits
    <3>4. reader[q].manager \in 1..(creditEvents' + 1) BY <2>2, <3>3
    <3>5. /\ reader'[q].account = a /\ reader'[q].manager = reader[q].manager
          /\ reader'[q].floor = reader[q].floor /\ reader'[q].revision = reader[q].revision
      BY <1>2, <3>1
    <3> QED BY <1>1, <3>2, <3>3, <3>4, <3>5 DEF ReaderFits
  <2> QED BY <2>3, <2>4
<1>9. WaitersInv'
  <2> SUFFICES ASSUME NEW b \in CreditAccounts, NEW q \in reading'[b].waiters
               PROVE  reader'[q].pc = "wait" /\ reader'[q].account = b
    BY DEF WaitersInv
  <2>1. b # a BY <1>1 DEF Balances!NoFlight
  <2>2. q \in reading[b].waiters BY <1>1, <2>1
  <2>3. q \in Balances!Readers /\ reader[q].pc = "wait" /\ reader[q].account = b
    BY <2>2, CreditShapes DEF WaitersInv
  <2>4. q # p /\ q \notin reading[a].waiters BY <1>4, <2>1, <2>3 DEF Flying
  <2> QED BY <1>2, <2>3, <2>4
<1>10. Worker \in Balances!Readers BY CreditShapes
<1>11. WorkerInv'
  <2>1. CASE Worker = p \/ Worker \in reading[a].waiters
    <3>1. reader[Worker].pc # "idle" BY <1>4, <2>1 DEF Flying
    <3>2. job # Balances!NoJob
      <4>1. Balances!NoReading.pc = "idle" BY DEF Balances!NoReading
      <4> QED BY <3>1, <4>1 DEF WorkerInv
    <3>3. reader'[Worker].pc # "idle" BY <1>2, <1>10, <2>1
    <3> QED BY <1>2, <1>10, <3>2, <3>3 DEF WorkerInv
  <2>2. CASE ~(Worker = p \/ Worker \in reading[a].waiters)
    <3>1. reader'[Worker] = reader[Worker] BY <1>2, <1>10, <2>2
    <3> QED BY <3>1 DEF WorkerInv
  <2> QED BY <2>1, <2>2
<1>12. Current' <=> Current BY DEF Current
<1>13. \A r \in Balances!Readers : reader'[r].pc \in Reads =>
            reader'[r] = reader[r] /\ reader[r].account # a
  <2> SUFFICES ASSUME NEW r \in Balances!Readers, reader'[r].pc \in Reads
               PROVE  reader'[r] = reader[r] /\ reader[r].account # a
    OBVIOUS
  <2>1. r # p /\ r \notin reading[a].waiters BY <1>2 DEF Reads
  <2>2. reader'[r] = reader[r] BY <1>2, <2>1
  <2>3. reader[r].pc \in Flying BY <2>2 DEF Reads, Flying
  <2> QED BY <1>7, <2>1, <2>2, <2>3
<1>14. Past => Past' BY <1>13 DEF Past
<1>15. job # Balances!NoJob => reader[Worker].account = job.account /\
           reader[Worker].manager = job.manager
                               /\ reader[Worker].floor = job.revision
  BY DEF WorkerInv
<1>16. PastInv'
  <2> SUFFICES ASSUME Current, Reached' PROVE Past'
    BY <1>12 DEF PastInv
  <2>1. CASE job.account = a BY <1>13, <2>1 DEF Past
  <2>2. CASE job.account # a
    <3>1. Worker # p /\ Worker \notin reading[a].waiters
      BY <1>4, <1>15, <2>2 DEF a, Current
    <3>2. reader'[Worker] = reader[Worker] BY <1>2, <1>10, <3>1
    <3>3. Reached BY <3>2 DEF Reached
    <3> QED BY <1>14, <3>3 DEF PastInv
  <2> QED BY <2>1, <2>2
<1>17. ReadingsInv'
  <2> SUFFICES ASSUME Current, Ended' PROVE Answers'
    BY <1>12 DEF ReadingsInv
  <2>1. CASE ~(Worker = p \/ Worker \in reading[a].waiters)
    <3>1. reader'[Worker] = reader[Worker] BY <1>2, <1>10, <2>1
    <3>2. Ended /\ Reached BY <3>1 DEF Ended, Reached
    <3>3. Past /\ Answers BY <3>2 DEF PastInv, ReadingsInv
    <3> QED BY <1>1, <3>3, NotesAnswer DEF a
  <2>2. CASE Worker = p \/ Worker \in reading[a].waiters
    <3>1. /\ job # Balances!NoJob /\ job.account = a /\ reader[Worker].manager = job.manager
          /\ reader[Worker].floor = job.revision
      BY <1>4, <1>15, <2>2 DEF a, Current
    <3>2. result = "read" /\ reader[Worker].manager = reader[p].manager
      BY <1>2, <1>5, <1>10, <2>2 DEF Ended
    <3>3. Reached
      <4>1. CASE Worker = p BY <4>1 DEF Reached
      <4>2. CASE Worker \in reading[a].waiters
        <5>1. reader'[Worker].pc # "ran" BY <1>2, <1>10, <4>2
        <5> QED BY <5>1 DEF Ended, Reached
      <4> QED BY <2>2, <4>1, <4>2
    <3>4. Past BY <3>3 DEF PastInv
    <3>5. CASE /\ reader[p].pc \in Reads
               /\ creditState'[reader[p].account] =
                      [manager |-> reader[p].manager, revision |-> reader[p].revision]
      <4>1. reader[p].revision >= job.revision BY <3>1, <3>2, <3>4, <3>5 DEF Past, a
      <4> QED BY <3>1, <3>2, <3>5, <4>1 DEF Answers, a
    <3>6. CASE /\ reader[p].floor > 0 /\ creditState' = creditState
               /\ Balances!Settled(reader[p].account, reader[p].manager, reader[p].floor)
      <4>1. p = Worker
        <5>1. reader[p].floor # 0 BY <3>6, CreditShapes, ReaderFields
        <5> QED BY <5>1 DEF ReadersInv, ReaderFits, Balances!Readers
      <4>2. /\ creditState[a].manager = job.manager
            /\ creditState[a].revision >= Balances!Greater(job.revision, revision[a])
        BY <3>1, <3>6, <4>1 DEF Balances!Settled, a
      <4>3. /\ job.revision \in Nat /\ revision[a] \in Nat /\ creditState[a].revision \in Nat
        BY <1>1, <3>1, JobFields, CreditShapes DEF Balances!TypeOK, Balances!QueueType, a
      <4>4. creditState[a].revision >= job.revision BY <4>2, <4>3 DEF Balances!Greater
      <4> QED BY <3>1, <3>6, <4>2, <4>4 DEF Answers
    <3> QED BY <3>2, <3>5, <3>6
  <2> QED BY <2>1, <2>2
<1> QED BY <1>1, <1>3, <1>8, <1>9, <1>11, <1>16, <1>17

-----------------------------------------------------------------------------
\* Readings

\* What a reading leaves alone.
LEMMA OthersUnchanged ==
    ASSUME UNCHANGED Balances!others
    PROVE  /\ UNCHANGED <<clock, manager, Balances!pool, Balances!queue, call, due>>
           /\ UNCHANGED <<cooldown, other, revision, creditRevision>>
           /\ UNCHANGED <<pending, recent, closed, worker, job>>
BY DEF Balances!others, Balances!pool, Balances!queue

\* So what remains to be shown is about the readers.
LEMMA ReadingStep ==
    ASSUME CreditBounds, CreditInv, UNCHANGED Balances!others,
           creditEvents' \in 0..CreditEvents, creditEvents' >= creditEvents,
               Balances!ReadingType',
           ReadersInv', WaitersInv', WorkerInv', PastInv', ReadingsInv'
    PROVE  CreditInv'
<1> USE DEF CreditInv
<1>1. /\ UNCHANGED <<clock, manager, Balances!pool, Balances!queue, call, due>>
      /\ UNCHANGED <<cooldown, other, revision, creditRevision>>
  BY OthersUnchanged
<1>2. creditEvents' \in Nat BY CreditShapes
<1>3. Balances!PoolType' /\ PoolInv' BY <1>1, <1>2, PoolKept
<1>4. Balances!QueueType' /\ JobsInv' /\ QueueInv' BY <1>1, <1>2, OutsideKept
<1>5. Balances!TypeOK' BY <1>1, <1>3, <1>4 DEF Balances!TypeOK
<1> QED BY <1>3, <1>4, <1>5

\* A step of a timer that is at rest, or comes to rest.
LEMMA TimerKeeps ==
    ASSUME CreditBounds, CreditInv, NEW p \in Timers, NEW d \in Balances!ReaderStates,
           UNCHANGED <<Balances!others, reading, creditState, creditGuard, lock, overtaken>>,
           creditEvents' \in 0..CreditEvents, creditEvents' >= creditEvents,
           reader' = [reader EXCEPT ![p] = d], reader[p].pc # "wait",
           \/ d = Balances!NoReading
           \/ /\ d.pc = "gate" /\ d.floor = 0 /\ d.revision = 0
              /\ d.account \in CreditAccounts /\ d.manager \in 1..(creditEvents' + 1)
    PROVE  CreditInv'
<1> USE DEF CreditInv
<1>1. p \in Balances!Readers /\ p # Worker /\ Worker \in Balances!Readers BY CreditShapes
                                                                             DEF Balances!Readers, CreditBounds
<1>2. /\ reader' \in [Balances!Readers -> Balances!ReaderStates] /\ reader'[p] = d
      /\ \A q \in Balances!Readers \ {p} : reader'[q] = reader[q]
  BY <1>1 DEF Balances!TypeOK, Balances!ReadingType
<1>3. UNCHANGED <<manager, revision, creditRevision, worker, job>> BY OthersUnchanged
<1>4. creditEvents' \in Nat /\ creditRevision \in Nat BY CreditShapes
<1>5. Balances!ReadingType' BY <1>2 DEF Balances!TypeOK, Balances!ReadingType
<1>6. Balances!NoReading.pc = "idle" /\ Balances!NoReading.floor = 0 /\
          Balances!NoReading.revision = 0
  BY DEF Balances!NoReading
<1>7. ReaderFits(p)'
  BY <1>2, <1>3, <1>4, <1>6 DEF ReaderFits, Flying, Reads
<1>8. ReadersInv' /\ WaitersInv' BY <1>1, <1>2, <1>3, <1>4, <1>7, OthersKept
<1>9. reader'[Worker] = reader[Worker] BY <1>1, <1>2
<1>10. WorkerInv' BY <1>3, <1>9 DEF WorkerInv
<1>11. \A r \in Balances!Readers : reader'[r].pc \in Reads => reader'[r] = reader[r]
  BY <1>2, <1>6 DEF Reads
<1>12. PastInv'
  <2>1. Current' /\ Reached' => Current /\ Reached
    BY <1>3, <1>9 DEF Current, Reached
  <2>2. Past => Past' BY <1>3, <1>11 DEF Past
  <2> QED BY <2>1, <2>2 DEF PastInv
<1>13. ReadingsInv' BY <1>3, <1>9 DEF ReadingsInv, Current, Ended, Answers
<1> QED BY <1>5, <1>8, <1>10, <1>12, <1>13, ReadingStep

LEMMA RefreshKeeps ==
    ASSUME CreditBounds, CreditInv, NEW p \in Timers, NEW a \in CreditAccounts,
               Balances!Refresh(p, a)
    PROVE  CreditInv'
<1> USE DEF CreditInv
<1>1. /\ reader[p] = Balances!NoReading /\ manager[a] # 0
      /\ reader' = [reader EXCEPT ![p] = Balances!Asking(a, manager[a], 0)]
      /\ UNCHANGED <<Balances!others, reading, creditState, creditGuard, lock, overtaken>>
  BY DEF Balances!Refresh
<1>2. creditEvents' \in 0..CreditEvents /\ creditEvents' >= creditEvents /\
          creditEvents' = creditEvents + 1
  BY EventCounts DEF Balances!Refresh
<1>3. /\ manager[a] \in 0..(CreditEvents + 1) /\ manager[a] <= creditEvents + 1 /\ CreditEvents \in Nat
      /\ creditEvents \in Nat /\ manager[a] \in Nat
  BY CreditShapes DEF Balances!TypeOK, Balances!PoolType, PoolInv
<1> DEFINE d == Balances!Asking(a, manager[a], 0)
<1>4. /\ d \in Balances!ReaderStates /\ d.pc = "gate" /\ d.floor = 0 /\ d.revision = 0
      /\ d.account = a /\ d.manager = manager[a]
  BY <1>3 DEF Balances!Asking, Balances!ReaderStates
<1>5. manager[a] \in 1..(creditEvents' + 1) BY <1>1, <1>2, <1>3
<1>6. reader[p].pc # "wait"
  <2>1. Balances!NoReading.pc = "idle" BY DEF Balances!NoReading
  <2> QED BY <1>1, <2>1
<1> HIDE DEF d
<1>7. reader' = [reader EXCEPT ![p] = d] BY <1>1 DEF d
<1> QED BY <1>1, <1>2, <1>4, <1>5, <1>6, <1>7, TimerKeeps

LEMMA TimerReturnKeeps ==
    ASSUME CreditBounds, CreditInv, NEW p \in Balances!Readers, Balances!TimerReturn(p)
    PROVE  CreditInv'
<1> USE DEF CreditInv
<1>1. /\ p \in Timers /\ reader[p].pc # "wait" /\
             reader' = [reader EXCEPT ![p] = Balances!NoReading]
      /\ UNCHANGED <<Balances!others, creditEvents, reading, creditState, creditGuard, lock,
             overtaken>>
  BY DEF Balances!TimerReturn
<1>2. Balances!NoReading \in Balances!ReaderStates
  <2>1. CreditEvents \in Nat BY CreditShapes
  <2> QED BY <2>1 DEF Balances!NoReading, Balances!ReaderStates
<1>3. creditEvents \in 0..CreditEvents /\ creditEvents >= creditEvents BY CreditShapes
                                                                          DEF Balances!TypeOK
<1> QED BY <1>1, <1>2, <1>3, TimerKeeps

\* A reader joins the flight of its account or starts it.
LEMMA GateKeeps ==
    ASSUME CreditBounds, CreditInv, NEW p \in Balances!Readers, Balances!Gate(p)
    PROVE  CreditInv'
<1> USE DEF CreditInv
<1> DEFINE a == reader[p].account
<1>1. /\ reader[p].pc = "gate"
      /\ UNCHANGED <<Balances!others, creditEvents, creditState, creditGuard, lock, overtaken>>
      /\ \/ /\ reading[a] = Balances!NoFlight
            /\ reading' = [reading EXCEPT ![a] =
                    [key |-> reader[p].manager, owner |-> p, waiters |-> {}]]
            /\ reader' = [reader EXCEPT ![p].pc = "enter"]
         \/ /\ reading' = [reading EXCEPT ![a].waiters = @ \cup {p}]
            /\ reader' = [reader EXCEPT ![p].pc = "wait"]
  BY DEF Balances!Gate
<1>2. a \in CreditAccounts /\ ReaderFits(p) BY <1>1 DEF ReadersInv, ReaderFits
<1>3. UNCHANGED <<manager, revision, creditRevision, worker, job>>
  BY <1>1, OthersUnchanged
<1>4. /\ creditRevision \in Nat /\ creditEvents \in Nat /\ creditEvents >= creditEvents
      /\ creditEvents \in 0..CreditEvents /\ Worker \in Balances!Readers
  BY CreditShapes DEF Balances!TypeOK
<1>5. reader[p] \in Balances!ReaderStates /\
          reader \in [Balances!Readers -> Balances!ReaderStates]
  BY CreditShapes DEF Balances!TypeOK, Balances!ReadingType
<1>6. PICK s \in {"enter", "wait"} : reader' = [reader EXCEPT ![p].pc = s]
  BY <1>1
<1>7. /\ reader' \in [Balances!Readers -> Balances!ReaderStates]
      /\ reader'[p].pc = s /\ reader'[p].account = a
      /\ reader'[p].manager = reader[p].manager /\ reader'[p].floor = reader[p].floor
      /\ reader'[p].revision = reader[p].revision
      /\ \A q \in Balances!Readers \ {p} : reader'[q] = reader[q]
  <2> DEFINE d == [reader[p] EXCEPT !.pc = s]
  <2>1. s \in Pcs BY DEF Pcs
  <2>2. /\ d \in Balances!ReaderStates /\ d.pc = s /\ d.account = a /\
               d.manager = reader[p].manager
        /\ d.floor = reader[p].floor /\ d.revision = reader[p].revision
    BY <1>5, <2>1, PcSet
  <2>3. reader' = [reader EXCEPT ![p] = d] BY <1>6
  <2> HIDE DEF d, a
  <2> QED BY <1>5, <2>2, <2>3
<1>8. reading[a] \in [key : 0..(CreditEvents + 1), owner : Balances!Readers,
          waiters : SUBSET Balances!Readers]
  BY <1>2 DEF Balances!TypeOK, Balances!ReadingType
<1>9. p \notin reading[a].waiters /\ \A b \in CreditAccounts : p \notin reading[b].waiters
  BY <1>1, <1>2 DEF WaitersInv
<1> HIDE DEF a
<1>10. \A b \in CreditAccounts \ {a} : reading'[b] = reading[b]
  BY <1>1 DEF Balances!TypeOK, Balances!ReadingType
<1>11. CASE /\ reading[a] = Balances!NoFlight /\ s = "enter"
            /\ reading'[a] = [key |-> reader[p].manager, owner |-> p, waiters |-> {}]
            /\ reading' \in [CreditAccounts -> [key : 0..(CreditEvents + 1),
                   owner : Balances!Readers,
                                                waiters : SUBSET Balances!Readers]]
  <2>1. \A q \in Balances!Readers : reader[q].pc \in Flying => reader[q].account # a
    <3> SUFFICES ASSUME NEW q \in Balances!Readers, reader[q].pc \in Flying, reader[q].account = a
                 PROVE  FALSE
      OBVIOUS
    <3>1. reader[q].manager \in 1..(creditEvents + 1) /\ reading[a].key = reader[q].manager
      BY DEF ReadersInv, ReaderFits, Flying
    <3>2. reading[a].key = 0 BY <1>11 DEF Balances!NoFlight
    <3> QED BY <1>4, <3>1, <3>2
  <2>2. ReadersInv'
    <3> SUFFICES ASSUME NEW q \in Balances!Readers PROVE ReaderFits(q)'
      BY DEF ReadersInv
    <3>1. CASE q = p
      <4>1. reading'[a].owner = p /\ reading'[a].key = reader[p].manager BY <1>11
      <4> QED BY <1>1, <1>2, <1>3, <1>7, <1>11, <3>1, <4>1
            DEF ReaderFits, Reads, a
    <3>2. CASE q # p
      <4>1. reader'[q] = reader[q] /\ ReaderFits(q) BY <1>7, <3>2 DEF ReadersInv
      <4>2. reader[q].pc \in Flying =>
              reading'[reader[q].account] = reading[reader[q].account]
        BY <1>10, <2>1, <4>1 DEF ReaderFits, Flying
      <4>3. q \in overtaken /\ reader[q].pc \in Reads =>
              \/ revision[reader[q].account] = 0
              \/ revision[reader[q].account] > reader[q].revision
        BY <4>1 DEF ReaderFits
      <4> QED BY <1>1, <1>3, <1>4, <4>1, <4>2, <4>3, ReaderKept
    <3> QED BY <3>1, <3>2
  <2>3. WaitersInv'
    <3> SUFFICES ASSUME NEW b \in CreditAccounts, NEW q \in reading'[b].waiters
                 PROVE  reader'[q].pc = "wait" /\ reader'[q].account = b
      BY DEF WaitersInv
    <3>1. b # a /\ q \in reading[b].waiters BY <1>10, <1>11
    <3>2. q # p /\ q \in Balances!Readers BY <1>9, <3>1, CreditShapes
    <3> QED BY <1>7, <3>1, <3>2 DEF WaitersInv
  <2>4. WorkerInv' /\ ReadingsInv' /\ PastInv'
    <3>1. WorkerInv'
      <4>1. CASE Worker = p
        <5>1. job # Balances!NoJob
          <6>1. Balances!NoReading.pc = "idle" BY DEF Balances!NoReading
          <6> QED BY <1>1, <4>1, <6>1 DEF WorkerInv
        <5> QED BY <1>3, <1>7, <1>11, <4>1, <5>1 DEF WorkerInv, a
      <4>2. CASE Worker # p
        <5>1. reader'[Worker] = reader[Worker] BY <1>4, <1>7, <4>2
        <5> QED BY <1>3, <5>1 DEF WorkerInv
      <4> QED BY <4>1, <4>2
    <3>2. Current' <=> Current BY <1>3 DEF Current
    <3>3. \A r \in Balances!Readers : reader'[r].pc \in Reads => reader'[r] = reader[r]
      BY <1>7, <1>11 DEF Reads
    <3>4. CASE Worker = p
      <4>1. PastInv'
        <5> SUFFICES ASSUME Current, NEW r \in Balances!Readers, reader'[r].account = job.account,
                            reader'[r].pc \in Reads
                     PROVE  FALSE
          BY <1>3, <3>2 DEF PastInv, Past
        <5>1. job.account = a BY <3>4 DEF WorkerInv, Current, a
        <5>2. reader[r].pc \in Flying BY <3>3 DEF Reads, Flying
        <5> QED BY <2>1, <3>3, <5>1, <5>2
      <4>2. ~Ended' BY <1>7, <1>11, <3>4 DEF Ended
      <4> QED BY <3>1, <4>1, <4>2 DEF ReadingsInv
    <3>5. CASE Worker # p
      <4>1. reader'[Worker] = reader[Worker] BY <1>4, <1>7, <3>5
      <4>2. Reached' => Reached BY <1>3, <4>1 DEF Reached
      <4>3. Past => Past' BY <1>3, <3>3 DEF Past
      <4>4. PastInv' BY <3>2, <4>2, <4>3 DEF PastInv
      <4>5. ReadingsInv' BY <1>1, <1>3, <3>2, <4>1 DEF ReadingsInv, Ended, Answers
      <4> QED BY <3>1, <4>4, <4>5
    <3> QED BY <3>4, <3>5
  <2>5. Balances!ReadingType' BY <1>1, <1>7, <1>11 DEF Balances!TypeOK, Balances!ReadingType
  <2> QED BY <1>1, <1>4, <2>2, <2>3, <2>4, <2>5, ReadingStep
<1>12. CASE /\ s = "wait"
            /\ reading'[a].key = reading[a].key /\ reading'[a].owner = reading[a].owner
            /\ reading'[a].waiters = reading[a].waiters \cup {p}
            /\ reading' \in [CreditAccounts -> [key : 0..(CreditEvents + 1),
                   owner : Balances!Readers,
                                                waiters : SUBSET Balances!Readers]]
  <2>1. ReadersInv'
    <3> SUFFICES ASSUME NEW q \in Balances!Readers PROVE ReaderFits(q)'
      BY DEF ReadersInv
    <3>1. CASE q = p
      BY <1>1, <1>2, <1>3, <1>7, <1>12, <3>1 DEF ReaderFits, Flying, Reads, a
    <3>2. CASE q # p
      <4>1. reader'[q] = reader[q] /\ ReaderFits(q) BY <1>7, <3>2 DEF ReadersInv
      <4>2. reader[q].pc \in Flying =>
              /\ reading'[reader[q].account].owner = reading[reader[q].account].owner
              /\ reading'[reader[q].account].key = reading[reader[q].account].key
        BY <1>10, <1>12, <4>1 DEF ReaderFits, Flying
      <4>3. q \in overtaken /\ reader[q].pc \in Reads =>
              \/ revision[reader[q].account] = 0
              \/ revision[reader[q].account] > reader[q].revision
        BY <4>1 DEF ReaderFits
      <4> QED BY <1>1, <1>3, <1>4, <4>1, <4>2, <4>3, ReaderKept
    <3> QED BY <3>1, <3>2
  <2>2. WaitersInv'
    <3> SUFFICES ASSUME NEW b \in CreditAccounts, NEW q \in reading'[b].waiters
                 PROVE  reader'[q].pc = "wait" /\ reader'[q].account = b
      BY DEF WaitersInv
    <3>1. CASE q = p
      <4>1. b = a BY <1>9, <1>10, <3>1
      <4> QED BY <1>7, <1>12, <3>1, <4>1
    <3>2. CASE q # p
      <4>1. q \in reading[b].waiters BY <1>10, <1>12, <3>2
      <4>2. q \in Balances!Readers BY <4>1, CreditShapes
      <4> QED BY <1>7, <3>2, <4>1, <4>2 DEF WaitersInv
    <3> QED BY <3>1, <3>2
  <2>3. WorkerInv'
    <3>1. CASE Worker = p
      <4>1. job # Balances!NoJob
        <5>1. Balances!NoReading.pc = "idle" BY DEF Balances!NoReading
        <5> QED BY <1>1, <3>1, <5>1 DEF WorkerInv
      <4> QED BY <1>3, <1>7, <1>12, <3>1, <4>1 DEF WorkerInv, a
    <3>2. CASE Worker # p
      <4>1. reader'[Worker] = reader[Worker] BY <1>4, <1>7, <3>2
      <4> QED BY <1>3, <4>1 DEF WorkerInv
    <3> QED BY <3>1, <3>2
  <2>4. Current' <=> Current BY <1>3 DEF Current
  <2>5. \A r \in Balances!Readers : reader'[r].pc \in Reads => reader'[r] = reader[r]
    BY <1>7, <1>12 DEF Reads
  <2>6. Reached' => Reached
    <3>1. CASE Worker = p BY <1>3, <1>7, <1>12, <3>1 DEF Reached, Flying
    <3>2. CASE Worker # p BY <1>3, <1>4, <1>7, <3>2 DEF Reached
    <3> QED BY <3>1, <3>2
  <2>7. Past => Past' BY <1>3, <2>5 DEF Past
  <2>8. PastInv' BY <2>4, <2>6, <2>7 DEF PastInv
  <2>9. Ended' => Ended
    <3>1. CASE Worker = p BY <1>7, <1>12, <3>1 DEF Ended
    <3>2. CASE Worker # p BY <1>3, <1>4, <1>7, <3>2 DEF Ended
    <3> QED BY <3>1, <3>2
  <2>10. ReadingsInv' BY <1>1, <1>3, <2>4, <2>9 DEF ReadingsInv, Answers
  <2>11. Balances!ReadingType' BY <1>1, <1>7, <1>12 DEF Balances!TypeOK, Balances!ReadingType
  <2> QED BY <1>1, <1>4, <2>1, <2>2, <2>3, <2>8, <2>10, <2>11, ReadingStep
<1>13. reader'[p].pc = s BY <1>7
<1>14. reading \in [CreditAccounts -> [key : 0..(CreditEvents + 1), owner : Balances!Readers,
                                       waiters : SUBSET Balances!Readers]]
  BY DEF Balances!TypeOK, Balances!ReadingType
<1>15. CASE /\ reading[a] = Balances!NoFlight
            /\ reading' = [reading EXCEPT ![a] =
                    [key |-> reader[p].manager, owner |-> p, waiters |-> {}]]
            /\ reader' = [reader EXCEPT ![p].pc = "enter"]
  <2>1. s = "enter"
    <3>1. [reader[p] EXCEPT !.pc = "enter"].pc = "enter" BY <1>5, PcSet DEF Pcs
    <3> QED BY <1>5, <1>13, <1>15, <3>1
  <2>2. [key |-> reader[p].manager, owner |-> p, waiters |-> {}]
            \in [key : 0..(CreditEvents + 1), owner : Balances!Readers,
                waiters : SUBSET Balances!Readers]
    <3>1. reader[p].manager \in 0..(CreditEvents + 1) BY <1>5 DEF Balances!ReaderStates
    <3> QED BY <3>1
  <2>3. /\ reading'[a] = [key |-> reader[p].manager, owner |-> p, waiters |-> {}]
        /\ reading' \in [CreditAccounts -> [key : 0..(CreditEvents + 1), owner : Balances!Readers,
                                            waiters : SUBSET Balances!Readers]]
    BY <1>2, <1>14, <1>15, <2>2
  <2> QED BY <1>11, <1>15, <2>1, <2>3
<1>16. CASE /\ reading' = [reading EXCEPT ![a].waiters = @ \cup {p}]
            /\ reader' = [reader EXCEPT ![p].pc = "wait"]
  <2>1. s = "wait"
    <3>1. [reader[p] EXCEPT !.pc = "wait"].pc = "wait" BY <1>5, PcSet DEF Pcs
    <3> QED BY <1>5, <1>13, <1>16, <3>1
  <2>2. /\ reading'[a].key = reading[a].key /\ reading'[a].owner = reading[a].owner
        /\ reading'[a].waiters = reading[a].waiters \cup {p}
    BY <1>2, <1>8, <1>14, <1>16
  <2>3. reading' \in [CreditAccounts -> [key : 0..(CreditEvents + 1), owner : Balances!Readers,
                                         waiters : SUBSET Balances!Readers]]
    BY <1>2, <1>8, <1>14, <1>16
  <2> QED BY <1>12, <2>1, <2>2, <2>3
<1> QED BY <1>1, <1>15, <1>16 DEF a

\* The worker's wait is cut short.
LEMMA CancelledKeeps ==
    ASSUME CreditBounds, CreditInv, NEW p \in Balances!Readers, Balances!Cancelled(p)
    PROVE  CreditInv'
<1> USE DEF CreditInv
<1> DEFINE a == reader[p].account
<1>1. /\ p = Worker /\ reader[p].pc \in {"gate", "wait"}
      /\ reader' = [reader EXCEPT ![p].pc = "ran", ![p].found = "cut"]
      /\ reading' = [reading EXCEPT ![a].waiters = @ \ {p}]
      /\ UNCHANGED <<Balances!others, creditState, creditGuard, lock, overtaken>>
  BY DEF Balances!Cancelled
<1>2. /\ creditEvents' \in 0..CreditEvents /\ creditEvents' >= creditEvents /\
             creditEvents' \in Nat
      /\ creditRevision \in Nat
  <2>1. creditEvents \in 0..CreditEvents /\ creditEvents >= creditEvents /\
            creditEvents \in Nat /\ creditRevision \in Nat
    BY CreditShapes DEF Balances!TypeOK
  <2> QED BY <2>1, EventCounts DEF Balances!Cancelled
<1>3. UNCHANGED <<manager, revision, creditRevision, worker, job>>
  BY <1>1, OthersUnchanged
<1>4. a \in CreditAccounts /\ ReaderFits(p) BY <1>1 DEF ReadersInv, ReaderFits
<1>5. reader[p] \in Balances!ReaderStates /\
          reader \in [Balances!Readers -> Balances!ReaderStates]
  BY CreditShapes DEF Balances!TypeOK, Balances!ReadingType
<1>6. /\ reader' \in [Balances!Readers -> Balances!ReaderStates]
      /\ reader'[p].pc = "ran" /\ reader'[p].account = a /\ reader'[p].found = "cut"
      /\ reader'[p].manager = reader[p].manager /\ reader'[p].floor = reader[p].floor
      /\ reader'[p].revision = reader[p].revision
      /\ \A q \in Balances!Readers \ {p} : reader'[q] = reader[q]
  <2> DEFINE d == EndsWith(reader[p], "ran", "cut")
  <2>1. "ran" \in Pcs /\ "cut" \in Founds BY DEF Pcs, Founds
  <2>2. /\ d \in Balances!ReaderStates /\ d.pc = "ran" /\ d.account = a /\ d.found = "cut"
        /\ d.manager = reader[p].manager /\ d.floor = reader[p].floor
        /\ d.revision = reader[p].revision
    BY <1>5, <2>1, EndsWithFields
  <2>3. reader' = [reader EXCEPT ![p] = d] BY <1>1, <1>5 DEF EndsWith
  <2> HIDE DEF d, a
  <2> QED BY <1>5, <2>2, <2>3
<1> HIDE DEF a
<1>7. /\ reading' \in [CreditAccounts -> [key : 0..(CreditEvents + 1), owner : Balances!Readers,
                                          waiters : SUBSET Balances!Readers]]
      /\ \A b \in CreditAccounts :
            /\ reading'[b].key = reading[b].key /\ reading'[b].owner = reading[b].owner
            /\ reading'[b].waiters \subseteq reading[b].waiters
      /\ p \notin reading'[a].waiters
  <2>1. reading \in [CreditAccounts -> [key : 0..(CreditEvents + 1), owner : Balances!Readers,
                                        waiters : SUBSET Balances!Readers]]
    BY DEF Balances!TypeOK, Balances!ReadingType
  <2>2. reading[a] \in [key : 0..(CreditEvents + 1), owner : Balances!Readers,
            waiters : SUBSET Balances!Readers]
    BY <1>4, <2>1
  <2>3. /\ reading'[a].key = reading[a].key /\ reading'[a].owner = reading[a].owner
        /\ reading'[a].waiters = reading[a].waiters \ {p}
    BY <1>1, <1>4, <2>1, <2>2
  <2>4. \A b \in CreditAccounts \ {a} : reading'[b] = reading[b] BY <1>1, <2>1
  <2>5. reading' \in [CreditAccounts -> [key : 0..(CreditEvents + 1), owner : Balances!Readers,
                                         waiters : SUBSET Balances!Readers]]
    BY <1>1, <1>4, <2>1, <2>2
  <2> QED BY <2>3, <2>4, <2>5
<1>8. ReadersInv'
  <2> SUFFICES ASSUME NEW q \in Balances!Readers PROVE ReaderFits(q)'
    BY DEF ReadersInv
  <2>1. CASE q = p
    <3>1. /\ reader[p].manager \in 1..(creditEvents + 1) /\ reader[p].revision <= creditRevision
          /\ p \in Timers => reader[p].floor = 0
      BY <1>1, <1>4 DEF ReaderFits
    <3>2. reader[p].manager \in 1..(creditEvents' + 1) BY <1>2, <3>1, CreditShapes
    <3> QED BY <1>3, <1>4, <1>6, <2>1, <3>1, <3>2 DEF ReaderFits, Flying, Reads
  <2>2. CASE q # p
    <3>1. reader'[q] = reader[q] /\ ReaderFits(q) BY <1>6, <2>2 DEF ReadersInv
    <3>2. reader[q].pc \in Flying =>
            /\ reading'[reader[q].account].owner = reading[reader[q].account].owner
            /\ reading'[reader[q].account].key = reading[reader[q].account].key
      BY <1>7, <3>1 DEF ReaderFits, Flying
    <3>3. q \in overtaken /\ reader[q].pc \in Reads =>
            \/ revision[reader[q].account] = 0
            \/ revision[reader[q].account] > reader[q].revision
      BY <3>1 DEF ReaderFits
    <3>4. creditRevision >= creditRevision BY <1>2
    <3> QED BY <1>1, <1>2, <1>3, <3>1, <3>2, <3>3, <3>4, ReaderKept
  <2> QED BY <2>1, <2>2
<1>9. WaitersInv'
  <2> SUFFICES ASSUME NEW b \in CreditAccounts, NEW q \in reading'[b].waiters
               PROVE  reader'[q].pc = "wait" /\ reader'[q].account = b
    BY DEF WaitersInv
  <2>1. q \in reading[b].waiters BY <1>7
  <2>2. q \in Balances!Readers /\ reader[q].pc = "wait" /\ reader[q].account = b
    BY <2>1, CreditShapes DEF WaitersInv
  <2>3. q # p BY <1>7, <2>2 DEF a
  <2> QED BY <1>6, <2>2, <2>3
<1>10. job # Balances!NoJob
  <2>1. Balances!NoReading.pc = "idle" BY DEF Balances!NoReading
  <2> QED BY <1>1, <2>1 DEF WorkerInv
<1>11. WorkerInv' BY <1>1, <1>3, <1>6, <1>10 DEF WorkerInv, a
<1>12. PastInv'
  <2>1. \A r \in Balances!Readers : reader'[r].pc \in Reads => reader'[r] = reader[r]
    BY <1>6 DEF Reads
  <2>2. Reached' => Reached BY <1>1, <1>3, <1>6 DEF Reached, Flying
  <2>3. Current' => Current BY <1>3 DEF Current
  <2>4. Past => Past' BY <1>3, <2>1 DEF Past
  <2> QED BY <2>2, <2>3, <2>4 DEF PastInv
<1>13. ~Ended' BY <1>1, <1>6 DEF Ended
<1>14. ReadingsInv' BY <1>13 DEF ReadingsInv
<1>15. Balances!ReadingType' BY <1>1, <1>6, <1>7 DEF Balances!TypeOK, Balances!ReadingType
<1> QED BY <1>1, <1>2, <1>8, <1>9, <1>11, <1>12, <1>14, <1>15, ReadingStep

\* What guards the maintenance of an account.
GuardType == creditGuard \in [CreditAccounts -> {"", "paused", "retry", "login"}] /\
    lock \in BOOLEAN

\* A flight ends.
LEMMA LandStep ==
    ASSUME CreditBounds, CreditInv, NEW p \in Balances!Readers, NEW result \in {"read", "cut"},
           reader[p].pc \in Flying, Balances!Land(p, result), Notes(p), UNCHANGED Balances!others,
           creditEvents' \in 0..CreditEvents, creditEvents' >= creditEvents,
           GuardType',
           result = "read" =>
              \/ /\ reader[p].pc \in Reads
                 /\ creditState'[reader[p].account] =
                        [manager |-> reader[p].manager, revision |-> reader[p].revision]
              \/ /\ reader[p].floor > 0 /\ creditState' = creditState
                 /\ Balances!Settled(reader[p].account, reader[p].manager, reader[p].floor)
    PROVE  CreditInv'
<1> USE DEF CreditInv
<1>1. UNCHANGED <<manager, revision, creditRevision, worker, job>> BY OthersUnchanged
<1>2. creditEvents' \in Nat /\ creditEvents \in Nat BY DEF CreditBounds, Balances!TypeOK
<1>3. /\ reader' \in [Balances!Readers -> Balances!ReaderStates]
      /\ reading' \in [CreditAccounts -> [key : 0..(CreditEvents + 1), owner : Balances!Readers,
                                          waiters : SUBSET Balances!Readers]]
      /\ overtaken' \subseteq Balances!Readers
      /\ ReadersInv' /\ WaitersInv' /\ WorkerInv' /\ PastInv' /\ ReadingsInv'
  BY <1>1, <1>2, LandKeeps
<1>4. creditState' \in [CreditAccounts -> [manager : 0..(CreditEvents + 1),
          revision : 0..CreditEvents]]
  <2>1. creditState \in [CreditAccounts -> [manager : 0..(CreditEvents + 1),
            revision : 0..CreditEvents]]
    BY DEF Balances!TypeOK, Balances!ReadingType
  <2>2. CASE creditState' = creditState BY <2>1, <2>2
  <2>3. CASE /\ creditState' = [creditState EXCEPT ![reader[p].account] =
                   [manager |-> manager[reader[p].account], revision |-> reader[p].revision]]
             /\ manager[reader[p].account] = reader[p].manager
    <3>1. reader[p] \in Balances!ReaderStates BY CreditShapes
    <3>2. reader[p].manager \in 0..(CreditEvents + 1) /\ reader[p].revision \in 0..CreditEvents
      BY <3>1 DEF Balances!ReaderStates
    <3> QED BY <2>1, <2>3, <3>2
  <2> QED BY <2>2, <2>3 DEF Notes
<1>5. Balances!ReadingType' BY <1>3, <1>4 DEF Balances!ReadingType, GuardType
<1> QED BY <1>3, <1>5, ReadingStep

\* A reading goes on.
LEMMA MoveStep ==
    ASSUME CreditBounds, CreditInv, NEW p \in Balances!Readers, reader[p].pc \in Flying,
           UNCHANGED <<Balances!others, reading>>, Notes(p), overtaken' \subseteq overtaken,
           creditEvents' \in 0..CreditEvents, creditEvents' >= creditEvents,
           GuardType',
           NEW d \in Balances!ReaderStates, reader' = [reader EXCEPT ![p] = d],
           /\ d.account = reader[p].account /\ d.manager = reader[p].manager
           /\ d.floor = reader[p].floor /\ d.pc \in Reads,
           \/ reader[p].pc \in Reads /\ d.revision = reader[p].revision
           \/ d.revision = revision[reader[p].account] /\ p \notin overtaken',
           d.pc = "apply" => creditState'[d.account] =
                                [manager |-> d.manager, revision |-> d.revision]
    PROVE  CreditInv'
<1> USE DEF CreditInv
<1>1. UNCHANGED <<manager, revision, creditRevision, worker, job>> BY OthersUnchanged
<1>2. creditEvents' \in Nat /\ creditEvents \in Nat BY DEF CreditBounds, Balances!TypeOK
<1>3. /\ reader' \in [Balances!Readers -> Balances!ReaderStates] /\ reader'[p] = d
      /\ \A q \in Balances!Readers \ {p} : reader'[q] = reader[q]
  BY DEF Balances!TypeOK, Balances!ReadingType
<1>4. ReaderFits(p) BY DEF ReadersInv
<1>5. reader[p].account \in CreditAccounts /\ reader[p].manager \in 1..(creditEvents + 1)
  BY <1>4 DEF ReaderFits, Flying
<1>6. WorkerInv' /\ PastInv' /\ ReadingsInv'
  BY <1>1, <1>3, MoveKeeps
<1>7. ReaderFits(p)'
  <2>1. reader[p].manager \in 1..(creditEvents' + 1) BY <1>2, <1>5
  <2>2. d.revision <= creditRevision
    <3>1. reader[p].revision <= creditRevision BY <1>4 DEF ReaderFits
    <3>2. revision[reader[p].account] \in 0..creditRevision BY <1>5 DEF Balances!TypeOK,
                                                               Balances!PoolType
    <3>3. creditRevision \in Nat BY CreditShapes
    <3>4. CASE d.revision = reader[p].revision BY <3>1, <3>4
    <3>5. CASE d.revision = revision[reader[p].account] BY <3>2, <3>3, <3>5
    <3> QED BY <3>4, <3>5
  <2>3. /\ d.pc # "idle"
        /\ p \in Timers => d.floor = 0
        /\ reading[d.account].owner = p /\ reading[d.account].key = d.manager
    BY <1>4 DEF ReaderFits, Reads
  <2>4. p \in overtaken' => revision[d.account] = 0 \/ revision[d.account] > d.revision
    BY <1>4 DEF ReaderFits
  <2> QED BY <1>1, <1>3, <1>5, <2>1, <2>2, <2>3, <2>4 DEF ReaderFits
<1>8. ReadersInv' /\ WaitersInv'
  <2>1. reader[p].pc # "wait" BY DEF Flying
  <2>2. \/ creditState' = creditState
        \/ \A b \in CreditAccounts \ {reader[p].account} : creditState'[b] = creditState[b]
    BY <1>5 DEF Notes, Balances!TypeOK, Balances!ReadingType
  <2> QED BY <1>1, <1>2, <1>3, <1>7, <2>1, <2>2, OthersKept
<1>9. creditState' \in [CreditAccounts -> [manager : 0..(CreditEvents + 1),
          revision : 0..CreditEvents]]
  <2>1. creditState \in [CreditAccounts -> [manager : 0..(CreditEvents + 1),
            revision : 0..CreditEvents]]
    BY DEF Balances!TypeOK, Balances!ReadingType
  <2>2. CASE creditState' = creditState BY <2>1, <2>2
  <2>3. CASE /\ creditState' = [creditState EXCEPT ![reader[p].account] =
                   [manager |-> manager[reader[p].account], revision |-> reader[p].revision]]
             /\ manager[reader[p].account] = reader[p].manager
    <3>1. reader[p] \in Balances!ReaderStates BY CreditShapes
    <3>2. reader[p].manager \in 0..(CreditEvents + 1) /\ reader[p].revision \in 0..CreditEvents
      BY <3>1 DEF Balances!ReaderStates
    <3> QED BY <2>1, <2>3, <3>2
  <2> QED BY <2>2, <2>3 DEF Notes
<1>10. Balances!ReadingType'
  <2>1. overtaken' \subseteq Balances!Readers /\ reading' = reading BY DEF Balances!TypeOK,
                                                                       Balances!ReadingType
  <2> QED BY <1>3, <1>9, <2>1 DEF Balances!TypeOK, Balances!ReadingType, GuardType
<1> QED BY <1>6, <1>8, <1>10, ReadingStep

LEMMA GuardKept ==
    ASSUME Balances!TypeOK, UNCHANGED <<creditGuard, lock>>
    PROVE  GuardType'
BY DEF Balances!TypeOK, Balances!ReadingType, GuardType

LEMMA FailureGuards ==
    ASSUME Balances!TypeOK, NEW a \in CreditAccounts, Balances!Failure(a)
    PROVE  creditGuard' \in [CreditAccounts -> {"", "paused", "retry", "login"}]
<1>1. PICK kind \in {"paused", "login"} :
            creditGuard' = [creditGuard EXCEPT ![a] = IF @ = "login" THEN @ ELSE kind]
  BY DEF Balances!Failure
<1>2. creditGuard \in [CreditAccounts -> {"", "paused", "retry", "login"}]
  BY DEF Balances!TypeOK, Balances!ReadingType
<1>3. (IF creditGuard[a] = "login" THEN creditGuard[a] ELSE kind) \in {"", "paused", "retry",
          "login"}
  BY <1>2
<1> QED BY <1>1, <1>2, <1>3

LEMMA EnterKeeps ==
    ASSUME CreditBounds, CreditInv, NEW p \in Balances!Readers, Balances!Enter(p)
    PROVE  CreditInv'
<1> USE DEF CreditInv
<1> DEFINE a == reader[p].account
           settled == /\ reader[p].floor > 0
                      /\ Balances!Settled(a, reader[p].manager, reader[p].floor)
<1>1. /\ reader[p].pc = "enter"
      /\ UNCHANGED <<Balances!others, creditEvents, creditState, creditGuard, lock>>
      /\ \/ Balances!Land(p, "cut")
         \/ settled /\ Balances!Land(p, "read")
         \/ /\ reader' = [reader EXCEPT ![p].pc = "query", ![p].revision = revision[a]]
            /\ overtaken' = overtaken \ {p} /\ UNCHANGED reading
  BY DEF Balances!Enter
<1>2. reader[p].pc \in Flying /\ reader[p].account \in CreditAccounts
  BY <1>1 DEF Flying, ReadersInv, ReaderFits
<1>3. creditEvents' \in 0..CreditEvents /\ creditEvents' >= creditEvents BY <1>1,
                                                                            CreditShapes
                                                                            DEF Balances!TypeOK
<1>4. GuardType' /\ Notes(p) BY <1>1, GuardKept DEF Notes
<1>5. CASE Balances!Land(p, "cut")
  <2>1. "cut" \in {"read", "cut"} /\ "cut" # "read" OBVIOUS
  <2> QED BY <1>1, <1>2, <1>3, <1>4, <1>5, <2>1, LandStep
<1>6. CASE settled /\ Balances!Land(p, "read")
  <2>1. "read" \in {"read", "cut"} OBVIOUS
  <2> QED BY <1>1, <1>2, <1>3, <1>4, <1>6, <2>1, LandStep
<1>7. CASE /\ reader' = [reader EXCEPT ![p].pc = "query", ![p].revision = revision[a]]
           /\ overtaken' = overtaken \ {p} /\ UNCHANGED reading
  <2>1. reader[p] \in Balances!ReaderStates /\
            reader \in [Balances!Readers -> Balances!ReaderStates]
    BY CreditShapes DEF Balances!TypeOK, Balances!ReadingType
  <2>2. "query" \in Pcs /\ "query" \in Reads /\ "query" # "apply" BY DEF Pcs, Reads
  <2>3. revision[a] \in 0..CreditEvents
    <3>1. revision[a] \in 0..creditRevision BY <1>2 DEF Balances!TypeOK, Balances!PoolType
    <3>2. creditRevision \in Nat /\ creditRevision <= CreditEvents /\ CreditEvents \in Nat
      BY CreditShapes
    <3> QED BY <3>1, <3>2
  <2> DEFINE d == ReadsFrom(reader[p], "query", revision[a])
  <2>4. /\ d \in Balances!ReaderStates /\ d.pc = "query" /\ d.revision = revision[a]
        /\ d.account = a /\ d.manager = reader[p].manager /\ d.floor = reader[p].floor
    BY <2>1, <2>2, <2>3, ReadsFromFields
  <2>5. reader' = [reader EXCEPT ![p] = d] BY <1>7, <2>1 DEF ReadsFrom
  <2>6. p \notin overtaken' /\ overtaken' \subseteq overtaken BY <1>7
  <2>7. UNCHANGED <<Balances!others, reading>> BY <1>1, <1>7
  <2> HIDE DEF d
  <2> QED BY <1>2, <1>3, <1>4, <2>2, <2>4, <2>5, <2>6, <2>7, MoveStep
<1> QED BY <1>1, <1>5, <1>6, <1>7

LEMMA QueryKeeps ==
    ASSUME CreditBounds, CreditInv, NEW p \in Balances!Readers, Balances!Query(p)
    PROVE  CreditInv'
<1> USE DEF CreditInv
<1> DEFINE a == reader[p].account
<1>1. /\ reader[p].pc = "query" /\ UNCHANGED <<Balances!others, creditState, lock>>
      /\ \/ /\ \E found \in {"credit", "none"} :
                  reader' = [reader EXCEPT ![p].pc = "record", ![p].found = found]
            /\ UNCHANGED <<creditEvents, reading, overtaken, creditGuard>>
         \/ /\ Balances!Event
            /\ reader' = [reader EXCEPT ![p].pc = "record", ![p].found = "failed"]
            /\ UNCHANGED <<reading, overtaken, creditGuard>>
         \/ /\ Balances!Event /\ Balances!Land(p, "cut")
            /\ UNCHANGED creditGuard \/ Balances!Failure(a)
  BY DEF Balances!Query
<1>2. reader[p].pc \in Flying /\ reader[p].account \in CreditAccounts /\ reader[p].pc \in Reads
  BY <1>1 DEF Flying, Reads, ReadersInv, ReaderFits
<1>3. creditEvents' \in 0..CreditEvents /\ creditEvents' >= creditEvents
  <2>1. creditEvents \in 0..CreditEvents /\ creditEvents >= creditEvents BY CreditShapes
                                                                            DEF Balances!TypeOK
  <2> QED BY <1>1, <2>1, EventCounts
<1>4. Notes(p) BY <1>1 DEF Notes
<1>5. GuardType'
  <2>1. creditGuard' \in [CreditAccounts -> {"", "paused", "retry", "login"}]
    BY <1>1, <1>2, FailureGuards DEF Balances!TypeOK, Balances!ReadingType
  <2> QED BY <1>1, <2>1 DEF GuardType, Balances!TypeOK, Balances!ReadingType
<1>6. CASE Balances!Land(p, "cut")
  <2>1. "cut" \in {"read", "cut"} /\ "cut" # "read" OBVIOUS
  <2> QED BY <1>1, <1>2, <1>3, <1>4, <1>5, <1>6, <2>1, LandStep
<1>7. CASE /\ \E found \in Founds :
                  reader' = [reader EXCEPT ![p].pc = "record", ![p].found = found]
           /\ UNCHANGED <<reading, overtaken>>
  <2>1. PICK found \in Founds :
            reader' = [reader EXCEPT ![p].pc = "record", ![p].found = found]
    BY <1>7
  <2>2. reader[p] \in Balances!ReaderStates /\
            reader \in [Balances!Readers -> Balances!ReaderStates]
    BY CreditShapes DEF Balances!TypeOK, Balances!ReadingType
  <2>3. "record" \in Pcs /\ "record" \in Reads /\ "record" # "apply" BY DEF Pcs, Reads
  <2> DEFINE d == EndsWith(reader[p], "record", found)
  <2>4. /\ d \in Balances!ReaderStates /\ d.pc = "record" /\ d.revision = reader[p].revision
        /\ d.account = a /\ d.manager = reader[p].manager /\ d.floor = reader[p].floor
    BY <2>2, <2>3, EndsWithFields
  <2>5. reader' = [reader EXCEPT ![p] = d] BY <2>1, <2>2 DEF EndsWith
  <2>6. UNCHANGED <<Balances!others, reading>> /\ overtaken' \subseteq overtaken BY <1>1, <1>7
  <2> HIDE DEF d
  <2> QED BY <1>2, <1>3, <1>4, <1>5, <2>3, <2>4, <2>5, <2>6, MoveStep
<1>8. {"credit", "none"} \subseteq Founds /\ "failed" \in Founds BY DEF Founds
<1> QED BY <1>1, <1>6, <1>7, <1>8

LEMMA RecordKeeps ==
    ASSUME CreditBounds, CreditInv, NEW p \in Balances!Readers, Balances!Record(p)
    PROVE  CreditInv'
<1> USE DEF CreditInv
<1> DEFINE a == reader[p].account
           noted == [manager |-> manager[a], revision |-> reader[p].revision]
<1>1. /\ reader[p].pc = "record" /\ UNCHANGED <<Balances!others, creditEvents>>
      /\ \/ Balances!Land(p, "cut") /\ UNCHANGED <<creditState, creditGuard, lock>>
         \/ /\ manager[a] = reader[p].manager
            /\ creditState' = [creditState EXCEPT ![a] = noted]
            /\ \/ Balances!Failure(a) /\ Balances!Land(p, "read") /\ UNCHANGED lock
               \/ /\ creditGuard' = [creditGuard EXCEPT ![a] = IF @ = "login" THEN @ ELSE ""]
                  /\ lock' = TRUE
                  /\ reader' = [reader EXCEPT ![p].pc = "apply"]
                  /\ UNCHANGED <<reading, overtaken>>
  BY DEF Balances!Record
<1>2. reader[p].pc \in Flying /\ reader[p].account \in CreditAccounts /\ reader[p].pc \in Reads
  BY <1>1 DEF Flying, Reads, ReadersInv, ReaderFits
<1>3. creditEvents' \in 0..CreditEvents /\ creditEvents' >= creditEvents
  <2>1. creditEvents \in 0..CreditEvents /\ creditEvents >= creditEvents BY CreditShapes
                                                                            DEF Balances!TypeOK
  <2>2. creditEvents' = creditEvents BY <1>1
  <2> QED BY <2>1, <2>2
<1>4. CASE Balances!Land(p, "cut") /\ UNCHANGED <<creditState, creditGuard, lock>>
  <2>1. "cut" \in {"read", "cut"} /\ "cut" # "read" OBVIOUS
  <2>2. GuardType' /\ Notes(p) BY <1>4, GuardKept DEF Notes
  <2> QED BY <1>1, <1>2, <1>3, <1>4, <2>1, <2>2, LandStep
<1>5. ASSUME manager[a] = reader[p].manager, creditState' = [creditState EXCEPT ![a] = noted]
      PROVE  /\ Notes(p)
             /\ creditState'[a] = [manager |-> reader[p].manager, revision |-> reader[p].revision]
  <2>1. Notes(p) BY <1>2, <1>5 DEF Notes
  <2>2. creditState'[a] = noted BY <1>2, <1>5 DEF Balances!TypeOK, Balances!ReadingType
  <2> QED BY <1>5, <2>1, <2>2
<1>6. CASE /\ manager[a] = reader[p].manager
           /\ creditState' = [creditState EXCEPT ![a] = noted]
           /\ Balances!Failure(a) /\ Balances!Land(p, "read") /\ UNCHANGED lock
  <2>1. "read" \in {"read", "cut"} OBVIOUS
  <2>2. Notes(p) /\ creditState'[a] = [manager |-> reader[p].manager, revision |-> reader[p].revision]
    BY <1>5, <1>6
  <2>3. GuardType' BY <1>2, <1>6, FailureGuards DEF GuardType, Balances!TypeOK,
                      Balances!ReadingType
  <2> QED BY <1>1, <1>2, <1>3, <1>6, <2>1, <2>2, <2>3, LandStep
<1>7. CASE /\ manager[a] = reader[p].manager
           /\ creditState' = [creditState EXCEPT ![a] = noted]
           /\ creditGuard' = [creditGuard EXCEPT ![a] = IF @ = "login" THEN @ ELSE ""]
           /\ lock' = TRUE
           /\ reader' = [reader EXCEPT ![p].pc = "apply"]
           /\ UNCHANGED <<reading, overtaken>>
  <2>1. Notes(p) /\ creditState'[a] = [manager |-> reader[p].manager, revision |-> reader[p].revision]
    BY <1>5, <1>7
  <2>2. GuardType'
    <3>1. creditGuard \in [CreditAccounts -> {"", "paused", "retry", "login"}]
      BY DEF Balances!TypeOK, Balances!ReadingType
    <3>2. (IF creditGuard[a] = "login" THEN creditGuard[a] ELSE "") \in {"", "paused", "retry",
              "login"}
      OBVIOUS
    <3>3. creditGuard' \in [CreditAccounts -> {"", "paused", "retry", "login"}]
      BY <1>7, <3>1, <3>2
    <3>4. lock' \in BOOLEAN BY <1>7
    <3> QED BY <3>3, <3>4 DEF GuardType
  <2>3. reader[p] \in Balances!ReaderStates /\
            reader \in [Balances!Readers -> Balances!ReaderStates]
    BY CreditShapes DEF Balances!TypeOK, Balances!ReadingType
  <2>4. "apply" \in Pcs /\ "apply" \in Reads BY DEF Pcs, Reads
  <2> DEFINE d == [reader[p] EXCEPT !.pc = "apply"]
  <2>5. /\ d \in Balances!ReaderStates /\ d.pc = "apply" /\ d.revision = reader[p].revision
        /\ d.account = a /\ d.manager = reader[p].manager /\ d.floor = reader[p].floor
    BY <2>3, <2>4, PcSet
  <2>6. reader' = [reader EXCEPT ![p] = d] BY <1>7, <2>3
  <2>7. UNCHANGED <<Balances!others, reading>> /\ overtaken' \subseteq overtaken BY <1>1, <1>7
  <2> HIDE DEF d
  <2> QED BY <1>2, <1>3, <2>1, <2>2, <2>4, <2>5, <2>6, <2>7, MoveStep
<1> QED BY <1>1, <1>4, <1>6, <1>7

\* A reading lifts at most the cooldown of the rejection it began after.
LEMMA ApplyKeeps ==
    ASSUME CreditBounds, CreditInv, NEW p \in Balances!Readers, Balances!Apply(p)
    PROVE  CreditInv'
<1> USE DEF CreditInv
<1> DEFINE a == reader[p].account
<1>1. /\ reader[p].pc = "apply" /\ lock' = FALSE /\ Balances!Land(p, "read")
      /\ UNCHANGED <<clock, creditEvents, manager, other, revision, creditRevision,
                     Balances!queue, call, due, creditState, creditGuard>>
      /\ UNCHANGED <<pending, recent, closed, worker, job>>
      /\ cooldown' = cooldown \/ cooldown' = [cooldown EXCEPT ![a] = other[a]]
  <2>1. cooldown' = cooldown \/ cooldown' = [cooldown EXCEPT ![a] = other[a]]
    <3>1. CASE reader[p].found = "credit"
      <4>1. cooldown' = [cooldown EXCEPT ![a] =
                IF reader[p].revision # 0 /\ revision[a] = reader[p].revision
                THEN other[a] ELSE @]
        BY <3>1 DEF Balances!Apply, Balances!ClearCreditCooldown
      <4>2. [cooldown EXCEPT ![a] = cooldown[a]] = cooldown
        BY DEF Balances!TypeOK, Balances!PoolType
      <4> QED BY <4>1, <4>2
    <3>2. CASE reader[p].found # "credit" BY <3>2 DEF Balances!Apply
    <3> QED BY <3>1, <3>2
  <2> QED BY <2>1 DEF Balances!Apply, Balances!queue
<1>2. /\ reader[p].pc \in Flying /\ reader[p].account \in CreditAccounts /\ reader[p].pc \in Reads
      /\ creditState[a] = [manager |-> reader[p].manager, revision |-> reader[p].revision]
  BY <1>1 DEF Flying, Reads, ReadersInv, ReaderFits
<1>3. creditEvents' \in 0..CreditEvents /\ creditEvents' >= creditEvents /\ creditEvents' \in Nat
  BY <1>1, CreditShapes DEF Balances!TypeOK
<1>4. Notes(p) BY <1>1 DEF Notes
<1>5. "read" \in {"read", "cut"} OBVIOUS
<1>6. /\ reader' \in [Balances!Readers -> Balances!ReaderStates]
      /\ reading' \in [CreditAccounts -> [key : 0..(CreditEvents + 1), owner : Balances!Readers,
                                          waiters : SUBSET Balances!Readers]]
      /\ overtaken' \subseteq Balances!Readers
      /\ ReadersInv' /\ WaitersInv' /\ WorkerInv' /\ PastInv' /\ ReadingsInv'
  BY <1>1, <1>2, <1>3, <1>4, <1>5, LandKeeps
<1>7. /\ \A b \in CreditAccounts : cooldown[b] \in Nat /\ other[b] \in Nat /\
             cooldown[b] >= other[b]
  BY CreditShapes DEF PoolInv
<1>8. /\ cooldown' \in [CreditAccounts -> Nat]
      /\ \A b \in CreditAccounts : cooldown'[b] >= other[b]
  BY <1>1, <1>2, <1>7 DEF Balances!TypeOK, Balances!PoolType
<1>9. Balances!PoolType' BY <1>1, <1>8 DEF Balances!TypeOK, Balances!PoolType
<1>10. PoolInv' BY <1>1, <1>8 DEF PoolInv
<1>11. Balances!QueueType' /\ JobsInv' /\ QueueInv' BY <1>1, <1>3, OutsideKept
<1>12. Balances!ReadingType'
  <2>1. creditState' \in [CreditAccounts -> [manager : 0..(CreditEvents + 1),
            revision : 0..CreditEvents]]
    BY <1>1 DEF Balances!TypeOK, Balances!ReadingType
  <2>2. creditGuard' \in [CreditAccounts -> {"", "paused", "retry", "login"}] /\ lock' \in BOOLEAN
    BY <1>1 DEF Balances!TypeOK, Balances!ReadingType
  <2> QED BY <1>6, <2>1, <2>2 DEF Balances!ReadingType
<1>13. Balances!TypeOK' BY <1>1, <1>9, <1>11, <1>12 DEF Balances!TypeOK
<1> QED BY <1>6, <1>10, <1>11, <1>13

-----------------------------------------------------------------------------
\* Operators and time

\* The queue has closed.
LEMMA ClosedKeeps ==
    ASSUME CreditBounds, CreditInv, Balances!Closed
    PROVE  CreditInv'
<1> USE DEF CreditInv
<1>1. /\ closed = "waiting" /\ closed' = "yes"
      /\ UNCHANGED <<clock, creditEvents, manager, Balances!pool, pending, recent, worker, job,
                     call, Balances!readings, overtaken, due>>
      /\ UNCHANGED <<cooldown, other, revision, creditRevision>>
      /\ UNCHANGED <<reader, reading, creditState, creditGuard, lock>>
  BY DEF Balances!Closed, Balances!pool, Balances!readings
<1>2. clock >= clock /\ creditEvents >= creditEvents /\ clock \in Nat /\ creditEvents \in Nat
  BY CreditShapes
<1>3. \A b \in CreditAccounts : manager[b] \in Nat /\ revision[b] \in Nat /\
          revision[b] >= revision[b]
  BY CreditShapes
<1>4. Balances!PoolType' /\ PoolInv' BY <1>1, <1>2, PoolKept
<1>5. Balances!TypeOK'
  <2>1. Balances!QueueType' BY <1>1 DEF Balances!TypeOK, Balances!QueueType
  <2> QED BY <1>1, <1>4, <2>1, ReadingTypeKept DEF Balances!TypeOK, Balances!ReadingType
<1>6. JobsInv' BY <1>1, <1>2, <1>3, JobsKept
<1>7. QueueInv'
  <2>1. closed' # "no" => pending' = <<>> BY <1>1 DEF QueueInv
  <2>2. Balances!NoLostJob' /\ Balances!OneLiveJob' BY <1>1 DEF QueueInv, Balances!NoLostJob,
                                                       Balances!OneLiveJob
  <2>3. \A i \in DOMAIN pending' : Recorded(pending[i])' BY <1>1 DEF QueueInv, Recorded
  <2>4. RecentInv' BY <1>1 DEF QueueInv, RecentInv
  <2> QED BY <2>1, <2>2, <2>3, <2>4 DEF QueueInv
<1>8. ReadersInv' /\ WaitersInv' BY <1>1, <1>2, ReadingsKept
<1>9. WorkerInv' /\ PastInv' /\ ReadingsInv' BY <1>1, WorkerKept
<1> QED BY <1>4, <1>5, <1>6, <1>7, <1>8, <1>9

\* An upload brings credentials that no job and no reading knows.
LEMMA UploadKeeps ==
    ASSUME CreditBounds, CreditInv, NEW a \in CreditAccounts, Balances!RegisterAuthUpload(a)
    PROVE  CreditInv'
<1> USE DEF CreditInv
<1>1. /\ manager' = [manager EXCEPT ![a] = creditEvents + 2]
      /\ creditGuard' = [creditGuard EXCEPT ![a] = ""]
      /\ UNCHANGED <<clock, Balances!pool, Balances!queue, call, reader, reading, creditState,
             lock,
                     overtaken, due>>
      /\ UNCHANGED <<cooldown, other, revision, creditRevision>>
      /\ UNCHANGED <<pending, recent, closed, worker, job>>
  BY DEF Balances!RegisterAuthUpload, Balances!pool, Balances!queue
<1>2. /\ creditEvents' \in 0..CreditEvents /\ creditEvents' \in Nat /\
             creditEvents' = creditEvents + 1
      /\ creditEvents' >= creditEvents /\ creditEvents + 1 <= CreditEvents
  BY EventCounts DEF Balances!RegisterAuthUpload
<1>3. /\ creditEvents \in Nat /\ clock \in Nat /\ clock >= clock /\ creditRevision \in Nat
      /\ CreditEvents \in Nat
  BY CreditShapes
<1>4. \A b \in CreditAccounts : manager[b] \in Nat /\ manager[b] <= creditEvents + 1
  BY CreditShapes DEF PoolInv
<1>5. creditEvents + 2 \in 0..(CreditEvents + 1) /\ creditEvents + 2 > creditEvents + 1 /\ creditEvents + 2 = creditEvents' + 1
  BY <1>2, <1>3
<1>6. /\ manager' \in [CreditAccounts -> 0..(CreditEvents + 1)] /\ manager'[a] = creditEvents + 2
      /\ \A b \in CreditAccounts \ {a} : manager'[b] = manager[b]
  BY <1>1, <1>5 DEF Balances!TypeOK, Balances!PoolType
<1>7. \A b \in CreditAccounts :
        /\ manager'[b] = manager[b] \/ manager'[b] > creditEvents + 1
        /\ manager'[b] \in Nat /\ manager'[b] <= creditEvents' + 1
  BY <1>2, <1>3, <1>4, <1>5, <1>6
<1>8. Balances!PoolType' BY <1>1, <1>6 DEF Balances!TypeOK, Balances!PoolType
<1>9. PoolInv'
  <2>1. creditRevision <= creditEvents' BY <1>2, <1>3 DEF PoolInv
  <2> QED BY <1>1, <1>7, <2>1 DEF PoolInv
<1>10. Balances!TypeOK'
  <2>1. Balances!QueueType' BY <1>1, QueueTypeKept DEF Balances!TypeOK
  <2>2. creditGuard' \in [CreditAccounts -> {"", "paused", "retry", "login"}]
    BY <1>1 DEF Balances!TypeOK, Balances!ReadingType
  <2>3. Balances!ReadingType' BY <1>1, <2>2 DEF Balances!TypeOK, Balances!ReadingType
  <2> QED BY <1>1, <1>2, <1>8, <2>1, <2>3 DEF Balances!TypeOK
<1>11. JobsInv'
  <2>1. \A b \in CreditAccounts : revision[b] \in Nat /\ revision[b] >= revision[b]
    BY CreditShapes
  <2> QED BY <1>1, <1>2, <1>3, <1>7, <2>1, JobsKept
<1>12. QueueInv' BY <1>1, <1>2, <1>3, <1>7, QueueKept
<1>13. ReadersInv' /\ WaitersInv' BY <1>1, <1>2, ReadingsKept
<1>14. WorkerInv' /\ PastInv' /\ ReadingsInv'
  <2>1. job # Balances!NoJob => job.account \in CreditAccounts /\ job.manager <= creditEvents + 1
        /\ job.manager \in Nat
    BY JobFields DEF Balances!TypeOK, Balances!QueueType, JobsInv, Abreast
  <2>2. job # Balances!NoJob => manager'[job.account] \in {manager[job.account]}
                                \/ manager'[job.account] # job.manager
    BY <1>3, <1>5, <1>6, <2>1
  <2> QED BY <1>1, <2>2, WorkerKept
<1> QED BY <1>9, <1>10, <1>11, <1>12, <1>13, <1>14

\* With its account a rejection is gone; no job is about the next one.
LEMMA DeleteKeeps ==
    ASSUME CreditBounds, CreditInv, NEW a \in CreditAccounts, Balances!DeleteAccount(a)
    PROVE  CreditInv'
<1> USE DEF CreditInv
<1>1. /\ manager' = [manager EXCEPT ![a] = 0]
      /\ cooldown' = [cooldown EXCEPT ![a] = 0] /\ other' = [other EXCEPT ![a] = 0]
      /\ revision' = [revision EXCEPT ![a] = 0] /\ due' = [due EXCEPT ![a] = 0]
      /\ UNCHANGED <<clock, creditRevision, Balances!queue, call, Balances!readings, overtaken>>
      /\ UNCHANGED <<reader, reading, creditState, creditGuard, lock>>
      /\ UNCHANGED <<pending, recent, closed, worker, job>>
  BY DEF Balances!DeleteAccount, Balances!queue, Balances!readings
<1>2. /\ creditEvents' \in 0..CreditEvents /\ creditEvents' \in Nat /\
             creditEvents' = creditEvents + 1
      /\ creditEvents' >= creditEvents /\ creditEvents + 1 <= CreditEvents
  BY EventCounts DEF Balances!DeleteAccount
<1>3. /\ creditEvents \in Nat /\ clock \in Nat /\ clock >= clock /\ creditRevision \in Nat
      /\ CreditEvents \in Nat
  BY CreditShapes
<1>4. \A b \in CreditAccounts : /\ manager[b] \in Nat /\ manager[b] <= creditEvents + 1
                                /\ revision[b] \in Nat /\ revision[b] \in 0..creditRevision
                                /\ cooldown[b] \in Nat /\ other[b] \in Nat /\ due[b] \in Nat
                                /\ cooldown[b] >= other[b] /\ other[b] = due[b]
  BY CreditShapes DEF PoolInv, Balances!TypeOK, Balances!PoolType
<1>5. /\ manager' \in [CreditAccounts -> 0..(CreditEvents + 1)] /\ manager'[a] = 0
      /\ revision' \in [CreditAccounts -> 0..creditRevision] /\ revision'[a] = 0
      /\ \A b \in CreditAccounts \ {a} : manager'[b] = manager[b] /\ revision'[b] = revision[b]
  BY <1>1, <1>3 DEF Balances!TypeOK, Balances!PoolType
<1>6. /\ cooldown' \in [CreditAccounts -> Nat] /\ other' \in [CreditAccounts -> Nat]
      /\ due' \in [CreditAccounts -> Nat]
      /\ \A b \in CreditAccounts : cooldown'[b] >= other'[b] /\ other'[b] = due'[b]
  BY <1>1, <1>4 DEF Balances!TypeOK, Balances!PoolType
<1>7. \A b \in CreditAccounts :
        /\ \/ manager'[b] = 0
           \/ manager'[b] = manager[b] /\ revision'[b] \in Nat /\ revision'[b] >= revision[b]
        /\ manager'[b] \in Nat /\ manager'[b] <= creditEvents' + 1
  BY <1>2, <1>3, <1>4, <1>5
<1>8. Balances!PoolType' BY <1>1, <1>5, <1>6 DEF Balances!TypeOK, Balances!PoolType
<1>9. PoolInv'
  <2>1. creditRevision <= creditEvents' BY <1>2, <1>3 DEF PoolInv
  <2> QED BY <1>1, <1>6, <1>7, <2>1 DEF PoolInv
<1>10. Balances!TypeOK'
  <2>1. Balances!QueueType' BY <1>1, QueueTypeKept DEF Balances!TypeOK
  <2>2. Balances!ReadingType' BY <1>1, ReadingTypeKept DEF Balances!TypeOK, Balances!ReadingType
  <2> QED BY <1>1, <1>2, <1>8, <2>1, <2>2 DEF Balances!TypeOK
<1>11. JobsInv' BY <1>1, <1>2, <1>3, <1>7, JobsKept
<1>12. QueueInv' BY <1>1, <1>2, <1>3, <1>7, QueueKept
<1>13. ReadersInv'
  <2> SUFFICES ASSUME NEW q \in Balances!Readers PROVE ReaderFits(q)'
    BY DEF ReadersInv
  <2>1. ReaderFits(q) BY DEF ReadersInv
  <2>2. reader[q].pc \in Reads => reader[q].account \in CreditAccounts
    BY <2>1 DEF ReaderFits, Reads
  <2>3. q \in overtaken /\ reader[q].pc \in Reads =>
            \/ revision'[reader[q].account] = 0
            \/ revision'[reader[q].account] > reader[q].revision
    BY <1>5, <2>1, <2>2 DEF ReaderFits
  <2> QED BY <1>1, <1>2, <1>3, <2>1, <2>3, ReaderKept
<1>14. WaitersInv' BY <1>1 DEF WaitersInv
<1>15. WorkerInv' /\ PastInv' /\ ReadingsInv'
  <2>1. job # Balances!NoJob => job.account \in CreditAccounts /\ job.manager # 0
    BY JobFields DEF Balances!TypeOK, Balances!QueueType
  <2>2. job # Balances!NoJob => manager'[job.account] \in {manager[job.account]}
                                \/ manager'[job.account] # job.manager
    BY <1>5, <2>1
  <2> QED BY <1>1, <2>2, WorkerKept
<1> QED BY <1>9, <1>10, <1>11, <1>12, <1>13, <1>14, <1>15

LEMMA ResumeKeeps ==
    ASSUME CreditBounds, CreditInv, NEW a \in CreditAccounts, Balances!Resume(a)
    PROVE  CreditInv'
<1> USE DEF CreditInv
<1>1. /\ creditGuard' = [creditGuard EXCEPT ![a] = "retry"]
      /\ UNCHANGED <<Balances!others, creditEvents, reader, reading, creditState, lock,
             overtaken>>
  BY DEF Balances!Resume
<1>2. UNCHANGED <<manager, revision, creditRevision, worker, job>>
  BY <1>1, OthersUnchanged
<1>3. creditEvents \in 0..CreditEvents /\ creditEvents >= creditEvents /\ creditEvents \in Nat
  BY CreditShapes DEF Balances!TypeOK
<1>4. Balances!ReadingType'
  <2>1. creditGuard' \in [CreditAccounts -> {"", "paused", "retry", "login"}]
    BY <1>1 DEF Balances!TypeOK, Balances!ReadingType
  <2> QED BY <1>1, <2>1 DEF Balances!TypeOK, Balances!ReadingType
<1>5. ReadersInv' /\ WaitersInv' BY <1>1, <1>2, <1>3, ReadingsKept
<1>6. WorkerInv' /\ PastInv' /\ ReadingsInv' BY <1>1, <1>2, WorkerKept
<1> QED BY <1>1, <1>3, <1>4, <1>5, <1>6, ReadingStep

LEMMA TickKeeps ==
    ASSUME CreditBounds, CreditInv, Balances!Tick
    PROVE  CreditInv'
<1> USE DEF CreditInv
<1>1. /\ clock < MaxClock /\ clock' = clock + 1
      /\ UNCHANGED <<creditEvents, manager, Balances!pool, Balances!queue, call,
             Balances!readings, overtaken, due>>
      /\ UNCHANGED <<cooldown, other, revision, creditRevision>>
      /\ UNCHANGED <<reader, reading, creditState, creditGuard, lock>>
      /\ UNCHANGED <<pending, recent, closed, worker, job>>
  BY DEF Balances!Tick, Balances!pool, Balances!queue, Balances!readings
<1>2. /\ clock' \in 0..MaxClock /\ clock' \in Nat /\ clock' >= clock
      /\ creditEvents \in Nat /\ creditEvents >= creditEvents
  BY <1>1, CreditShapes
<1>3. \A b \in CreditAccounts : manager[b] \in Nat /\ revision[b] \in Nat /\
          revision[b] >= revision[b]
  BY CreditShapes
<1>4. Balances!PoolType' /\ PoolInv' BY <1>1, <1>2, PoolKept
<1>5. Balances!TypeOK'
  <2>1. Balances!QueueType' BY <1>1, QueueTypeKept DEF Balances!TypeOK
  <2> QED BY <1>1, <1>2, <1>4, <2>1, ReadingTypeKept DEF Balances!TypeOK, Balances!ReadingType
<1>6. JobsInv' BY <1>1, <1>2, <1>3, JobsKept
<1>7. QueueInv' BY <1>1, <1>2, <1>3, QueueKept
<1>8. ReadersInv' /\ WaitersInv' BY <1>1, <1>2, ReadingsKept
<1>9. WorkerInv' /\ PastInv' /\ ReadingsInv' BY <1>1, WorkerKept
<1> QED BY <1>4, <1>5, <1>6, <1>7, <1>8, <1>9

LEMMA StutterKeeps ==
    ASSUME CreditInv, UNCHANGED Balances!vars
    PROVE  CreditInv'
<1>1. /\ UNCHANGED <<clock, creditEvents, manager, cooldown, other, revision, creditRevision>>
      /\ UNCHANGED <<pending, recent, closed, worker, job, call>>
      /\ UNCHANGED <<reader, reading, creditState, creditGuard, lock, overtaken, due>>
  BY DEF Balances!vars, Balances!pool, Balances!queue, Balances!readings
<1>2. Balances!TypeOK' BY <1>1 DEF CreditInv, Balances!TypeOK, Balances!PoolType,
                          Balances!QueueType, Balances!ReadingType
<1>3. PoolInv' /\ JobsInv' BY <1>1 DEF CreditInv, PoolInv, JobsInv, Abreast
<1>4. QueueInv'
  BY <1>1 DEF CreditInv, QueueInv, Balances!NoLostJob, Balances!OneLiveJob, Recorded, RecentInv
<1>5. ReadersInv' /\ WaitersInv' BY <1>1 DEF CreditInv, ReadersInv, ReaderFits, WaitersInv
<1>6. WorkerInv' BY <1>1 DEF CreditInv, WorkerInv
<1>7. PastInv' /\ ReadingsInv'
  BY <1>1 DEF CreditInv, PastInv, ReadingsInv, Current, Reached, Past, Ended, Answers
<1> QED BY <1>2, <1>3, <1>4, <1>5, <1>6, <1>7 DEF CreditInv

-----------------------------------------------------------------------------
\* The theorems

LEMMA InitHolds ==
    ASSUME CreditBounds, Balances!Init
    PROVE  CreditInv
<1>1. /\ 0 \in 0..MaxClock /\ 0 \in 0..CreditEvents /\ 1 \in 0..(CreditEvents + 1)
      /\ 0 \in 0..(CreditEvents + 1) /\ 0 <= Backlog /\ Worker \in Balances!Readers
  BY DEF CreditBounds, Balances!Readers
<1>2. /\ Balances!NoReading \in Balances!ReaderStates /\ Balances!NoReading.pc = "idle" /\
             Balances!NoReading.floor = 0
      /\ Balances!NoReading.revision = 0
  BY <1>1 DEF Balances!NoReading, Balances!ReaderStates
<1>3. Balances!NoJob \in Balances!Jobs BY DEF Balances!Jobs
<1>4. /\ Balances!NoFlight \in [key : 0..(CreditEvents + 1), owner : Balances!Readers,
             waiters : SUBSET Balances!Readers]
      /\ Balances!NoFlight.waiters = {}
  BY <1>1 DEF Balances!NoFlight
<1>5. /\ Balances!NoRecent \in [manager : 0..(CreditEvents + 1), requested : 0..MaxClock]
      /\ Balances!NoRecent.manager = 0 /\ Balances!NoRecent.requested = 0
  BY <1>1 DEF Balances!NoRecent
<1>6. Balances!NoState \in [manager : 0..(CreditEvents + 1), revision : 0..CreditEvents]
  BY <1>1 DEF Balances!NoState
<1>7. Balances!PoolType
  <2>1. creditRevision = 0 /\ 0 \in 0..creditRevision
    <3>1. creditRevision = 0 BY DEF Balances!Init
    <3> QED BY <3>1
  <2>2. /\ manager = [a \in CreditAccounts |-> 1] /\ cooldown = [a \in CreditAccounts |-> 0]
        /\ other = [a \in CreditAccounts |-> 0] /\ revision = [a \in CreditAccounts |-> 0]
        /\ due = [a \in CreditAccounts |-> 0]
    BY DEF Balances!Init
  <2>3. creditRevision \in 0..CreditEvents BY <1>1, <2>1
  <2>4. manager \in [CreditAccounts -> 0..(CreditEvents + 1)] BY <1>1, <2>2
  <2>5. revision \in [CreditAccounts -> 0..creditRevision] BY <2>1, <2>2
  <2>6. cooldown \in [CreditAccounts -> Nat] /\ other \in [CreditAccounts -> Nat] /\
            due \in [CreditAccounts -> Nat]
    BY <2>2
  <2> QED BY <2>3, <2>4, <2>5, <2>6 DEF Balances!PoolType
<1>8. Balances!QueueType
  <2>1. <<>> \in Seq(Balances!Jobs \ {Balances!NoJob}) /\ Len(<<>>) = 0 OBVIOUS
  <2> QED BY <1>1, <1>3, <1>5, <2>1 DEF Balances!Init, Balances!QueueType
<1>9. Balances!ReadingType BY <1>2, <1>4, <1>6 DEF Balances!Init, Balances!ReadingType
<1>10. Balances!TypeOK BY <1>1, <1>7, <1>8, <1>9 DEF Balances!Init, Balances!TypeOK
<1>11. PoolInv
  <2>1. creditRevision = 0 /\ creditEvents = 0 BY DEF Balances!Init
  <2>2. \A a \in CreditAccounts : manager[a] = 1 /\ cooldown[a] = 0 /\ other[a] = 0 /\ due[a] = 0
    BY DEF Balances!Init
  <2> QED BY <2>1, <2>2 DEF PoolInv
<1>12. DOMAIN pending = {}
  <2>1. pending = <<>> BY DEF Balances!Init
  <2> QED BY <2>1
<1>13. JobsInv BY <1>12 DEF Balances!Init, JobsInv, Abreast
<1>14. QueueInv
  <2>1. Balances!OneLiveJob /\ Balances!NoLostJob BY <1>12 DEF Balances!Init,
                                                     Balances!OneLiveJob, Balances!NoLostJob
  <2>2. RecentInv
    <3>1. clock = 0 /\ creditEvents = 0 /\
              \A a \in CreditAccounts : recent[a] = Balances!NoRecent /\ manager[a] = 1
      BY DEF Balances!Init
    <3> QED BY <1>5, <3>1 DEF RecentInv
  <2> QED BY <1>12, <2>1, <2>2 DEF Balances!Init, QueueInv
<1>15. ReadersInv
  <2>1. creditRevision = 0 /\ \A p \in Balances!Readers : reader[p] = Balances!NoReading
    BY DEF Balances!Init
  <2> QED BY <1>2, <2>1 DEF ReadersInv, ReaderFits, Flying, Reads
<1>16. WaitersInv BY <1>4 DEF Balances!Init, WaitersInv
<1>17. WorkerInv /\ PastInv /\ ReadingsInv
  <2>1. worker \notin {"first", "second"} /\ job = Balances!NoJob /\
            reader[Worker] = Balances!NoReading
    BY <1>1 DEF Balances!Init
  <2> QED BY <2>1 DEF WorkerInv, PastInv, ReadingsInv, Current
<1> QED BY <1>10, <1>11, <1>13, <1>14, <1>15, <1>16, <1>17 DEF CreditInv

LEMMA NextKeeps ==
    ASSUME CreditBounds, CreditInv, [Balances!Next]_(Balances!vars)
    PROVE  CreditInv'
<1>1. ASSUME NEW a \in CreditAccounts,
             Balances!OnFailure(a) \/ Balances!RegisterAuthUpload(a) \/ Balances!DeleteAccount(a) \/ Balances!Resume(a)
      PROVE  CreditInv'
  BY <1>1, OnFailureKeeps, UploadKeeps, DeleteKeeps, ResumeKeeps
<1>2. ASSUME NEW a \in CreditAccounts, NEW c \in Calls, Balances!Exhausted(c, a) PROVE CreditInv'
  BY <1>2, ExhaustedKeeps
<1>3. ASSUME NEW a \in CreditAccounts, NEW p \in Timers, Balances!Refresh(p, a) PROVE CreditInv'
  BY <1>3, RefreshKeeps
<1>4. ASSUME NEW c \in Calls, Balances!QueueRecheck(c) PROVE CreditInv'
  BY <1>4, QueueRecheckKeeps
<1>5. ASSUME NEW p \in Balances!Readers, Balances!Reading(p) PROVE CreditInv'
  BY <1>5, GateKeeps, CancelledKeeps, EnterKeeps, QueryKeeps, RecordKeeps,
     ApplyKeeps, TimerReturnKeeps DEF Balances!Reading
<1>6. ASSUME Balances!Working PROVE CreditInv'
  BY <1>6, WorkerExitKeeps, WorkerTakeKeeps, WorkerReturnKeeps DEF Balances!Working
<1>7. ASSUME Balances!Close \/ Balances!Closed \/ Balances!Tick PROVE CreditInv'
  BY <1>7, CloseKeeps, ClosedKeeps, TickKeeps
<1>8. ASSUME Balances!Quiet \/ UNCHANGED Balances!vars PROVE CreditInv'
  BY <1>8, StutterKeeps DEF Balances!Quiet
<1> QED BY <1>1, <1>2, <1>3, <1>4, <1>5, <1>6, <1>7, <1>8 DEF Balances!Next

\* The inductive invariant holds in every behaviour.
THEOREM CreditsSound ==
    ASSUME CreditBounds
    PROVE  Balances!Spec => []CreditInv
<1>1. Balances!Init => CreditInv BY InitHolds
<1>2. CreditInv /\ [Balances!Next]_(Balances!vars) => CreditInv' BY NextKeeps
<1> QED BY <1>1, <1>2, PTL DEF Balances!Spec

\* A queued recheck has a worker that will see it, and no two live ones are for
\* the same credentials (queueCreditRecheck, runCreditRechecks).
THEOREM QueueStands ==
    ASSUME CreditBounds
    PROVE  Balances!Spec => []Balances!QueueSound
<1>1. CreditInv => Balances!QueueSound BY DEF CreditInv, QueueInv, Balances!QueueSound
<1> QED BY <1>1, CreditsSound, PTL

\* Only a reading that no rejection overtook shortens a cooldown.
LEMMA StepStands ==
    ASSUME CreditBounds, CreditInv, [Balances!Next]_(Balances!vars), NEW a \in CreditAccounts,
           cooldown'[a] < cooldown[a], manager'[a] # 0
    PROVE  \E p \in Balances!Readers \ overtaken :
                reader[p].account = a /\ reader[p].pc = "apply"
<1> USE DEF CreditInv
<1>1. cooldown[a] \in Nat /\ clock \in Nat /\ cooldown \in [CreditAccounts -> Nat]
  BY CreditShapes DEF Balances!TypeOK, Balances!PoolType
<1>2. cooldown' # cooldown BY <1>1
<1>3. ASSUME NEW b \in CreditAccounts, NEW m \in Nat,
             cooldown' = [cooldown EXCEPT ![b] = Balances!Greater(@, m)]
      PROVE  FALSE
  <2>1. cooldown'[a] = cooldown[a] \/ (a = b /\ cooldown'[a] = Balances!Greater(cooldown[a], m))
    BY <1>1, <1>3
  <2>2. Balances!Greater(cooldown[a], m) \in Nat /\ Balances!Greater(cooldown[a], m) >= cooldown[a]
    BY <1>1, GreaterBounds
  <2> QED BY <1>1, <2>1, <2>2
<1>4. clock + Soft \in Nat /\ clock + Long \in Nat BY <1>1 DEF CreditBounds
<1>5. ASSUME NEW b \in CreditAccounts, Balances!OnFailure(b) PROVE FALSE
  BY <1>3, <1>4, <1>5 DEF Balances!OnFailure
<1>6. ASSUME NEW b \in CreditAccounts, NEW c \in Calls, Balances!Exhausted(c, b) PROVE FALSE
  BY <1>3, <1>4, <1>6 DEF Balances!Exhausted
<1>7. ASSUME NEW b \in CreditAccounts, Balances!DeleteAccount(b) PROVE FALSE
  <2>1. a # b \/ manager'[a] = 0 BY <1>7 DEF Balances!DeleteAccount, Balances!TypeOK,
                                    Balances!PoolType
  <2>2. a # b => cooldown'[a] = cooldown[a] BY <1>1, <1>7 DEF Balances!DeleteAccount
  <2> QED BY <1>1, <2>1, <2>2
<1>8. ASSUME NEW p \in Balances!Readers, Balances!Apply(p)
      PROVE  \E q \in Balances!Readers \ overtaken : reader[q].account = a /\
                 reader[q].pc = "apply"
  <2> DEFINE b == reader[p].account
             at == reader[p].revision
  <2>1. reader[p].pc = "apply" BY <1>8 DEF Balances!Apply
  <2>2. cooldown' = [cooldown EXCEPT ![b] = IF at # 0 /\ revision[b] = at THEN other[b] ELSE @]
    BY <1>2, <1>8 DEF Balances!Apply, Balances!ClearCreditCooldown
  <2>3. b = a /\ at # 0 /\ revision[b] = at BY <1>1, <2>2
  <2>4. p \in overtaken => revision[b] = 0 \/ revision[b] > at
    BY <2>1 DEF ReadersInv, ReaderFits, Reads
  <2>5. at \in Nat BY CreditShapes, ReaderFields
  <2>6. p \notin overtaken BY <2>3, <2>4, <2>5
  <2> QED BY <2>1, <2>3, <2>6
<1>9. ASSUME NEW p \in Balances!Readers, Balances!Reading(p), ~Balances!Apply(p) PROVE FALSE
  <2>1. UNCHANGED Balances!others
    BY <1>9 DEF Balances!Reading, Balances!Gate, Balances!Cancelled, Balances!Enter,
       Balances!Query, Balances!Record, Balances!TimerReturn
  <2> QED BY <1>2, <2>1, OthersUnchanged
<1>10. ASSUME NEW b \in CreditAccounts, NEW p \in Timers, Balances!Refresh(p, b) PROVE FALSE
  BY <1>2, <1>10, OthersUnchanged DEF Balances!Refresh
<1>11. ASSUME NEW b \in CreditAccounts,
                  Balances!RegisterAuthUpload(b) \/ Balances!Resume(b) PROVE FALSE
  BY <1>2, <1>11, OthersUnchanged DEF Balances!RegisterAuthUpload, Balances!Resume,
     Balances!pool
<1>12. ASSUME NEW c \in Calls, Balances!QueueRecheck(c) PROVE FALSE
  BY <1>2, <1>12 DEF Balances!QueueRecheck, Balances!pool
<1>13. ASSUME Balances!Working \/ Balances!Close \/ Balances!Closed \/ Balances!Tick PROVE FALSE
  BY <1>2, <1>13 DEF Balances!Working, Balances!WorkerExit, Balances!WorkerTake,
     Balances!WorkerReturn, Balances!Close, Balances!Closed, Balances!Tick, Balances!pool
<1>14. ASSUME Balances!Quiet \/ UNCHANGED Balances!vars PROVE FALSE
  BY <1>2, <1>14 DEF Balances!Quiet, Balances!vars, Balances!pool
<1> QED
  BY <1>5, <1>6, <1>7, <1>8, <1>9, <1>10, <1>11, <1>12, <1>13, <1>14 DEF Balances!Next

\* The worker ends a job with a reading that began after its rejection.
LEMMA StepAnswers ==
    ASSUME CreditBounds, CreditInv, [Balances!Next]_(Balances!vars), job # Balances!NoJob,
               job' = Balances!NoJob
    PROVE  Balances!Answered
<1> USE DEF CreditInv
<1>1. ASSUME Balances!WorkerReturn PROVE Balances!Answered
  <2>1. /\ reader[Worker].pc \in {"ran", "joined"} /\ worker \in {"first", "second"}
        /\ ~(worker = "first" /\ reader[Worker].pc = "joined" /\ closed = "no")
    BY <1>1 DEF Balances!WorkerReturn
  <2>2. closed # "no" \/ reader[Worker].found = "cut" \/ Ended BY <2>1 DEF Ended
  <2> QED BY <2>2 DEF Balances!Answered, ReadingsInv, Current, Answers
<1>2. ASSUME NEW p \in Balances!Readers, Balances!Reading(p) PROVE FALSE
  <2>1. CASE Balances!Apply(p) BY <2>1 DEF Balances!Apply, Balances!queue
  <2>2. CASE ~Balances!Apply(p)
    <3>1. UNCHANGED Balances!others
      BY <1>2, <2>2 DEF Balances!Reading, Balances!Gate, Balances!Cancelled, Balances!Enter,
         Balances!Query, Balances!Record, Balances!TimerReturn
    <3> QED BY <3>1, OthersUnchanged
  <2> QED BY <2>1, <2>2
<1>3. ASSUME NEW b \in CreditAccounts, NEW p \in Timers, Balances!Refresh(p, b) PROVE FALSE
  BY <1>3, OthersUnchanged DEF Balances!Refresh
<1>4. ASSUME NEW b \in CreditAccounts,
             Balances!OnFailure(b) \/ Balances!RegisterAuthUpload(b) \/ Balances!DeleteAccount(b) \/ Balances!Resume(b)
      PROVE  FALSE
  BY <1>4, OthersUnchanged DEF Balances!OnFailure, Balances!RegisterAuthUpload,
     Balances!DeleteAccount, Balances!Resume, Balances!queue
<1>5. ASSUME NEW b \in CreditAccounts, NEW c \in Calls, Balances!Exhausted(c, b) PROVE FALSE
  BY <1>5 DEF Balances!Exhausted, Balances!queue
<1>6. ASSUME NEW c \in Calls, Balances!QueueRecheck(c) PROVE FALSE
  BY <1>6 DEF Balances!QueueRecheck, Balances!queue
<1>7. ASSUME Balances!WorkerTake PROVE FALSE
  <2>1. job = Balances!NoJob BY <1>7 DEF Balances!WorkerTake, WorkerInv
  <2> QED BY <2>1
<1>8. ASSUME Balances!WorkerExit \/ Balances!Close \/ Balances!Closed \/ Balances!Tick PROVE FALSE
  BY <1>8 DEF Balances!WorkerExit, Balances!Close, Balances!Closed, Balances!Tick,
     Balances!queue
<1>9. ASSUME Balances!Quiet \/ UNCHANGED Balances!vars PROVE FALSE
  BY <1>9 DEF Balances!Quiet, Balances!vars, Balances!queue
<1> QED
  BY <1>1, <1>2, <1>3, <1>4, <1>5, <1>6, <1>7, <1>8, <1>9 DEF Balances!Next, Balances!Working

\* "A balance reading can clear only the credit rejection it started after",
\* whatever is deleted, uploaded, rejected or read meanwhile; it leaves the
\* cooldowns that are not for lack of credit; and "a manual or periodic read that
\* began before the rejection cannot settle it", however many readings of the
\* account there are (ClearCreditCooldown, recheckCredits).
THEOREM RejectionsKept ==
    ASSUME CreditBounds
    PROVE  Balances!Spec => Balances!RejectionsStand
<1>1. CreditInv => Balances!OtherFaultsStand BY DEF CreditInv, PoolInv,
                                                Balances!OtherFaultsStand
<1>2. CreditInv /\ [Balances!Next]_(Balances!vars) =>
        [\A a \in CreditAccounts :
            cooldown'[a] < cooldown[a] /\ manager'[a] # 0 =>
                \E p \in Balances!Readers \ overtaken :
                    reader[p].account = a /\ reader[p].pc = "apply"]_(Balances!vars)
  BY StepStands
<1>3. CreditInv /\ [Balances!Next]_(Balances!vars) => [job # Balances!NoJob /\ job' = Balances!NoJob => Balances!Answered]_(Balances!vars)
  BY StepAnswers
<1> QED
  BY <1>1, <1>2, <1>3, CreditsSound, PTL
     DEF Balances!Spec, Balances!RejectionsStand, Balances!RejectionStands,
         Balances!RecheckAnswers

-----------------------------------------------------------------------------
\* The channel.

Tokens == INSTANCE CredentialsProofs
    WITH MaxEvents <- TokenEvents, events <- tokenEvents, flight <- renewal,
         guard <- loginGuard

\* The credentials proved about are those that the channel is composed of.
LEMMA SameTokens ==
    /\ Logins!Init <=> Tokens!Init
    /\ Logins!Next <=> Tokens!Next
    /\ Logins!vars = Tokens!vars
    /\ Logins!LoginsFit <=> Tokens!LoginsFit
  BY DEF
      Logins!Managers, Tokens!Managers, Logins!Desktop, Tokens!Desktop,
      Logins!NoToken, Tokens!NoToken, Logins!manager, Tokens!manager,
      Logins!world, Tokens!world, Logins!vars, Tokens!vars, Logins!Event,
      Tokens!Event, Logins!NoFlight, Tokens!NoFlight, Logins!NoDenied,
      Tokens!NoDenied, Logins!NoCaller, Tokens!NoCaller, Logins!First,
      Tokens!First, Logins!Init, Tokens!Init, Logins!Mint, Tokens!Mint,
      Logins!Session, Tokens!Session, Logins!Load, Tokens!Load,
      Logins!GuardFor, Tokens!GuardFor, Logins!Answer, Tokens!Answer,
      Logins!Wait, Tokens!Wait, Logins!Start, Tokens!Start, Logins!Recover,
      Tokens!Recover, Logins!Refresh, Tokens!Refresh, Logins!EnsureFresh,
      Tokens!EnsureFresh, Logins!Gone, Tokens!Gone, Logins!Cancel,
      Tokens!Cancel, Logins!Finish, Tokens!Finish, Logins!elsewhere,
      Tokens!elsewhere, Logins!Snapshot, Tokens!Snapshot, Logins!Reply,
      Tokens!Reply, Logins!Compare, Tokens!Compare, Logins!Rename,
      Tokens!Rename, Logins!ObserveLogin, Tokens!ObserveLogin, Logins!Woken,
      Tokens!Woken, Logins!Land, Tokens!Land, Logins!admins, Tokens!admins,
      Logins!Retire, Tokens!Retire, Logins!UploadRetire,
      Tokens!UploadRetire, Logins!UploadWrite, Tokens!UploadWrite,
      Logins!UploadFail, Tokens!UploadFail, Logins!DeleteRetire,
      Tokens!DeleteRetire, Logins!DeleteFile, Tokens!DeleteFile,
      Logins!DesktopWrite, Tokens!DesktopWrite, Logins!Revoke,
      Tokens!Revoke, Logins!Forget, Tokens!Forget, Logins!Quiet,
      Tokens!Quiet, Logins!Renewal, Tokens!Renewal, Logins!Next,
      Tokens!Next, Logins!Tokens, Tokens!Tokens, Logins!TypeOK,
      Tokens!TypeOK, Logins!UploadWins, Tokens!UploadWins,
      Logins!RecoveryRenews, Tokens!RecoveryRenews, Logins!LoginFits,
      Tokens!LoginFits, Logins!LoginsFit, Tokens!LoginsFit

\* A step of the channel is one of a part, or of none, for each component.
LEMMA PartSteps ==
    ASSUME [MCNext]_<<part, vars, balances, logins>>
    PROVE  /\ [Next]_vars
           /\ [Balances!Next]_(Balances!vars)
           /\ [Tokens!Next]_(Tokens!vars)
<1>1. UNCHANGED balances => UNCHANGED Balances!vars
  BY DEF balances, Balances!vars, Balances!pool, Balances!queue, Balances!readings
<1>2. UNCHANGED logins => UNCHANGED Tokens!vars
  BY DEF logins, Tokens!vars, Tokens!manager, Tokens!world
<1>3. CASE Alone
  <2>1. Next \/ UNCHANGED vars
    BY <1>3, Zenon DEF Alone, Next
  <2> QED BY <1>1, <1>2, <1>3, <2>1 DEF Alone
<1>4. CASE CreditNext
  BY <1>2, <1>4 DEF CreditNext
<1>5. CASE TokensNext
  BY <1>1, <1>5, SameTokens DEF TokensNext
<1>6. CASE UNCHANGED <<part, vars, balances, logins>>
  BY <1>1, <1>2, <1>6
<1> QED BY <1>3, <1>4, <1>5, <1>6 DEF MCNext

\* The attempt loop, the balances and the credentials of the channel each behave
\* as they do alone.
THEOREM PartsBehave == MCSpec => Spec /\ Balances!Spec /\ Tokens!Spec
<1>1. MCInit => Init /\ Balances!Init /\ Tokens!Init
  BY SameTokens DEF MCInit
<1>2. [MCNext]_<<part, vars, balances, logins>>
      => [Next]_vars /\ [Balances!Next]_(Balances!vars) /\ [Tokens!Next]_(Tokens!vars)
  BY PartSteps
<1> QED BY <1>1, <1>2, PTL DEF MCSpec, Spec, Balances!Spec, Tokens!Spec

\* In the channel, a queued recheck has a worker that will see it, and no two live
\* ones are for the same credentials (queueCreditRecheck, runCreditRechecks).
THEOREM QueueHolds ==
    ASSUME CreditBounds
    PROVE  MCSpec => []QueueSound
<1> QED BY QueueStands, PartsBehave, PTL DEF QueueSound

\* In the channel, uploads and deletions stand, a recovery ends with another token
\* than the rejected one, and an account is closed for a new login only over the
\* token that needs it (refreshContext, RecoverChatAuthorization, ensureFresh).
THEOREM LoginsHold ==
    ASSUME Tokens!Bounds
    PROVE  MCSpec => []LoginsFit
<1>1. Tokens!Spec => []Tokens!LoginsFit BY Tokens!LoginsHold
<1>2. Tokens!LoginsFit => LoginsFit BY SameTokens DEF LoginsFit
<1> QED BY <1>1, <1>2, PartsBehave, PTL

\* In the channel, a reading lifts only the rejection that it began after, leaves
\* the cooldowns of other failures, and answers no recheck of a later rejection
\* (ClearCreditCooldown, recheckCredits).
THEOREM RejectionsHold ==
    ASSUME CreditBounds
    PROVE  MCSpec => RejectionsStand
<1> QED BY RejectionsKept, PartsBehave, PTL DEF RejectionsStand
=============================================================================
