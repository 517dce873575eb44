--------------------------- MODULE SessionRouter ---------------------------
(***************************************************************************)
(* The session router of the WorkBuddy channel: the sticky map from a      *)
(* session to its account (internal/workbuddy/runtime/session.go and       *)
(* session_control.go) and the calls that use it (OpenUpstreamScoped and   *)
(* AccountSelector in routing.go).                                         *)
(*                                                                         *)
(* A session has at most one entry: the account it is bound to and, once a *)
(* call has begun, its observed state.  An operator may ask to switch the  *)
(* session to an account or to select again; the next call that selects an *)
(* account consumes this control.  Calls of one session run concurrently.  *)
(* Every router operation holds the router's mutex and is one step; what a *)
(* call does between two operations is not atomic.                         *)
(*                                                                         *)
(* The state object of an entry is identified by the sequence number it    *)
(* was created with, which no other object has.  Calls keep a pointer to   *)
(* it and their operations ignore any other object.                        *)
(***************************************************************************)
EXTENDS Integers, FiniteSets

CONSTANTS
    Calls, Keys, Accounts, NoAccount,
    International,\* accounts of the international site, whose automatic
                  \* bindings may migrate (PreferDomesticSession)
    MaxEntries,          \* SessionRouter.Max
    Retries,      \* selections of one attempt after the first one
    Attempts,     \* maxFailoverAttempts
    Unlimited,    \* ModelLimitsDisabled
    MaxEvents     \* bound on what goes wrong: operator controls, deleted
                  \* accounts, entries that run out, accounts that fail,
                  \* become unusable, lose permission or rise in price

ASSUME RouterAssumption ==
    /\ IsFiniteSet(Calls)
    /\ NoAccount \notin Accounts
    /\ International \subseteq Accounts
    /\ {MaxEntries, Attempts} \subseteq Nat \ {0}
    /\ {Retries, MaxEvents} \subseteq Nat
    /\ Unlimited \in BOOLEAN

Anyone == Accounts \cup {NoAccount}

VARIABLES
    \* SessionRouter
    order,      \* key with an entry -> the keys whose entry was used later
    uid,        \* key -> bound account
    info,       \* key -> SessionState of its entry; NoState without one
    sequence,
    \* SessionCall and SessionSelection of each call
    call, selection,
    \* control of each call
    pc, seen, pick, sticky, retry, attempt, served,
    key,        \* call -> session
    view,       \* what the operator has seen
    \* environment: entries whose lifetime has passed, what went wrong
    expired, events,
    \* history: calls whose entry was deleted with its account
    orphans

router  == <<order, uid, info, sequence, expired>>
choice  == <<seen, pick, sticky>>
vars == <<router, call, selection, pc, choice, retry, attempt, served, key,
          view, events, orphans>>

NoState == [id |-> 0, version |-> 0, running |-> 0, waiting |-> 0,
            pending |-> "", target |-> NoAccount, manual |-> NoAccount,
            epoch |-> 0, last |-> NoAccount, status |-> "",
            compat |-> NoAccount]

NoCall == [id |-> 0, running |-> FALSE, control |-> 0, target |-> NoAccount]

NoSelection == [version |-> 0, action |-> "", target |-> NoAccount,
                baseline |-> NoAccount]

Entries == DOMAIN order
Busy(k) == info[k].running + info[k].waiting > 0

\* The order of the entries that stay; and of them once k is the last used.
Staying(stay) == [j \in stay |-> order[j] \cap stay]
Touched(stay, k) ==
    [j \in stay \cup {k} |-> IF j = k THEN {} ELSE (order[j] \cap stay) \cup {k}]
Adverse == events < MaxEvents /\ events' = events + 1
Goto(c, place) == pc' = [pc EXCEPT ![c] = place]

\* The call leaves a round of the selection; its locals go out of scope.
Leave(c, place) ==
    /\ Goto(c, place)
    /\ selection' = [selection EXCEPT ![c] = NoSelection]
    /\ seen' = [seen EXCEPT ![c] = NoAccount]
    /\ pick' = [pick EXCEPT ![c] = NoAccount]
    /\ sticky' = [sticky EXCEPT ![c] = FALSE]

-----------------------------------------------------------------------------
\* Operations of the router.

\* RemoveLocked
RemoveLocked(k) ==
    /\ order' = Staying(Entries \ {k})
    /\ uid' = [uid EXCEPT ![k] = NoAccount]
    /\ info' = [info EXCEPT ![k] = NoState]
    /\ expired' = expired \ {k}

\* Mutant: the oldest entry goes, whether it is in use or not.
EvictableBusy == Entries

\* EvictIdleLocked never takes an entry that is running or waiting.
Evictable == {k \in Entries : ~Busy(k)}

\* An entry that is new to the map, and the entries that give way to it.
\* The map is one entry over its size at most: one eviction is enough.
Full == Cardinality(Entries) >= MaxEntries
Victims == {k \in Evictable : Full /\ Evictable \ {k} \subseteq order[k]}

HasRoom == ~Full \/ Evictable # {}

\* Bind of a session without observed state.
Bind(k, u) ==
    IF k \in Entries
    THEN IF info[k].id # 0
         THEN UNCHANGED router
         ELSE /\ uid' = [uid EXCEPT ![k] = u]
              /\ order' = Touched(Entries, k)
              /\ expired' = expired \ {k}
              /\ UNCHANGED <<info, sequence>>
    ELSE IF ~HasRoom
         THEN UNCHANGED router
         ELSE /\ order' = Touched(Entries \ Victims, k)
              /\ uid' = [j \in Keys |-> IF j = k THEN u
                                        ELSE IF j \in Victims THEN NoAccount
                                        ELSE uid[j]]
              /\ info' = [j \in Keys |-> IF j \in Victims THEN NoState ELSE info[j]]
              /\ expired' = expired \ (Victims \cup {k})
              /\ UNCHANGED sequence

\* Unbind and UnbindMatching: an observed session stays, without account,
\* without operator's pin and with a new version.
Cleared(s) ==
    [s EXCEPT !.manual = NoAccount, !.compat = NoAccount, !.version = sequence + 1]

Clear(k) ==
    IF k \in Entries /\ info[k].id # 0
    THEN /\ uid' = [uid EXCEPT ![k] = NoAccount]
         /\ sequence' = sequence + 1
         /\ info' = [info EXCEPT ![k] = Cleared(@)]
         /\ UNCHANGED <<order, expired>>
    ELSE /\ RemoveLocked(k)
         /\ UNCHANGED sequence

UnbindMatching(k, failed) ==
    IF uid[k] # failed THEN UNCHANGED router ELSE Clear(k)

\* The state of a session after a control was asked for, withdrawn or rejected.
Controlled(s, pending, target, status) ==
    [s EXCEPT !.pending = pending, !.target = target, !.status = status,
              !.version = sequence + 1, !.epoch = sequence + 1]

Reject(k, version) ==
    IF info[k].id = 0 \/ info[k].version # version
    THEN UNCHANGED router
    ELSE /\ sequence' = sequence + 1
         /\ info' = [info EXCEPT ![k] = Controlled(@, "", NoAccount, "failed")]
         /\ UNCHANGED <<order, uid, expired>>

\* The call still owns the state object of its session's entry.
Owns(c) == call[c].id # 0 /\ info[key[c]].id = call[c].id

\* Phase moves the call between the counts of its session.
Moved(s, running) ==
    IF running THEN [s EXCEPT !.running = @ + 1, !.waiting = @ - 1]
               ELSE [s EXCEPT !.running = @ - 1, !.waiting = @ + 1]

Phase(c, running) ==
    IF ~Owns(c) \/ call[c].running = running
    THEN UNCHANGED <<call, info>>
    ELSE /\ call' = [call EXCEPT ![c].running = running]
         /\ info' = [info EXCEPT ![key[c]] = Moved(@, running)]

-----------------------------------------------------------------------------
\* A call begins and picks a first account.

\* Begin: the entry of the session is renewed, or made, and the call waits in
\* it.  Without room the call goes on unobserved.  (PrepareRequest begins the
\* session and the serving handler once more, for a call that found no room.)
Begin(c) ==
    LET k == key[c]
        kept == k \in Entries /\ (k \notin expired \/ Busy(k))
        gone == IF k \in Entries THEN {} ELSE Victims
        bound == IF kept THEN uid[k] ELSE NoAccount
        fresh == ~kept \/ info[k].id = 0
        new == [NoState EXCEPT !.id = sequence + 1, !.version = sequence + 1,
                               !.last = bound]
        state == IF fresh THEN new ELSE info[k]
    IN  /\ pc[c] \in {"idle", "prepared"}
        /\ IF k \in Entries \/ HasRoom
           THEN /\ order' = Touched(Entries \ gone, k)
                /\ uid' = [j \in Keys |-> IF j = k THEN bound
                                          ELSE IF j \in gone THEN NoAccount
                                          ELSE uid[j]]
                /\ info' = [j \in Keys |->
                              IF j = k THEN [state EXCEPT !.waiting = @ + 1]
                              ELSE IF j \in gone THEN NoState
                              ELSE info[j]]
                /\ sequence' = IF fresh THEN sequence + 1 ELSE sequence
                /\ expired' = expired \ (gone \cup {k})
                /\ call' = [call EXCEPT ![c].id = state.id]
                /\ Goto(c, "started")
           ELSE /\ Goto(c, IF pc[c] = "idle" THEN "prepared" ELSE "started")
                /\ UNCHANGED <<router, call>>
    /\ UNCHANGED <<selection, choice, retry, attempt, served, key, view, events, orphans>>

\* Lookup drops an idle entry that has run out.
Lookup(c) ==
    LET k == key[c]
        stale == k \in expired /\ ~Busy(k)
    IN  /\ pc[c] = "started"
        /\ seen' = [seen EXCEPT ![c] = IF stale THEN NoAccount ELSE uid[k]]
        /\ IF stale THEN RemoveLocked(k) /\ UNCHANGED sequence ELSE UNCHANGED router
        /\ Goto(c, "looked")
        /\ UNCHANGED <<call, selection, pick, sticky, retry, attempt, served, view,
                       key, events, orphans>>

\* The account found is not usable: the session is unbound.
Unstick(c) ==
    /\ Adverse
    /\ pc[c] = "looked"
    /\ seen[c] # NoAccount
    /\ Clear(key[c])
    /\ Goto(c, "unstuck")
    /\ UNCHANGED <<call, selection, choice, retry, attempt, served, view, key,
                   orphans>>

\* Any account that can be picked is bound, which only binds a session
\* without observed state.
PickAccount(c) ==
    /\ pc[c] \in {"looked", "unstuck"}
    /\ \E u \in Accounts : Bind(key[c], u)
    /\ Leave(c, "select")
    /\ UNCHANGED <<call, retry, attempt, served, view, key, events,
                   orphans>>

\* No account is left to pick or to select: the call ends with an error.
NoneLeft(c) ==
    /\ Adverse
    /\ pc[c] \in {"looked", "unstuck", "select"}
    /\ Leave(c, "ending")
    /\ UNCHANGED <<router, call, retry, attempt, served, view,
                   key, orphans>>

-----------------------------------------------------------------------------
\* The selection loop of OpenUpstreamScoped with AccountSelector.

\* Route, when the account found is still usable or one was picked.
Route(c) ==
    LET k == key[c]
    IN  /\ pc[c] = "select" \/ (pc[c] = "looked" /\ seen[c] # NoAccount)
        /\ Phase(c, FALSE)
        /\ seen' = [seen EXCEPT ![c] = uid[k]]
        /\ selection' = [selection EXCEPT ![c] =
               [version |-> info[k].version, action |-> info[k].pending,
                target |-> info[k].target,
                baseline |-> IF info[k].id = 0 THEN uid[k] ELSE info[k].last]]
        /\ Goto(c, "routed")
        /\ UNCHANGED <<order, uid, sequence, expired, pick, sticky, retry, attempt,
                       served, view, key, events, orphans>>

Chosen(c, u, ready) ==
    /\ pick' = [pick EXCEPT ![c] = u]
    /\ sticky' = [sticky EXCEPT ![c] = ready]
    /\ Goto(c, "bound")

\* Mutant: an automatic migration does not ask for the operator's pin.
MigratesPinned(c) == seen[c] \in International

\* PreferDomesticSession moves a binding of the international site unless the
\* operator pinned it.
Migrates(c) == seen[c] \in International /\ info[key[c]].manual # seen[c]

\* Without a control the session keeps its account while that one is ready.
SelectAccount(c) ==
    /\ pc[c] = "routed"
    /\ selection[c].action = ""
    /\ \/ seen[c] # NoAccount /\ Chosen(c, seen[c], TRUE) /\ UNCHANGED events
       \/ \E u \in Accounts \ {seen[c]} :
            \/ Migrates(c) /\ Chosen(c, u, TRUE) /\ UNCHANGED events
            \/ seen[c] = NoAccount /\ Chosen(c, u, FALSE) /\ UNCHANGED events
            \/ seen[c] # NoAccount /\ Chosen(c, u, FALSE) /\ Adverse
    /\ UNCHANGED <<router, call, selection, seen, retry, attempt, served, view,
                   key, orphans>>

\* A control whose account is ready and no more expensive than the last one.
SelectControlled(c) ==
    /\ pc[c] = "routed"
    /\ selection[c].baseline # NoAccount
    /\ \/ /\ selection[c].action = "switch"
          /\ Chosen(c, selection[c].target, TRUE)
          /\ UNCHANGED selection
       \/ /\ selection[c].action = "reselect"
          /\ \E u \in Accounts \ {selection[c].baseline} :
                /\ Chosen(c, u, TRUE)
                /\ selection' = [selection EXCEPT ![c].target = u]
    /\ UNCHANGED <<router, call, seen, retry, attempt, served, view, key, events, orphans>>

\* The selector rejects the control and selects nothing.  A queued selection
\* is repeated; without limits bindProviderAccount returns the selector's nil
\* error as an error value that is not nil, and the handler that reads its
\* status panics.
SelectRejected(c) ==
    /\ pc[c] = "routed"
    /\ selection[c].action # ""
    /\ Reject(key[c], selection[c].version)
    /\ Leave(c, IF Unlimited THEN "panic" ELSE "select")
    /\ UNCHANGED <<call, retry, attempt, served, view, key, events,
                   orphans>>

\* The account is busy: the queue selects again when it wakes.
SelectBusy(c) ==
    /\ Adverse
    /\ ~Unlimited
    /\ pc[c] = "routed"
    /\ Leave(c, "select")
    /\ UNCHANGED <<router, call, retry, attempt, served, view,
                   key, orphans>>

\* The permission to use the account was lost while the call waited.
Deny(c) ==
    /\ Adverse
    /\ pc[c] = "bound"
    /\ IF selection[c].action # "" THEN Reject(key[c], selection[c].version)
                                   ELSE UNCHANGED router
    /\ Leave(c, "ending")
    /\ UNCHANGED <<call, retry, attempt, served, view, key,
                   orphans>>

\* Mutant: the loop repeats its round with the selection it has, uncounted.
AgainForever(c) == Goto(c, "routed") /\ UNCHANGED <<selection, choice, retry>>

Again(c) ==
    IF retry[c] < Retries
    THEN retry' = [retry EXCEPT ![c] = @ + 1] /\ Leave(c, "select")
    ELSE Leave(c, "ending") /\ UNCHANGED retry

\* The price of the controlled account rose while the call waited.
Reprice(c) ==
    /\ pc[c] = "bound"
    /\ selection[c].action # ""
    /\ Reject(key[c], selection[c].version)
    /\ Again(c)
    /\ UNCHANGED <<call, attempt, served, view, key, events, orphans>>

\* What a committed selection makes of the session's state.
Committed(s, bound, u) ==
    [s EXCEPT !.compat = IF bound = u THEN @ ELSE NoAccount,
              !.status = IF s.pending # "" THEN "selected" ELSE @,
              !.manual = IF s.pending = "switch" THEN u
                         ELSE IF s.pending # "" THEN NoAccount ELSE @,
              !.pending = "",
              !.target = NoAccount,
              !.version = IF bound # u \/ s.pending # "" THEN sequence + 1 ELSE @,
              !.last = u]

\* Mutant: the selection is committed whatever happened since it was made.
CurrentAlways(c) == TRUE

\* The session has not changed since the selection was made.
Current(c) == info[key[c]].version = selection[c].version

\* Commit binds the session to the account selected and consumes the control;
\* a selection made against an older version is repeated.
Commit(c) ==
    LET k == key[c]
        u == pick[c]
        proceed == /\ Goto(c, "committed")
                   /\ selection' = [selection EXCEPT ![c] = NoSelection]
                   /\ seen' = [seen EXCEPT ![c] = NoAccount]
                   /\ sticky' = [sticky EXCEPT ![c] = FALSE]
                   /\ UNCHANGED <<pick, retry>>
    IN  /\ pc[c] = "bound"
        /\ IF info[k].id = 0
           THEN /\ IF call[c].id = 0 THEN Bind(k, u) ELSE UNCHANGED router
                /\ proceed
                /\ UNCHANGED call
           ELSE IF ~Current(c)
           THEN Again(c) /\ UNCHANGED <<router, call>>
           ELSE /\ info' = [info EXCEPT ![k] = Committed(@, uid[k], u)]
                /\ sequence' = IF uid[k] # u \/ info[k].pending # "" THEN sequence + 1
                                                                     ELSE sequence
                /\ uid' = [uid EXCEPT ![k] = u]
                /\ expired' = expired \ {k}
                /\ call' = IF call[c].id # 0 /\ selection[c].action # ""
                           THEN [call EXCEPT ![c].control = info[k].epoch,
                                             ![c].target = u]
                           ELSE call
                /\ proceed
                /\ UNCHANGED order
        /\ UNCHANGED <<attempt, served, view, key, events, orphans>>

-----------------------------------------------------------------------------
\* The attempt on the selected account.

\* Its entitlement was revoked since it was selected.
NotCallable(c) ==
    /\ Adverse
    /\ pc[c] = "committed"
    /\ Leave(c, "ending")
    /\ UNCHANGED <<router, call, retry, attempt, served, view,
                   key, orphans>>

Run(c) ==
    /\ pc[c] = "committed"
    /\ Phase(c, TRUE)
    /\ Goto(c, "running")
    /\ UNCHANGED <<order, uid, sequence, expired, selection, choice, retry, attempt,
                   served, view, key, events, orphans>>

\* Mutant: any call that consumed a control reports it.
ReportsAny(c) == Owns(c) /\ call[c].control # 0

\* Only the call that consumed the last control of its session reports it.
Reports(c) ==
    Owns(c) /\ call[c].control # 0 /\ call[c].control = info[key[c]].epoch

Attempt(c) ==
    /\ pc[c] = "running"
    /\ info' = IF Reports(c) THEN [info EXCEPT ![key[c]].status = "executing"]
                             ELSE info
    /\ Goto(c, "attempting")
    /\ UNCHANGED <<order, uid, sequence, expired, call, selection, choice, retry,
                   attempt, served, view, key, events, orphans>>

\* Mutant: what an account accepts is remembered for whichever is bound.
RemembersAny(k, u) == info[k].id # 0 /\ info[k].pending = ""

Remembers(k, u) == info[k].id # 0 /\ uid[k] = u /\ info[k].pending = ""

\* The attempt succeeds: RememberCompatibility keeps what the account accepts.
Succeed(c) ==
    LET k == key[c]
    IN  /\ pc[c] = "attempting"
        /\ info' = IF Remembers(k, pick[c])
                   THEN [info EXCEPT ![k].compat = pick[c]] ELSE info
        /\ served' = [served EXCEPT ![c] = pick[c]]
        /\ Goto(c, "succeeded")
        /\ UNCHANGED <<order, uid, sequence, expired, call, selection, choice, retry,
                       attempt, view, key, events, orphans>>

Fail(c) ==
    /\ Adverse
    /\ pc[c] \in {"running", "attempting"}
    /\ Goto(c, "failing")
    /\ UNCHANGED <<router, call, selection, choice, retry, attempt, served, view,
                   key, orphans>>

\* The channel denies a response that has begun.
Denied(c) ==
    /\ Adverse
    /\ pc[c] = "attempting"
    /\ UnbindMatching(key[c], pick[c])
    /\ Goto(c, "denied")
    /\ UNCHANGED <<call, selection, choice, retry, attempt, served, view, key,
                   orphans>>

Outcome(c) ==
    /\ pc[c] \in {"succeeded", "failing", "denied"}
    /\ info' = IF Reports(c)
               THEN [info EXCEPT ![key[c]].status =
                       IF pc[c] # "succeeded" THEN "failed"
                       ELSE IF pick[c] = call[c].target THEN "applied"
                       ELSE "fallback"]
               ELSE info
    /\ IF pc[c] = "failing" THEN Goto(c, "failed") /\ UNCHANGED <<selection, choice>>
                           ELSE Leave(c, "ending")
    /\ UNCHANGED <<order, uid, sequence, expired, call, retry,
                   attempt, served, view, key, events, orphans>>

\* The failure is final.
Stop(c) ==
    /\ pc[c] = "failed"
    /\ Leave(c, "ending")
    /\ UNCHANGED <<router, call, retry, attempt, served, view,
                   key, events, orphans>>

\* The request is adapted and sent again (images, channel compatibility).
Adapt(c) ==
    /\ pc[c] = "failed"
    /\ attempt[c] + 1 < Attempts
    /\ attempt' = [attempt EXCEPT ![c] = @ + 1]
    /\ retry' = [retry EXCEPT ![c] = 0]
    /\ Leave(c, "select")
    /\ UNCHANGED <<router, call, served, view, key, events, orphans>>

\* The account is given up; another one is picked while attempts are left.
Rotate(c) ==
    /\ pc[c] = "failed"
    /\ UnbindMatching(key[c], pick[c])
    /\ IF attempt[c] + 1 < Attempts
       THEN /\ attempt' = [attempt EXCEPT ![c] = @ + 1]
            /\ retry' = [retry EXCEPT ![c] = 0]
            /\ Leave(c, "started")
       ELSE Leave(c, "ending") /\ UNCHANGED <<attempt, retry>>
    /\ UNCHANGED <<call, served, view, key, events, orphans>>

\* Mutant: the call is taken from the waiting count wherever it is counted.
FinishWaiting(c) ==
    /\ pc[c] \in {"ending", "panic"}
    /\ IF Owns(c)
       THEN /\ info' = [info EXCEPT ![key[c]].waiting = @ - 1]
            /\ expired' = expired \ {key[c]}
       ELSE UNCHANGED <<info, expired>>
    /\ Goto(c, "gone")
    /\ UNCHANGED <<order, uid, sequence, call, selection, choice, retry, attempt, served, view, key, events,
                   orphans>>

\* Finish, deferred by the handler: it runs after a panic too.
Finish(c) ==
    /\ pc[c] \in {"ending", "panic"}
    /\ IF Owns(c)
       THEN /\ info' = IF call[c].running
                       THEN [info EXCEPT ![key[c]].running = @ - 1]
                       ELSE [info EXCEPT ![key[c]].waiting = @ - 1]
            /\ expired' = expired \ {key[c]}
       ELSE UNCHANGED <<info, expired>>
    /\ Goto(c, "gone")
    /\ UNCHANGED <<order, uid, sequence, call, selection, choice, retry, attempt, served, view, key, events,
                   orphans>>

-----------------------------------------------------------------------------
\* The operator and time.

NoView == [key |-> "", version |-> 0, uid |-> NoAccount]

\* Views drops the idle entries that have run out and shows the others.
Look ==
    LET stale == {k \in expired : ~Busy(k)}
    IN  /\ events < MaxEvents
        /\ order' = Staying(Entries \ stale)
        /\ uid' = [k \in Keys |-> IF k \in stale THEN NoAccount ELSE uid[k]]
        /\ info' = [k \in Keys |-> IF k \in stale THEN NoState ELSE info[k]]
        /\ expired' = expired \ stale
        /\ \E k \in Keys :
             /\ info'[k].id # 0
             /\ view' = [key |-> k, version |-> info'[k].version, uid |-> uid'[k]]
        /\ UNCHANGED <<sequence, call, selection, pc, choice, retry, attempt, served,
                       key, events, orphans>>

\* Control is accepted only against the version the operator has seen.
ViewCurrent == info[view.key].id # 0 /\ info[view.key].version = view.version

\* sessionOptions: the operator may switch to any other account that is
\* authorised, healthy and no more expensive.
SwitchTargets == Accounts \ {view.uid}

Control ==
    /\ view # NoView
    /\ Adverse
    /\ view' = NoView
    /\ IF ViewCurrent
       THEN /\ sequence' = sequence + 1
            /\ \/ info' = [info EXCEPT ![view.key] =
                             Controlled(@, "", NoAccount, "cancelled")]
               \/ \E u \in SwitchTargets : info' = [info EXCEPT ![view.key] =
                             Controlled(@, "switch", u, "pending")]
               \/ info' = [info EXCEPT ![view.key] =
                             Controlled(@, "reselect", NoAccount, "pending")]
       ELSE UNCHANGED <<sequence, info>>
    /\ UNCHANGED <<order, uid, expired, call, selection, pc, choice, retry, attempt,
                   served, key, orphans>>

\* RemoveAccount deletes every entry bound to the account, in use or not.
RemoveAccount ==
    \E u \in Accounts :
        LET gone == {k \in Entries : uid[k] = u}
        IN  /\ Adverse
            /\ order' = Staying(Entries \ gone)
            /\ uid' = [k \in Keys |-> IF k \in gone THEN NoAccount ELSE uid[k]]
            /\ info' = [k \in Keys |-> IF k \in gone THEN NoState ELSE info[k]]
            /\ expired' = expired \ gone
            /\ orphans' = orphans \cup {c \in Calls : Owns(c) /\ key[c] \in gone}
            /\ UNCHANGED <<sequence, call, selection, pc, choice, retry, attempt,
                           served, key, view>>

\* The lifetime of an entry passes.
Expire ==
    /\ Adverse
    /\ \E k \in Entries \ expired : expired' = expired \cup {k}
    /\ UNCHANGED <<order, uid, info, sequence, call, selection, pc, choice, retry,
                   attempt, served, key, view, orphans>>

-----------------------------------------------------------------------------

Init ==
    /\ order = [k \in {} |-> {}]
    /\ uid = [k \in Keys |-> NoAccount]
    /\ info = [k \in Keys |-> NoState]
    /\ sequence = 0
    /\ expired = {}
    /\ call = [c \in Calls |-> NoCall]
    /\ selection = [c \in Calls |-> NoSelection]
    /\ pc = [c \in Calls |-> "idle"]
    /\ seen = [c \in Calls |-> NoAccount]
    /\ pick = [c \in Calls |-> NoAccount]
    /\ sticky = [c \in Calls |-> FALSE]
    /\ retry = [c \in Calls |-> 0]
    /\ attempt = [c \in Calls |-> 0]
    /\ served = [c \in Calls |-> NoAccount]
    /\ view = NoView
    /\ key \in [Calls -> Keys]
    /\ events = 0
    /\ orphans = {}

Step(c) ==
    \/ Begin(c) \/ Lookup(c) \/ Unstick(c) \/ PickAccount(c) \/ NoneLeft(c)
    \/ Route(c) \/ SelectAccount(c) \/ SelectControlled(c) \/ SelectRejected(c)
    \/ SelectBusy(c) \/ Deny(c) \/ Reprice(c) \/ Commit(c)
    \/ NotCallable(c) \/ Run(c) \/ Attempt(c) \/ Succeed(c) \/ Fail(c) \/ Denied(c)
    \/ Outcome(c) \/ Stop(c) \/ Adapt(c) \/ Rotate(c) \/ Finish(c)

Finished == (\A c \in Calls : pc[c] = "gone") /\ UNCHANGED vars

Next ==
    \/ \E c \in Calls : Step(c)
    \/ Look \/ Control \/ RemoveAccount \/ Expire
    \/ Finished

\* A call's goroutine keeps running; the operator and time owe nothing.
Fairness == \A c \in Calls : WF_vars(Step(c))

Spec == Init /\ [][Next]_vars
FairSpec == Spec /\ Fairness

-----------------------------------------------------------------------------
\* Properties

Places == {"idle", "prepared", "started", "looked", "unstuck", "select", "routed",
           "bound", "committed", "running", "attempting", "succeeded", "failing",
           "denied", "failed", "ending", "panic", "gone"}
Actions == {"", "switch", "reselect"}
Statuses == {"", "pending", "selected", "executing", "applied", "fallback",
             "failed", "cancelled"}

States == [id : Nat, version : Nat, running : Nat, waiting : Nat,
           pending : Actions, target : Anyone, manual : Anyone,
           epoch : Nat, last : Anyone, status : Statuses, compat : Anyone]

\* Types: the counts of a session are never negative, and the map keeps
\* within its size with one entry for a session.
TypeOK ==
    /\ Entries \subseteq Keys /\ Cardinality(Entries) <= MaxEntries
    /\ order \in [Entries -> SUBSET Entries]
    /\ uid \in [Keys -> Anyone]
    /\ info \in [Keys -> States]
    /\ sequence \in Nat
    /\ expired \subseteq Entries
    /\ call \in [Calls -> [id : Nat, running : BOOLEAN, control : Nat, target : Anyone]]
    /\ selection \in [Calls -> [version : Nat, action : Actions,
                                target : Anyone, baseline : Anyone]]
    /\ pc \in [Calls -> Places]
    /\ {seen, pick, served} \subseteq [Calls -> Anyone]
    /\ sticky \in [Calls -> BOOLEAN]
    /\ retry \in [Calls -> 0..Retries] /\ attempt \in [Calls -> 0..(Attempts - 1)]
    /\ key \in [Calls -> Keys] /\ events \in 0..MaxEvents
    /\ view = NoView \/ view \in [key : Keys, version : Nat, uid : Anyone]
    /\ orphans \subseteq Calls

\* Of two entries one was used later, in a single order of all.
Ordered ==
    /\ \A j, k \in Entries : j \in order[k] <=> j # k /\ k \notin order[j]
    /\ \A j, k \in Entries : j \in order[k] => order[j] \subseteq order[k]

Live == {c \in Calls : pc[c] \notin {"idle", "prepared", "gone"}}

Running(k) == {c \in Live : key[c] = k /\ Owns(c) /\ call[c].running}
Waiting(k) == {c \in Live : key[c] = k /\ Owns(c) /\ ~call[c].running}

\* A session's running and waiting counts are the calls in these phases,
\* whatever entries were evicted, removed or made again meanwhile, and every
\* value keeps its type.
CountsExact ==
    /\ TypeOK /\ Ordered
    /\ \A k \in Keys : info[k].id # 0 =>
            /\ info[k].running = Cardinality(Running(k))
            /\ info[k].waiting = Cardinality(Waiting(k))

\* "Never evict a running or queued observation": a live call loses its entry
\* only when the operator deletes the account.
LiveKept ==
    \A c \in Live : call[c].id # 0 /\ c \notin orphans => Owns(c)

\* "Only the request that consumed this Control can report its Outcome": a
\* control is consumed by one call, and the status shown to the operator is
\* what happened to the last control: applied or fallback when the call that
\* consumed it succeeded on its target or elsewhere, executing while that call
\* is under way, pending as long as the control is.
StatusTruthful ==
    /\ \A c, d \in Calls : call[c].control = call[d].control =>
        call[c].control = 0 \/ c = d
    /\ \A k \in Keys :
        LET consumers == {c \in Calls : call[c].control = info[k].epoch}
        IN  /\ info[k].status = "pending" <=> info[k].pending # ""
            /\ info[k].status = "applied" =>
                   \E c \in consumers : served[c] # NoAccount /\ served[c] = call[c].target
            /\ info[k].status = "fallback" =>
                   \E c \in consumers : served[c] \notin {NoAccount, call[c].target}
            /\ info[k].status = "executing" =>
                   \E c \in consumers : pc[c] \in {"attempting", "succeeded", "failing", "denied"}

\* What an account was found to accept is never applied to another one.
CompatFollowsBinding ==
    \A k \in Keys : info[k].compat # NoAccount => info[k].compat = uid[k]

\* "Explicit administrator pins win": a selection without a control that will
\* be committed keeps the pinned account if that one was ready.
PinWins ==
    \A c \in Calls :
        LET k == key[c]
        IN  /\ pc[c] = "bound" /\ selection[c].action = "" /\ sticky[c]
            /\ info[k].id # 0 /\ Current(c)
            /\ info[k].manual # NoAccount /\ info[k].manual = uid[k]
            => pick[c] = uid[k]

\* What is counted, kept and shown of sessions is true of their calls; what an
\* operator pinned and what an account taught are bound to that account.
SessionsExact ==
    CountsExact /\ LiveKept /\ StatusTruthful /\ CompatFollowsBinding /\ PinWins

\* A control is consumed as the operator gave it: a switch binds its target
\* and pins it, a reselection leaves the account it was meant to leave.
ControlOnce ==
    \A k \in Keys :
        /\ info[k].pending # "" /\ info'[k].id = info[k].id
        /\ info'[k].status = "selected"
        => IF info[k].pending = "switch"
           THEN uid'[k] = info[k].target /\ info'[k].manual = info[k].target
           ELSE uid'[k] # info[k].last /\ info'[k].manual = NoAccount

ControlHonoured == [][ControlOnce]_vars

\* "An older in-flight failure must not clear a newer account binding": a call
\* that unbinds its session unbinds the account it found failing.
UnbindsWhatFailed ==
    [][\A k \in Keys :
         uid[k] # NoAccount /\ uid'[k] = NoAccount /\ info'[k].id = info[k].id =>
            \E c \in Calls : /\ key[c] = k /\ pc'[c] # pc[c]
                             /\ uid[k] \in {seen[c], pick[c]}]_vars

\* A control that cannot be honoured "restores automatic selection": it does
\* not end the call that met it.
RejectionHarmless == \A c \in Calls : pc[c] # "panic"

\* Every call that begins ends, however calls of its session and controls
\* outdate its selections.
EveryCallEnds == \A c \in Calls : pc[c] = "started" ~> pc[c] = "gone"
=============================================================================
