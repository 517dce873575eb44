---------------------------- MODULE AccountChecks ----------------------------
(***************************************************************************)
(* Account checks: accountCheckBook keeps one flight per account and two   *)
(* slots for all of them, and binds every result to the credentials it was *)
(* obtained with (checkIdentity).  Administrators check and test accounts, *)
(* a tick checks what is due, and credentials change, are taken away or    *)
(* are being renewed, without an identity to show, at any moment.          *)
(***************************************************************************)
EXTENDS Integers, FiniteSets

CONSTANTS
    Accounts,
    Callers,     \* administrators and the workers of checkAccountsTick
    Slots,
    MaxChanges,  \* changes of credentials
    Nobody

VARIABLES
    cred,      \* account -> its credentials now, numbered as they come; 0: deleted
    identity,  \* account -> what checkIdentity shows of them; 0: nothing just now
    changes,
    flight,    \* account -> leader of its flight, or Nobody
    entry,     \* account -> check that is kept: identity, credentials tried, due
    tested,    \* account -> the same of the last model test
    testing,   \* testRunning
    caller

vars == <<cred, identity, changes, flight, entry, tested, testing, caller>>
accounts == <<cred, identity, changes>>
book == <<flight, entry, tested, testing>>

Idle == [at |-> "idle"]
NoEntry == [identity |-> 0, by |-> 0, due |-> TRUE]

InSlot == {c \in Callers : caller[c].at \in {"slot", "probe"}}
Probing(a) == {c \in Callers : caller[c].at = "probe" /\ caller[c].account = a}

Init ==
    /\ cred = [a \in Accounts |-> 1]
    /\ identity = [a \in Accounts |-> 1]
    /\ changes = 0
    /\ flight = [a \in Accounts |-> Nobody]
    /\ entry = [a \in Accounts |-> NoEntry]
    /\ tested = [a \in Accounts |-> NoEntry]
    /\ testing = FALSE
    /\ caller = [c \in Callers |-> Idle]

Become(c, p) == caller' = [caller EXCEPT ![c] = p]

\* Where a caller is, for which account, with the identity it read, and with the
\* credentials that were tried (0: none yet, or nothing was learnt).
At(at, a, id, by) == [at |-> at, account |-> a, identity |-> id, by |-> by]

\* run: the identity is read before the book is locked.
Enter(c, a) ==
    /\ caller[c] = Idle
    /\ Become(c, At("enter", a, identity[a], 0))
    /\ UNCHANGED <<accounts, book>>

\* A flight is joined, an entry that is not due answers, or the caller leads.
Look(c, force) ==
    LET p == caller[c] IN
    /\ p.at = "enter"
    /\ IF flight[p.account] # Nobody
       THEN Become(c, [p EXCEPT !.at = "wait"]) /\ UNCHANGED flight
       ELSE IF ~force /\ entry[p.account].identity = p.identity /\ ~entry[p.account].due
       THEN /\ Become(c, At("answered", p.account, p.identity, entry[p.account].by))
            /\ UNCHANGED flight
       ELSE /\ Become(c, [p EXCEPT !.at = "lead"])
            /\ flight' = [flight EXCEPT ![p.account] = c]
    /\ UNCHANGED <<accounts, entry, tested, testing>>

\* The leader waits for one of the slots.
TakeSlot(c) ==
    /\ caller[c].at = "lead"
    /\ Cardinality(InSlot) < Slots
    /\ Become(c, [caller[c] EXCEPT !.at = "slot"])
    /\ UNCHANGED <<accounts, book>>

\* No check without an identity; its slot is given back before the flight lands.
Probe(c) ==
    LET p == caller[c] IN
    /\ p.at = "slot"
    /\ Become(c, [p EXCEPT !.at = IF identity[p.account] = 0 THEN "landing" ELSE "probe"])
    /\ UNCHANGED <<accounts, book>>

\* CheckAccount tries the credentials as they are then, which may be others.
Try(c) ==
    LET p == caller[c] IN
    /\ p.at = "probe" /\ p.by = 0
    /\ Become(c, [p EXCEPT !.by = cred[p.account]])
    /\ UNCHANGED <<accounts, book>>

\* Mutant: the identity is not compared again after the check.
StillFitsBefore(id, a) == TRUE

StillFits(id, a) == identity[a] = id

\* The check ends, or its time is up; what it says is kept unless the identity
\* changed meanwhile.
Publish(c) ==
    LET p == caller[c] IN
    /\ p.at = "probe"
    /\ IF StillFits(p.identity, p.account)
       THEN \E by \in {p.by, 0} :
            /\ entry' = [entry EXCEPT ![p.account] =
                            [identity |-> p.identity, by |-> by, due |-> FALSE]]
            /\ Become(c, At("landing", p.account, p.identity, by))
       ELSE Become(c, At("landing", p.account, p.identity, 0)) /\ UNCHANGED entry
    /\ UNCHANGED <<accounts, flight, tested, testing>>

\* The deferred end of a flight: its waiters are woken with the result.
Land(c) ==
    LET p == caller[c]
        waiting == {d \in Callers : caller[d].at = "wait" /\ caller[d].account = p.account}
    IN  /\ p.at = "landing"
        /\ flight' = [flight EXCEPT ![p.account] = Nobody]
        /\ caller' = [d \in Callers |->
                        IF d = c THEN [p EXCEPT !.at = "answered"]
                        ELSE IF d \notin waiting THEN caller[d]
                        ELSE [at |-> "woken", account |-> p.account,
                              identity |-> caller[d].identity, for |-> p.identity, by |-> p.by]]
        /\ UNCHANGED <<accounts, entry, tested, testing>>

\* A waiter takes the result of its flight if it is for the identity it read,
\* and that is still the account's.
Joins(p) == p.for = p.identity /\ StillFits(p.identity, p.account)

Wake(c) ==
    LET p == caller[c] IN
    /\ p.at = "woken"
    /\ Become(c, At("answered", p.account, p.identity, IF Joins(p) THEN p.by ELSE 0))
    /\ UNCHANGED <<accounts, book>>

\* The caller's context ends: while it waits, before it has a slot, or while the
\* check runs, which then is not published.
Leave(c) ==
    LET p == caller[c] IN
    /\ \/ p.at = "wait" /\ Become(c, [p EXCEPT !.at = "answered"])
       \/ p.at \in {"lead", "probe"} /\ Become(c, At("landing", p.account, p.identity, 0))
    /\ UNCHANGED <<accounts, book>>

Again(c) ==
    /\ caller[c].at = "answered"
    /\ Become(c, Idle)
    /\ UNCHANGED <<accounts, book>>

-----------------------------------------------------------------------------
\* adminAccountTest: one model test at a time, on one account only.
Test(c, a) ==
    /\ caller[c] = Idle /\ ~testing
    /\ testing' = TRUE
    /\ Become(c, At("test", a, identity[a], 0))
    /\ UNCHANGED <<accounts, flight, entry, tested>>

\* The dispatch check refuses another identity than the test began with.
TestSend(c) ==
    LET p == caller[c] IN
    /\ p.at = "test" /\ p.by = 0
    /\ StillFits(p.identity, p.account)
    /\ Become(c, [p EXCEPT !.by = cred[p.account]])
    /\ UNCHANGED <<accounts, book>>

\* saveTest keeps what still fits, if only that the test failed.
TestDone(c) ==
    LET p == caller[c] IN
    /\ p.at = "test"
    /\ testing' = FALSE
    /\ IF StillFits(p.identity, p.account)
       THEN \E by \in {p.by, 0} :
            /\ tested' = [tested EXCEPT ![p.account] =
                            [identity |-> p.identity, by |-> by, due |-> FALSE]]
            /\ Become(c, At("answered", p.account, p.identity, by))
       ELSE Become(c, At("answered", p.account, p.identity, 0)) /\ UNCHANGED tested
    /\ UNCHANGED <<accounts, flight, entry>>

-----------------------------------------------------------------------------
\* Credentials are renewed, replaced or deleted.
Change(a) ==
    /\ changes < MaxChanges
    /\ changes' = changes + 1
    /\ \E new \in {changes + 2, 0} :
        cred' = [cred EXCEPT ![a] = new] /\ identity' = [identity EXCEPT ![a] = new]
    /\ UNCHANGED <<book, caller>>

\* While Trae's are being renewed they show no identity, and then the same again
\* if the renewal failed (TryMaintenanceIdentity).
Renewing(a) ==
    /\ identity' = [identity EXCEPT ![a] = IF @ = 0 THEN cred[a] ELSE 0]
    /\ UNCHANGED <<cred, changes, book, caller>>

\* The period passes.
Due(a) ==
    /\ entry' = [entry EXCEPT ![a].due = TRUE]
    /\ UNCHANGED <<accounts, flight, tested, testing, caller>>

\* The tick drops what belongs to no account any more.
Prune(a) ==
    /\ cred[a] = 0 /\ flight[a] = Nobody
    /\ entry' = [entry EXCEPT ![a] = NoEntry]
    /\ tested' = [tested EXCEPT ![a] = NoEntry]
    /\ UNCHANGED <<accounts, flight, testing, caller>>

Next ==
    \/ \E c \in Callers :
        \/ \E a \in Accounts : Enter(c, a) \/ Test(c, a)
        \/ \E force \in BOOLEAN : Look(c, force)
        \/ TakeSlot(c) \/ Probe(c) \/ Try(c) \/ Publish(c) \/ Land(c) \/ Wake(c)
        \/ Leave(c) \/ Again(c) \/ TestSend(c) \/ TestDone(c)
    \/ \E a \in Accounts : Change(a) \/ Renewing(a) \/ Due(a) \/ Prune(a)

Spec == Init /\ [][Next]_vars

-----------------------------------------------------------------------------
\* A check or a test speaks only of the credentials it was made with: neither
\* an answer nor what the page shows (snapshot) attributes to one credential
\* what another showed, whenever credentials change and whoever waited.  What
\* an account shows while it has no identity is not covered: a check that began
\* and ended at such moments is kept for them.
ChecksFit ==
    /\ \A a \in Accounts : \A e \in {entry[a], tested[a]} :
        identity[a] # 0 /\ e.identity = identity[a] => e.by \in {identity[a], 0}
    /\ \A c \in Callers : caller[c].at = "answered" /\ caller[c].identity # 0
        => caller[c].by \in {caller[c].identity, 0}

\* However many ask, an account is checked once at a time, at most Slots
\* accounts are, and no flight is left without a leader to land it.
ChecksBounded ==
    /\ \A a \in Accounts : Cardinality(Probing(a)) <= 1
    /\ Cardinality(InSlot) <= Slots
    /\ \A a \in Accounts : flight[a] # Nobody =>
        /\ caller[flight[a]].at \in {"lead", "slot", "probe", "landing"}
        /\ caller[flight[a]].account = a
===============================================================================
