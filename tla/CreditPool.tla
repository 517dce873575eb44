----------------------------- MODULE CreditPool -----------------------------
(***************************************************************************)
(* Credit rejections and balance readings of the WorkBuddy channel.        *)
(*                                                                         *)
(* An upstream that rejects a call for lack of credit puts its account     *)
(* into a long cooldown (pool.OnCreditExhaustion) and queues a recheck     *)
(* (queueCreditRecheck).  Balances are read by the worker of this queue,   *)
(* by the periodic refresh and by operators, one reading per account at a  *)
(* time (RefreshGate).  A reading that finds credit lifts the cooldown, if *)
(* it began after the rejection (pool.ClearCreditCooldown).  Meanwhile the *)
(* account may be deleted or get new credentials (account_admin.go), and   *)
(* the runtime may close.                                                  *)
(***************************************************************************)
EXTENDS Integers, SequencesExt

CONSTANTS
    Accounts, NoAccount,
    Calls,        \* calls whose upstream may reject them
    Timers,       \* readers besides the worker: periodic and manual ones
    Worker,
    Soft, Long,   \* cooldown of a failure, of a credit rejection
    Interval,     \* creditRecheckInterval
    Backlog,      \* creditRecheckBacklog
    MaxClock, MaxEvents

Readers == Timers \cup {Worker}

VARIABLES
    clock, events,
    manager,    \* account -> generation of its credentials, 0 if deleted
    \* pool.Account and Pool
    cooldown, other, revision, creditRevision,
    \* creditRecheckQueue
    pending, recent, closed, worker, job,
    call,       \* call -> rejection on its way to the queue
    \* balance readings
    reader, flight, creditState, guard, lock,
    \* history: readings overtaken by a rejection; when the cooldowns that
    \* are not for lack of credit end
    overtaken, due

pool == <<cooldown, other, revision, creditRevision>>
queue == <<pending, recent, closed, worker, job>>
readings == <<reader, flight, creditState, guard, lock>>
vars == <<clock, events, manager, pool, queue, call, readings, overtaken, due>>

NoJob == [account |-> NoAccount, manager |-> 0, requested |-> 0, revision |-> 0]
NoRecent == [manager |-> 0, requested |-> 0]
NoFlight == [key |-> 0, owner |-> Worker, waiters |-> {}]
NoReading == [pc |-> "idle", account |-> NoAccount, manager |-> 0, floor |-> 0,
              revision |-> 0, found |-> ""]
\* A reading that is asked for; one after a rejection names it as its floor.
Asking(a, mgr, floor) ==
    [pc |-> "gate", account |-> a, manager |-> mgr, floor |-> floor,
     revision |-> 0, found |-> ""]
NoState == [manager |-> 0, revision |-> 0]

Init ==
    /\ clock = 0 /\ events = 0
    /\ manager = [a \in Accounts |-> 1]
    /\ cooldown = [a \in Accounts |-> 0]
    /\ other = [a \in Accounts |-> 0]
    /\ revision = [a \in Accounts |-> 0]
    /\ creditRevision = 0
    /\ pending = <<>> /\ closed = "no" /\ worker = "off" /\ job = NoJob
    /\ recent = [a \in Accounts |-> NoRecent]
    /\ call = [c \in Calls |-> NoJob]
    /\ reader = [p \in Readers |-> NoReading]
    /\ flight = [a \in Accounts |-> NoFlight]
    /\ creditState = [a \in Accounts |-> NoState]
    /\ guard = [a \in Accounts |-> ""]
    /\ lock = FALSE
    /\ overtaken = {}
    /\ due = [a \in Accounts |-> 0]

Event == events < MaxEvents /\ events' = events + 1
Greater(m, n) == IF m > n THEN m ELSE n

-----------------------------------------------------------------------------
\* Failures of calls.

\* OnFailure and markFailure
OnFailure(a) ==
    /\ manager[a] # 0 /\ Event
    /\ cooldown' = [cooldown EXCEPT ![a] = Greater(@, clock + Soft)]
    /\ other' = [other EXCEPT ![a] = Greater(@, clock + Soft)]
    /\ due' = [due EXCEPT ![a] = Greater(@, clock + Soft)]
    /\ UNCHANGED <<clock, manager, revision, creditRevision, queue, call,
                   readings, overtaken>>

\* penalizeAccount for a call with the current credentials, and
\* OnCreditExhaustion.  A rejection that is plain from its code is checked.
Exhausted(c, a) ==
    /\ call[c] = NoJob /\ manager[a] # 0 /\ Event
    /\ creditRevision' = creditRevision + 1
    /\ revision' = [revision EXCEPT ![a] = creditRevision + 1]
    /\ cooldown' = [cooldown EXCEPT ![a] = Greater(@, clock + Long)]
    /\ call' \in {call, [call EXCEPT ![c] = [account |-> a, manager |-> manager[a],
                            requested |-> 0, revision |-> creditRevision + 1]]}
    /\ overtaken' = overtaken \cup {p \in Readers : reader[p].account = a}
    /\ UNCHANGED <<clock, manager, other, queue, readings, due>>

\* Mutant: every rejection asks for a reading of its own.
AdmitsAll(q) ==
    closed = "no" /\ Len(pending) < Backlog /\ manager[q.account] = q.manager

\* Accepted by queueCreditRecheck: not closed, not full, current
\* credentials, and none of these asked for within the interval.
Admits(q) ==
    /\ closed = "no" /\ Len(pending) < Backlog
    /\ manager[q.account] = q.manager
    /\ \/ recent[q.account].manager # q.manager
       \/ clock - recent[q.account].requested >= Interval

\* queueCreditRecheck starts the worker if there is none.
QueueRecheck(c) ==
    /\ call[c] # NoJob
    /\ LET q == [call[c] EXCEPT !.requested = clock] IN
        IF Admits(q)
        THEN /\ pending' = Append(pending, q)
             /\ recent' = [recent EXCEPT ![q.account] =
                    [manager |-> q.manager, requested |-> clock]]
             /\ worker' = IF worker = "off" THEN "loop" ELSE worker
             /\ UNCHANGED <<closed, job>>
        ELSE UNCHANGED queue
    /\ call' = [call EXCEPT ![c] = NoJob]
    /\ UNCHANGED <<clock, events, manager, pool, readings, overtaken, due>>

-----------------------------------------------------------------------------
\* The worker: runCreditRechecks and recheckCredits.

\* Mutant: the worker does not notice that the runtime closes.
WorkerExitOpen ==
    /\ worker = "loop" /\ closed = "no" /\ pending = <<>>
    /\ worker' = "off"
    /\ UNCHANGED <<clock, events, manager, pool, pending, recent, closed, job,
                   call, readings, overtaken, due>>

\* Mutant: the worker leaves without a last look at the queue.
WorkerExitHasty ==
    /\ worker = "loop"
    /\ worker' = "off"
    /\ UNCHANGED <<clock, events, manager, pool, pending, recent, closed, job,
                   call, readings, overtaken, due>>

\* The worker ends, under the mutex of the queue.
WorkerExit ==
    /\ worker = "loop" /\ (closed # "no" \/ pending = <<>>)
    /\ worker' = "off"
    /\ UNCHANGED <<clock, events, manager, pool, pending, recent, closed, job,
                   call, readings, overtaken, due>>

\* The next job; one that waited too long is dropped, and one whose
\* credentials were replaced.
WorkerTake ==
    /\ worker = "loop" /\ closed = "no" /\ pending # <<>>
    /\ pending' = Tail(pending)
    /\ LET q == Head(pending) IN
        IF clock - q.requested >= Interval \/ manager[q.account] # q.manager
        THEN UNCHANGED <<worker, job, reader>>
        ELSE /\ worker' = "first"
             /\ job' = q
             /\ reader' = [reader EXCEPT ![Worker] = Asking(q.account, q.manager, q.revision)]
    /\ UNCHANGED <<clock, events, manager, pool, recent, closed, call, flight,
                   creditState, guard, lock, overtaken, due>>

\* Mutant: a reading that was joined is taken for an answer.
WorkerReturnOnce ==
    /\ worker \in {"first", "second"} /\ reader[Worker].pc \in {"ran", "joined"}
    /\ worker' = "loop" /\ job' = NoJob
    /\ reader' = [reader EXCEPT ![Worker] = NoReading]
    /\ UNCHANGED <<clock, events, manager, pool, pending, recent, closed, call,
                   flight, creditState, guard, lock, overtaken, due>>

\* refreshCreditsForManager returns.  A reading that another one had begun
\* may be older than the rejection: the worker asks once more.
WorkerReturn ==
    /\ worker \in {"first", "second"} /\ reader[Worker].pc \in {"ran", "joined"}
    /\ IF worker = "first" /\ reader[Worker].pc = "joined" /\ closed = "no"
       THEN /\ worker' = "second"
            /\ reader' = [reader EXCEPT ![Worker].pc = "gate"]
            /\ UNCHANGED job
       ELSE /\ worker' = "loop" /\ job' = NoJob
            /\ reader' = [reader EXCEPT ![Worker] = NoReading]
    /\ UNCHANGED <<clock, events, manager, pool, pending, recent, closed, call,
                   flight, creditState, guard, lock, overtaken, due>>

\* close: no more jobs; the running one is cancelled and waited for.
Close ==
    /\ closed = "no" /\ Event
    /\ closed' = "waiting"
    /\ pending' = <<>>
    /\ recent' = [a \in Accounts |-> NoRecent]
    /\ UNCHANGED <<clock, manager, pool, worker, job, call, readings,
                   overtaken, due>>

Closed ==
    /\ closed = "waiting" /\ worker = "off"
    /\ closed' = "yes"
    /\ UNCHANGED <<clock, events, manager, pool, pending, recent, worker, job,
                   call, readings, overtaken, due>>

-----------------------------------------------------------------------------
\* Balance readings.

others == <<clock, manager, pool, queue, call, due>>

\* RefreshCreditsFor of the periodic refresh or of an operator.
Refresh(p, a) ==
    /\ p \in Timers /\ reader[p] = NoReading /\ manager[a] # 0 /\ Event
    /\ reader' = [reader EXCEPT ![p] = Asking(a, manager[a], 0)]
    /\ UNCHANGED <<others, flight, creditState, guard, lock, overtaken>>

\* RefreshGate.Do: join the flight of the account or start one.
Gate(p) ==
    LET a == reader[p].account IN
    /\ reader[p].pc = "gate"
    /\ IF flight[a] = NoFlight
       THEN /\ flight' = [flight EXCEPT ![a] =
                    [key |-> reader[p].manager, owner |-> p, waiters |-> {}]]
            /\ reader' = [reader EXCEPT ![p].pc = "enter"]
       ELSE /\ flight' = [flight EXCEPT ![a].waiters = @ \cup {p}]
            /\ reader' = [reader EXCEPT ![p].pc = "wait"]
    /\ UNCHANGED <<others, events, creditState, guard, lock, overtaken>>

\* The end of a flight.  A waiter with other credentials starts over.
Land(p, result) ==
    LET a == reader[p].account IN
    /\ flight' = [flight EXCEPT ![a] = NoFlight]
    /\ reader' = [q \in Readers |->
            IF q = p THEN [reader[q] EXCEPT !.pc = "ran", !.found = result]
            ELSE IF q \notin flight[a].waiters THEN reader[q]
            ELSE IF reader[q].manager # flight[a].key THEN [reader[q] EXCEPT !.pc = "gate"]
            ELSE [reader[q] EXCEPT !.pc = "joined", !.found = result]]
    /\ overtaken' = overtaken \ {p}

\* A wait that ends early: the worker's, when the runtime closes or after
\* creditRecheckTimeout.
Cancelled(p) ==
    /\ p = Worker /\ reader[p].pc \in {"gate", "wait"}
    /\ IF closed = "no" THEN Event ELSE UNCHANGED events
    /\ reader' = [reader EXCEPT ![p].pc = "ran", ![p].found = "cut"]
    /\ flight' = [flight EXCEPT ![reader[p].account].waiters = @ \ {p}]
    /\ UNCHANGED <<others, creditState, guard, lock, overtaken>>

\* A newer reading of these credentials makes the worker's unnecessary.
Settled(a, mgr, floor) ==
    /\ creditState[a].manager = mgr
    /\ creditState[a].revision >= Greater(floor, revision[a])

\* The reading begins, unless the credentials were replaced, the rejection
\* is settled, or maintenance of the account is paused (Recover).
Enter(p) ==
    LET a == reader[p].account
        settled == /\ reader[p].floor > 0
                   /\ Settled(a, reader[p].manager, reader[p].floor) IN
    /\ reader[p].pc = "enter"
    /\ IF manager[a] # reader[p].manager THEN Land(p, "cut")
       ELSE IF settled THEN Land(p, "read")
       ELSE IF guard[a] \in {"paused", "login"} THEN Land(p, "cut")
       ELSE /\ reader' = [reader EXCEPT ![p].pc = "query", ![p].revision = revision[a]]
            /\ overtaken' = overtaken \ {p}
            /\ UNCHANGED flight
    /\ UNCHANGED <<others, events, creditState, guard, lock>>

\* observeBilling of a failed reading: a pause, or closed until a new login.
Failure(a) ==
    \E kind \in {"paused", "login"} :
        guard' = [guard EXCEPT ![a] = IF @ = "login" THEN @ ELSE kind]

\* There are no headers, or the upstream answers.  A reading whose token was
\* renewed meanwhile, or whose context ended, is discarded.
Query(p) ==
    LET a == reader[p].account IN
    /\ reader[p].pc = "query"
    /\ \/ /\ \E found \in {"credit", "none"} :
                reader' = [reader EXCEPT ![p].pc = "record", ![p].found = found]
          /\ UNCHANGED <<events, flight, overtaken, guard>>
       \/ /\ Event
          /\ reader' = [reader EXCEPT ![p].pc = "record", ![p].found = "failed"]
          /\ UNCHANGED <<flight, overtaken, guard>>
       \/ /\ Event /\ Land(p, "cut")
          /\ \/ UNCHANGED guard
             \/ manager[a] = reader[p].manager /\ Failure(a)
    /\ UNCHANGED <<others, creditState, lock>>

\* refreshCreditsFor takes AccountMu and records the state of the reading.
Record(p) ==
    LET a == reader[p].account IN
    /\ reader[p].pc = "record" /\ ~lock
    /\ IF manager[a] # reader[p].manager
       THEN Land(p, "cut") /\ UNCHANGED <<creditState, guard, lock>>
       ELSE /\ creditState' = [creditState EXCEPT ![a] =
                    [manager |-> manager[a], revision |-> reader[p].revision]]
            /\ IF reader[p].found = "failed"
               THEN /\ Failure(a)
                    /\ Land(p, "read")
                    /\ UNCHANGED lock
               ELSE /\ guard' = [guard EXCEPT ![a] = IF @ = "login" THEN @ ELSE ""]
                    /\ lock' = TRUE
                    /\ reader' = [reader EXCEPT ![p].pc = "apply"]
                    /\ UNCHANGED <<flight, overtaken>>
    /\ UNCHANGED <<others, events>>

\* Mutant: a reading with credit lifts every cooldown for lack of it.
ClearAnyCredit(a, at) ==
    cooldown' = [cooldown EXCEPT ![a] = IF revision[a] # 0 THEN other[a] ELSE @]

\* ClearCreditCooldown
ClearCreditCooldown(a, at) ==
    cooldown' = [cooldown EXCEPT ![a] =
        IF at # 0 /\ revision[a] = at THEN other[a] ELSE @]

\* SetCredits, and the cooldown of the rejection the reading began after.
Apply(p) ==
    LET a == reader[p].account IN
    /\ reader[p].pc = "apply"
    /\ IF reader[p].found = "credit"
       THEN ClearCreditCooldown(a, reader[p].revision)
       ELSE UNCHANGED cooldown
    /\ lock' = FALSE
    /\ Land(p, "read")
    /\ UNCHANGED <<clock, events, manager, other, revision, creditRevision,
                   queue, call, due, creditState, guard>>

TimerReturn(p) ==
    /\ p \in Timers /\ reader[p].pc \in {"ran", "joined"}
    /\ reader' = [reader EXCEPT ![p] = NoReading]
    /\ UNCHANGED <<others, events, flight, creditState, guard, lock, overtaken>>

-----------------------------------------------------------------------------
\* Operators and time.

\* RegisterAuthUpload: a known account keeps its cooldown.
RegisterAuthUpload(a) ==
    /\ ~lock /\ Event
    /\ manager' = [manager EXCEPT ![a] = events + 2]
    /\ guard' = [guard EXCEPT ![a] = ""]
    /\ UNCHANGED <<clock, pool, queue, call, reader, flight, creditState, lock,
                   overtaken, due>>

\* DeleteAccount: the account object goes, with its cooldowns.
DeleteAccount(a) ==
    /\ ~lock /\ manager[a] # 0 /\ Event
    /\ manager' = [manager EXCEPT ![a] = 0]
    /\ cooldown' = [cooldown EXCEPT ![a] = 0]
    /\ other' = [other EXCEPT ![a] = 0]
    /\ revision' = [revision EXCEPT ![a] = 0]
    /\ due' = [due EXCEPT ![a] = 0]
    /\ UNCHANGED <<clock, creditRevision, queue, call, readings, overtaken>>

\* RetryAt of the maintenance guard passes.
Resume(a) ==
    /\ guard[a] = "paused"
    /\ guard' = [guard EXCEPT ![a] = "retry"]
    /\ UNCHANGED <<others, events, reader, flight, creditState, lock, overtaken>>

Tick ==
    /\ clock < MaxClock
    /\ clock' = clock + 1
    /\ UNCHANGED <<events, manager, pool, queue, call, readings, overtaken, due>>

\* Nothing left to do.
Quiet ==
    /\ clock = MaxClock /\ events = MaxEvents /\ worker = "off"
    /\ \A c \in Calls : call[c] = NoJob
    /\ \A p \in Readers : reader[p] = NoReading
    /\ UNCHANGED vars

-----------------------------------------------------------------------------
Reading(p) == Gate(p) \/ Cancelled(p) \/ Enter(p) \/ Query(p) \/ Record(p)
              \/ Apply(p) \/ TimerReturn(p)

Working == WorkerExit \/ WorkerTake \/ WorkerReturn

Next ==
    \/ \E a \in Accounts :
        \/ OnFailure(a) \/ RegisterAuthUpload(a) \/ DeleteAccount(a) \/ Resume(a)
        \/ \E c \in Calls : Exhausted(c, a)
        \/ \E p \in Timers : Refresh(p, a)
    \/ \E c \in Calls : QueueRecheck(c)
    \/ \E p \in Readers : Reading(p)
    \/ Working \/ Close \/ Closed \/ Tick \/ Quiet

Spec == Init /\ [][Next]_vars

\* Goroutines run, and readings end: they have a timeout.
Fairness ==
    /\ WF_vars(Working) /\ WF_vars(Closed)
    /\ \A c \in Calls : WF_vars(QueueRecheck(c))
    /\ \A p \in Readers : WF_vars(Reading(p))

FairSpec == Spec /\ Fairness

-----------------------------------------------------------------------------
Jobs == [account : Accounts, manager : 1..(MaxEvents + 1),
         requested : 0..MaxClock, revision : 1..MaxEvents] \cup {NoJob}

ReaderStates ==
    [pc : {"idle", "gate", "wait", "enter", "query", "record", "apply", "ran", "joined"},
     account : Accounts \cup {NoAccount}, manager : 0..(MaxEvents + 1),
     floor : 0..MaxEvents, revision : 0..MaxEvents,
     found : {"", "credit", "none", "failed", "read", "cut"}]

PoolType ==
    /\ manager \in [Accounts -> 0..(MaxEvents + 1)]
    /\ cooldown \in [Accounts -> Nat] /\ other \in [Accounts -> Nat]
    /\ due \in [Accounts -> Nat]
    /\ creditRevision \in 0..MaxEvents
    /\ revision \in [Accounts -> 0..creditRevision]

QueueType ==
    /\ pending \in Seq(Jobs \ {NoJob}) /\ Len(pending) <= Backlog
    /\ recent \in [Accounts -> [manager : 0..(MaxEvents + 1), requested : 0..MaxClock]]
    /\ closed \in {"no", "waiting", "yes"}
    /\ worker \in {"off", "loop", "first", "second"}
    /\ job \in Jobs /\ call \in [Calls -> Jobs]

ReadingType ==
    /\ reader \in [Readers -> ReaderStates]
    /\ flight \in [Accounts -> [key : 0..(MaxEvents + 1), owner : Readers,
                               waiters : SUBSET Readers]]
    /\ creditState \in [Accounts -> [manager : 0..(MaxEvents + 1),
                                    revision : 0..MaxEvents]]
    /\ guard \in [Accounts -> {"", "paused", "retry", "login"}]
    /\ lock \in BOOLEAN
    /\ overtaken \subseteq Readers

TypeOK ==
    /\ clock \in 0..MaxClock /\ events \in 0..MaxEvents
    /\ PoolType /\ QueueType /\ ReadingType

\* "A balance reading can clear only the credit rejection it started after":
\* a cooldown gets shorter only by a reading that no rejection of its
\* account overtook, whatever was deleted, uploaded or read meanwhile.
RejectionStands ==
    [][\A a \in Accounts :
        cooldown'[a] < cooldown[a] /\ manager'[a] # 0 =>
            \E p \in Readers \ overtaken :
                reader[p].account = a /\ reader[p].pc = "apply"]_vars

\* Lifting a credit cooldown leaves the cooldowns for other failures.
OtherFaultsStand == \A a \in Accounts : cooldown[a] >= due[a]

\* A queued recheck always has a worker that will see it.
NoLostJob == pending # <<>> => worker # "off"

\* The job's reading did not come about, its credentials were replaced, or
\* it began after the rejection.
Answered ==
    \/ reader[Worker].found = "cut" \/ closed # "no"
    \/ manager[job.account] # job.manager
    \/ /\ creditState[job.account].manager = job.manager
       /\ creditState[job.account].revision >= job.revision

\* "A manual or periodic read that began before the rejection cannot settle
\* it": a recheck that ends with a reading ends with one of its credentials
\* that began after its rejection.
RecheckAnswers ==
    [][job # NoJob /\ job' = NoJob => Answered]_vars

\* Within the interval an account is read again only for new credentials:
\* of the jobs that are not too old, no two are for the same.
OneLiveJob ==
    \A i, j \in DOMAIN pending :
        /\ i # j
        /\ pending[i].account = pending[j].account
        /\ pending[i].manager = pending[j].manager
        => clock - pending[i].requested >= Interval
           \/ clock - pending[j].requested >= Interval

\* A queued recheck always has a worker that will see it, and no two live ones
\* are for the same credentials (queueCreditRecheck, runCreditRechecks).
QueueSound == TypeOK /\ NoLostJob /\ OneLiveJob

\* A balance reading lifts only the rejection that it began after, never the
\* cooldown of another failure, and no older one answers a recheck
\* (ClearCreditCooldown, recheckCredits).
RejectionsStand == []OtherFaultsStand /\ RejectionStands /\ RecheckAnswers

\* Queued rechecks are worked off: no reader waits for another forever.
RechecksDrain == pending # <<>> ~> pending = <<>>

\* Close returns: the worker ends even if it waits for another reading.
CloseReturns == closed = "waiting" ~> closed = "yes"
=============================================================================
