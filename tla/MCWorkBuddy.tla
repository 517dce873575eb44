---------------------------- MODULE MCWorkBuddy ----------------------------
(***************************************************************************)
(* The accounts of the WorkBuddy channel: the attempt loop (Failover),     *)
(* credit rejections and balances (CreditPool) and credentials             *)
(* (Credentials), which meet only in the account states each of them lets  *)
(* its environment change.  A behaviour is one of a single part; the       *)
(* attempt loop runs for one request of each kind of key.                  *)
(***************************************************************************)
EXTENDS Failover

CONSTANTS
    Calls, Timers, Worker, Soft, Long, Interval, Backlog, MaxClock,
    CreditAccounts, CreditEvents,
    Callers, MaxManagers, MaxTokens, TokenEvents

VARIABLES
    part,
    clock, creditEvents, manager, cooldown, other, revision, creditRevision,
    pending, recent, closed, worker, job, call, reader, reading, creditState,
    creditGuard, lock, overtaken, due,
    file, minted, current, made, admin, cached, retired, mutex, renewal,
    denied, loginGuard, caller, rejected, tokenEvents, dead, uploaded

balances ==
    <<clock, creditEvents, manager, cooldown, other, revision, creditRevision,
      pending, recent, closed, worker, job, call, reader, reading,
      creditState, creditGuard, lock, overtaken, due>>
logins ==
    <<file, minted, current, made, admin, cached, retired, mutex, renewal,
      denied, loginGuard, caller, rejected, tokenEvents, dead, uploaded>>

Balances == INSTANCE CreditPool
    WITH Accounts <- CreditAccounts, MaxEvents <- CreditEvents,
         events <- creditEvents, flight <- reading, guard <- creditGuard

Logins == INSTANCE Credentials
    WITH MaxEvents <- TokenEvents, events <- tokenEvents, flight <- renewal,
         guard <- loginGuard

MCInit ==
    /\ part \in Requests \cup {"credit", "tokens"}
    /\ Init /\ Balances!Init /\ Logins!Init

\* The attempt loop of one request.
Alone ==
    /\ part \in Requests
    /\ \/ Step(part) \/ Environment
       \/ pc[part] = "done" /\ UNCHANGED vars
    /\ UNCHANGED <<part, balances, logins>>

CreditNext ==
    part = "credit" /\ Balances!Next /\ UNCHANGED <<part, vars, logins>>

TokensNext ==
    part = "tokens" /\ Logins!Next /\ UNCHANGED <<part, vars, balances>>

MCNext == Alone \/ CreditNext \/ TokensNext

MCSpec == MCInit /\ [][MCNext]_<<part, vars, balances, logins>>

\* The fairness of each part.
MCFairness ==
    /\ \A r \in Requests :
        WF_vars(part = r /\ Step(r) /\ ~HeadersLogin(r))
    /\ WF_balances(part = "credit" /\ Balances!Working)
    /\ WF_balances(part = "credit" /\ Balances!Closed)
    /\ \A c \in Calls : WF_balances(part = "credit" /\ Balances!QueueRecheck(c))
    /\ \A p \in Timers \cup {Worker} :
        WF_balances(part = "credit" /\ Balances!Reading(p))
    /\ \A m \in 1..MaxManagers : WF_logins(part = "tokens" /\ Logins!Renewal(m))

MCFairSpec == MCSpec /\ MCFairness

-----------------------------------------------------------------------------
\* The properties of CreditPool and Credentials, stated there; those of Failover
\* hold in the other parts, too, where no request moves.

\* A queued recheck always has a worker that will see it, and no two live ones
\* are for the same credentials.
QueueSound == Balances!QueueSound

\* A renewal never overwrites uploaded credentials or revives deleted ones;
\* recovery from a rejected token ends with another one; a new login is asked
\* for only over the token that needs it.
LoginsFit == Logins!LoginsFit

\* A balance reading lifts only the rejection that it began after, never the
\* cooldown of another failure, and no older one answers a recheck.
RejectionsStand == Balances!RejectionsStand

-----------------------------------------------------------------------------
\* Queued rechecks are worked off, and closing the runtime's queue returns.
RechecksEnd == Balances!RechecksDrain /\ Balances!CloseReturns
=============================================================================
