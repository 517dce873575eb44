----------------------------- MODULE MCLiveness -----------------------------
(***************************************************************************)
(* What must eventually happen in the WorkBuddy channel: the parts of      *)
(* MCWorkBuddy and, as one more of them, the calls of the session router,  *)
(* each under the fairness of its own goroutines.                          *)
(***************************************************************************)
EXTENDS MCWorkBuddy

CONSTANTS
    SessionCalls, Sessions, SessionAccounts, International, MaxEntries,
    Retries, SessionAttempts, SessionEvents

VARIABLES
    order, uid, info, sequence, expired, sessionCall, selection, place, seen,
    candidate, sticky, round, tries, served, session, view, sessionEvents,
    orphans

sessions ==
    <<order, uid, info, sequence, expired, sessionCall, selection, place,
      seen, candidate, sticky, round, tries, served, session, view,
      sessionEvents, orphans>>

Routing == INSTANCE SessionRouter
    WITH Calls <- SessionCalls, Keys <- Sessions,
         Accounts <- SessionAccounts, Attempts <- SessionAttempts,
         MaxEvents <- SessionEvents, Unlimited <- FALSE,
         call <- sessionCall, pc <- place, pick <- candidate, key <- session,
         retry <- round, attempt <- tries, events <- sessionEvents

LiveInit ==
    /\ part \in Requests \cup {"credit", "tokens", "router"}
    /\ Init /\ Balances!Init /\ Logins!Init /\ Routing!Init

RouterNext ==
    part = "router" /\ Routing!Next /\ UNCHANGED <<part, vars, balances, logins>>

LiveNext == (MCNext /\ UNCHANGED sessions) \/ RouterNext

LiveSpec ==
    /\ LiveInit /\ [][LiveNext]_<<part, vars, balances, logins, sessions>>
    /\ MCFairness
    /\ \A c \in SessionCalls : WF_sessions(part = "router" /\ Routing!Step(c))

\* What every caller may rely on: a request ends although repairs, renewals and
\* rotation combine, whoever waits for a token renewal is answered, and a call
\* of a session ends although others and controls outdate its selections.
CallsEnd == EveryRequestEnds /\ Logins!CallersReturn /\ Routing!EveryCallEnds

=============================================================================
