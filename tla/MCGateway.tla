------------------------------ MODULE MCGateway ------------------------------
(***************************************************************************)
(* The gateway's own components for TLC, each on a small instance: the     *)
(* people of a server who log in, change passwords and manage each other   *)
(* (Identity), registrations that compete for one invite code (Identity    *)
(* again), the accounts users lend (Contributions, once for scans and once *)
(* for channels), media tasks (Media), the quota ledger (Quota), account   *)
(* checks (AccountChecks), what a request is lent (Capacity) and what it   *)
(* may be sent to (ModelRoutes).  They share no state, so a behaviour is   *)
(* one of a single part: registrations and lent accounts use x1, x2, ...,  *)
(* the others have variables of their own.                                 *)
(***************************************************************************)
EXTENDS Identity, Sequences, TLC

CONSTANTS
    Owner, Admin, Secret, Code, Clients,
    Absent, Lenders, Tasks, Lent,
    Workers, Checked, CheckSlots, CheckChanges,
    Calls, LimitRequests, LimitTokens, CallTokens, LastDay,
    BodySlots, BodyWaiting, Budget, MaxBody, HeavySlots,
    Members, Hosts, Serves, Own, Apps, Lists, Policies, Lineups, Questions, MaxEdits

ASSUME GatewayAssumption ==
    /\ \A S \in {Handlers, Clients, Tasks, Calls} : IsFiniteSet(S)
    /\ Tasks # {}
    /\ Absent \notin Handlers \cup Workers \cup Tasks \cup Calls
    /\ Recovery \notin Clients /\ NoCode # Code
    /\ {CheckSlots, LimitRequests, LimitTokens, CallTokens, LastDay} \subseteq Nat
    /\ {BodySlots, BodyWaiting, Budget, MaxBody, HeavySlots} \subseteq Nat
    /\ Serves \in [Members -> SUBSET Hosts]
    /\ Lineups \subseteq Seq(Members) /\ Absent \notin Members

VARIABLES
    part,
    cred, identity, changes, flight, entry, tested, testing, caller,
    task, upstream, submit, told, query, poller, allowed, queries, restarts,
    today, bucket, call,
    slots, waiting, used, heavy, refresh, req,
    policy, ready, route, edits, cache, key, approved, affinity, question,
    x1, x2, x3, x4, x5, x6, x7, x8, x9, x10, x11

checking == <<cred, identity, changes, flight, entry, tested, testing, caller>>
making == <<task, upstream, submit, told, query, poller, allowed, queries, restarts>>
charging == <<today, bucket, call>>
lending == <<slots, waiting, used, heavy, refresh, req>>
routing == <<policy, ready, route, edits, cache, key, approved, affinity, question>>
rest == <<x1, x2, x3, x4, x5, x6, x7, x8, x9, x10, x11>>

Team == [u \in Users |-> CASE u = Owner -> "owner" [] u = Admin -> "admin"]
NoClients == [u \in Clients |-> "none"]

Registrations == INSTANCE Identity
    WITH Users <- Clients, Secrets <- {Secret}, Codes <- {Code}, Settled <- NoClients,
         user <- x1, session <- x2, admins <- x3, issued <- x4, invite <- x5,
         redeemed <- x6, hashes <- x7, handler <- x8, ops <- x9, proof <- x10,
         expelled <- x11

-----------------------------------------------------------------------------
\* Two users with one login each, for one account; and one channel's account.

Scans == INSTANCE Contributions
    WITH Users <- Lenders, Scanned <- {Lent}, Channel <- {}, MaxPerUser <- 1, MaxTasks <- 2,
         Nobody <- Absent,
         active <- x1, settled <- x2, task <- x3, contribution <- x4, file <- x5,
         pool <- x6, holder <- x7, proc <- x8, consent <- x9, cancelled <- x10,
         activator <- x11

Imports == INSTANCE Contributions
    WITH Users <- Lenders, Scanned <- {}, Channel <- {Lent},
         Tasks <- {CHOOSE t \in Tasks : TRUE},
         MaxPerUser <- 1, MaxTasks <- 2, Nobody <- Absent,
         active <- x1, settled <- x2, task <- x3, contribution <- x4, file <- x5,
         pool <- x6, holder <- x7, proc <- x8, consent <- x9, cancelled <- x10,
         activator <- x11

-----------------------------------------------------------------------------
Generation == INSTANCE Media
    WITH Clients <- Handlers, MaxRestarts <- 1, Nobody <- Absent,
         flight <- query, caller <- poller

-----------------------------------------------------------------------------
Ledger == INSTANCE Quota
    WITH MaxTokens <- CallTokens

Checks == INSTANCE AccountChecks
    WITH Accounts <- Checked, Callers <- Handlers, Slots <- CheckSlots,
         MaxChanges <- CheckChanges, Nobody <- Absent

Guard == INSTANCE Capacity
    WITH Requests <- Calls, Nobody <- Absent, flight <- refresh

-----------------------------------------------------------------------------
\* Two models: one on a shared account, the other on the user's own.
CONSTANTS ChatModel, VisionModel, Common, Private

AccountOf == ChatModel :> {Common} @@ VisionModel :> {Private}

KeyLists ==
    {[policy |-> p, logical |-> FALSE, explicit |-> {}] : p \in {"fixed", "follow"}}
    \cup {[policy |-> "fixed", logical |-> TRUE, explicit |-> {}],
          [policy |-> "fixed", logical |-> FALSE, explicit |-> {VisionModel}]}

Policy(d, g, x, w) == [defaults |-> d, granted |-> g, disabled |-> x, withdrawn |-> w]
AccessPolicies ==
    {Policy({}, {ChatModel}, {}, {}), Policy({ChatModel}, {}, {VisionModel}, {Common})}

OneOrBoth == {<<ChatModel>>, <<ChatModel, VisionModel>>}

Routes == INSTANCE ModelRoutes
    WITH Accounts <- Hosts, Keys <- Apps, Requests <- Questions, None <- Absent,
         req <- question

-----------------------------------------------------------------------------
No(x) == x = Absent

\* The identities in the other parts: one state, which nobody changes.
Apart == Init /\ \A u \in Users : user[u].role = "none"

NoChecks ==
    /\ No(cred) /\ No(identity) /\ No(changes) /\ No(flight)
    /\ No(entry) /\ No(tested) /\ No(testing) /\ No(caller)
NoTasks ==
    /\ No(task) /\ No(upstream) /\ No(submit) /\ No(told) /\ No(query)
    /\ No(poller) /\ No(allowed) /\ No(queries) /\ No(restarts)
NoCharges == No(today) /\ No(bucket) /\ No(call)
NoLoans == No(slots) /\ No(waiting) /\ No(used) /\ No(heavy) /\ No(refresh) /\ No(req)
NoRoutes ==
    /\ No(policy) /\ No(ready) /\ No(route) /\ No(edits) /\ No(cache)
    /\ No(key) /\ No(approved) /\ No(affinity) /\ No(question)
NoneElse ==
    /\ No(x1) /\ No(x2) /\ No(x3) /\ No(x4) /\ No(x5) /\ No(x6)
    /\ No(x7) /\ No(x8) /\ No(x9) /\ No(x10) /\ No(x11)

GatewayInit ==
    \/ /\ part = "people" /\ Init
       /\ NoTasks /\ NoChecks /\ NoCharges /\ NoLoans /\ NoRoutes /\ NoneElse
    \/ /\ Apart /\ NoneElse
       /\ \/ /\ part = "media" /\ Generation!Init
             /\ NoChecks /\ NoCharges /\ NoLoans /\ NoRoutes
          \/ /\ part = "checks" /\ Checks!Init
             /\ NoTasks /\ NoCharges /\ NoLoans /\ NoRoutes
          \/ /\ part = "quota" /\ Ledger!Init
             /\ NoTasks /\ NoChecks /\ NoLoans /\ NoRoutes
          \/ /\ part = "capacity" /\ Guard!Init
             /\ NoTasks /\ NoChecks /\ NoCharges /\ NoRoutes
          \/ /\ part = "routes" /\ Routes!Init
             /\ NoTasks /\ NoChecks /\ NoCharges /\ NoLoans
    \/ /\ Apart /\ NoTasks /\ NoChecks /\ NoCharges /\ NoLoans /\ NoRoutes
       /\ \/ part = "invites" /\ Registrations!Init
          \/ part = "scans" /\ Scans!Init
          \/ part = "imports" /\ Imports!Init

PeopleNext == part = "people" /\ Next
InvitesNext == part = "invites" /\ Registrations!Next
ScansNext == part = "scans" /\ Scans!Next
ImportsNext == part = "imports" /\ Imports!Next
MediaNext == part = "media" /\ Generation!Next
\* One account's credentials and results change, the other only takes slots.
Steady == CHOOSE a \in Checked : TRUE
ChecksNext ==
    /\ part = "checks" /\ Checks!Next
    /\ UNCHANGED <<cred[Steady], identity[Steady], entry[Steady], tested[Steady]>>
QuotaNext == part = "quota" /\ Ledger!Next
CapacityNext == part = "capacity" /\ Guard!Next
\* What is edited while an answer comes may as well be edited after it: only the
\* choice of the next member looks again.
RoutesNext ==
    /\ part = "routes" /\ Routes!Next
    /\ \A q \in Questions : question[q].at \in {"sent", "started", "done"} =>
        question' # question \/ affinity' # affinity

GatewayNext ==
    \/ /\ PeopleNext
       /\ UNCHANGED <<part, making, checking, charging, lending, routing, rest>>
    \/ /\ MediaNext
       /\ UNCHANGED <<part, vars, checking, charging, lending, routing, rest>>
    \/ /\ ChecksNext
       /\ UNCHANGED <<part, vars, making, charging, lending, routing, rest>>
    \/ /\ QuotaNext
       /\ UNCHANGED <<part, vars, making, checking, lending, routing, rest>>
    \/ /\ CapacityNext
       /\ UNCHANGED <<part, vars, making, checking, charging, routing, rest>>
    \/ /\ RoutesNext
       /\ UNCHANGED <<part, vars, making, checking, charging, lending, rest>>
    \/ /\ InvitesNext \/ ScansNext \/ ImportsNext
       /\ UNCHANGED <<part, vars, making, checking, charging, lending, routing>>

gateway == <<part, vars, making, checking, charging, lending, routing, rest>>

GatewaySpec == GatewayInit /\ [][GatewayNext]_gateway

Alike == Permutations(Lenders) \cup Permutations(Handlers)

-----------------------------------------------------------------------------
\* The properties of the modules, in the part each is about.

\* Accounts are shared only by their owner's consent, logins are capped, and no
\* account starts to be shared for a disabled user.
SharedByConsent ==
    /\ [](/\ part = "scans" => Scans!SharedByConsent /\ Scans!TasksCapped
          /\ part = "imports" => Imports!SharedByConsent /\ Imports!TasksCapped)
    /\ [][/\ part = "scans" => Scans!SharersLive
          /\ part = "imports" => Imports!SharersLive]_<<x1, x4>>

\* What a client was told of its media task can be relied on, and the upstream
\* is asked about it once at a time.
ToldTruthful == part = "media" => Generation!ToldTruthful /\ Generation!OneQuery

\* A dispatch is lawful when it is made, whatever was read before; and one
\* member speaks to the client, after at most one other was tried.
DispatchesLawful == part = "routes" => Routes!DispatchesLawful /\ Routes!OneVoice

\* Checks speak of the credentials they were made with, one at a time.
ChecksFit == part = "checks" => Checks!ChecksFit /\ Checks!ChecksBounded

\* A day's bucket holds what its calls used or still reserve; slots and bytes
\* of requests are counted exactly and within their bounds; users have no more
\* sessions than they may, and an invite admits what it says.
BooksExact ==
    /\ part = "quota" => Ledger!LedgerExact
    /\ part = "capacity" => Guard!CapacityExact
    /\ part = "people" => TypeOK
    /\ part = "invites" => /\ Registrations!TypeOK
                           /\ Registrations!IdentitiesProven
                           /\ Registrations!InvitesExact
===============================================================================
