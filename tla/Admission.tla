----------------------------- MODULE Admission -----------------------------
(***************************************************************************)
(* The model admission controller, internal/app/admission.go.              *)
(*                                                                         *)
(* A request that wants to run a model acquires a lease: an execution slot *)
(* and a reservation of response buffer.  When there is no room its ticket *)
(* waits in one bounded queue.  With the lease the request binds an        *)
(* account (slot and account are reserved together) and, before it calls   *)
(* the upstream, may wait for the account's pacing, which parks the ticket *)
(* in the queue while it keeps the account and the buffer.                 *)
(*                                                                         *)
(* Every operation runs under one mutex and runs dispatchLocked, a loop    *)
(* that starts queued tickets until none can start.  The mutex is the      *)
(* variable mu: an operation takes it, each iteration of the loop is one   *)
(* step, and the rest of the operation follows when the loop has ended.    *)
(* Nothing but the environment moves while mu is held.                     *)
(***************************************************************************)
EXTENDS Integers, SequencesExt

CONSTANTS
    Requests, Keys, Models, Accounts, NoAccount,
    KeyOf,             \* request -> the admission key of its principal
    ModelOf,           \* request -> model
    Portal,            \* the keys with the prefix "portal-user-"
    Streaming,         \* the requests that stream
    KeyLimit,          \* key -> configured or per-user limit, 0 for none
    Scope,             \* request -> accounts its caller may use
    Capacity, QueueSize, KeyQueue, UserQueue,
    PortalShared,      \* PortalSharedConcurrency
    PortalQueue,       \* PortalSharedQueueSize
    AccountLimit, ResponseLimit, BufferBudget,
    Unlimited,         \* ModelLimitsDisabled
    MemoryGuard,       \* ModelMemoryGuard
    Volatile,          \* the set of usable accounts changes while we run
    Steerable,         \* the requests whose session may be controlled while we run
    MaxBinds, MaxPaces \* bounds on bind and throttle calls of a request

ASSUME AdmissionAssumption ==
    /\ IsFiniteSet(Requests)
    /\ NoAccount \notin Accounts
    /\ KeyOf \in [Requests -> Keys]
    /\ ModelOf \in [Requests -> Models]
    /\ Portal \subseteq Keys
    /\ Streaming \subseteq Requests
    /\ KeyLimit \in [Keys -> Nat]
    /\ Scope \in [Requests -> SUBSET Accounts]
    /\ {Capacity, QueueSize, KeyQueue, UserQueue, PortalShared, PortalQueue,
        AccountLimit, ResponseLimit} \subseteq Nat \ {0}
    /\ {BufferBudget, MaxBinds, MaxPaces} \subseteq Nat
    /\ {Unlimited, MemoryGuard, Volatile} \subseteq BOOLEAN
    /\ Steerable \subseteq Requests

Free == <<"free", "free">>

VARIABLES
    \* the modelAdmission structure
    active, sharedActive, byKey, byModel, byAccount, buffers, sharedBuffers,
    queue, served, sequence,
    \* the modelTicket structures
    running, ready, chooses, account, failed, buffered, released,
    \* the account that a ticket's selector settled on; the tickets whose session
    \* was bound anew or given a control since the selector last looked; and
    \* those for which it then dropped a control and answered nothing
    preferred, steered, refused,
    \* control: the mutex and where each request is
    mu, pc, binds, paces,
    \* environment: accounts the selector finds ready, memory pressure
    usable, high

slots   == <<active, sharedActive, byKey, byModel, running>>
stamps  == <<served, sequence>>
memory  == <<buffers, sharedBuffers, buffered>>
holding == <<byAccount, account>>
choice  == <<chooses, failed, preferred, steered, refused>>
control == <<binds, paces>>
env     == <<usable, high>>
vars == <<slots, stamps, memory, holding, choice, control, env,
          queue, ready, released, mu, pc>>

-----------------------------------------------------------------------------
\* Configuration: what newModelAdmission derives from the settings.

AtMost(m, n) == IF m <= n THEN m ELSE n

SharedQueue ==
    IF QueueSize > 1 /\ PortalQueue >= QueueSize THEN QueueSize - 1
                                                 ELSE PortalQueue

\* Mutant: the clamp that leaves one slot to private requests is missing.
SharedCapacityUnclamped == AtMost(PortalShared, Capacity)

SharedCapacity ==
    AtMost(IF Capacity > 1 /\ PortalShared >= Capacity THEN Capacity - 1
                                                       ELSE PortalShared,
           Capacity)

SharedBufferBudget ==
    IF BufferBudget <= 4 * ResponseLimit THEN 0
                                         ELSE BufferBudget - 4 * ResponseLimit

Shared(r) == KeyOf[r] \in Portal
Charge(r) == IF r \in Streaming THEN 2 * ResponseLimit ELSE 4 * ResponseLimit
Limit(r) ==
    IF KeyLimit[KeyOf[r]] > 0 THEN AtMost(KeyLimit[KeyOf[r]], Capacity)
                              ELSE Capacity

-----------------------------------------------------------------------------
\* Room

SharedRoom(r) == ~Shared(r) \/ sharedActive < SharedCapacity

BufferRoom(r) ==
    /\ ~(MemoryGuard /\ high)
    /\ \/ r \in buffered
       \/ /\ buffers + Charge(r) <= BufferBudget
          /\ Shared(r) => sharedBuffers + Charge(r) <= SharedBufferBudget

Room(r) == /\ byKey[KeyOf[r]] < Limit(r)
           /\ SharedRoom(r)
           /\ BufferRoom(r)

Busy == {u \in Accounts : byAccount[u] >= AccountLimit}

\* What a ticket's selector finds ready now: accounts its caller may use
\* that are enabled and not cooling down.
Open(r) == usable \cap Scope[r]

NeedsAccount(r) == r \in chooses /\ account[r] = NoAccount

-----------------------------------------------------------------------------
\* Bookkeeping fragments: the primed state of one group of variables.

EnterSlot(r) ==
    /\ running' = running \cup {r}
    /\ active' = active + 1
    /\ byKey' = [byKey EXCEPT ![KeyOf[r]] = @ + 1]
    /\ sharedActive' = IF Shared(r) THEN sharedActive + 1 ELSE sharedActive
    /\ byModel' = IF Shared(r) THEN [byModel EXCEPT ![ModelOf[r]] = @ + 1]
                               ELSE byModel

\* Mutant: the per-model counter is not given back.
LeaveSlotKeepsModel(r) ==
    /\ running' = running \ {r}
    /\ active' = active - 1
    /\ byKey' = [byKey EXCEPT ![KeyOf[r]] = @ - 1]
    /\ sharedActive' = IF Shared(r) THEN sharedActive - 1 ELSE sharedActive
    /\ UNCHANGED byModel

LeaveSlot(r) ==
    /\ running' = running \ {r}
    /\ active' = active - 1
    /\ byKey' = [byKey EXCEPT ![KeyOf[r]] = @ - 1]
    /\ sharedActive' = IF Shared(r) THEN sharedActive - 1 ELSE sharedActive
    /\ byModel' = IF Shared(r) THEN [byModel EXCEPT ![ModelOf[r]] = @ - 1]
                               ELSE byModel

Stamp(r) ==
    /\ sequence' = sequence + 1
    /\ served' = [served EXCEPT ![KeyOf[r]] = sequence + 1]

ReserveBuffer(r) ==
    IF r \in buffered
    THEN UNCHANGED memory
    ELSE /\ buffered' = buffered \cup {r}
         /\ buffers' = buffers + Charge(r)
         /\ sharedBuffers' =
                IF Shared(r) THEN sharedBuffers + Charge(r) ELSE sharedBuffers

\* Mutant: a release that does not ask whether the buffer is held.
ReleaseBufferTwice(r) ==
    /\ buffered' = buffered \ {r}
    /\ buffers' = buffers - Charge(r)
    /\ sharedBuffers' =
           IF Shared(r) THEN sharedBuffers - Charge(r) ELSE sharedBuffers

ReleaseBuffer(r) ==
    IF r \notin buffered
    THEN UNCHANGED memory
    ELSE /\ buffered' = buffered \ {r}
         /\ buffers' = buffers - Charge(r)
         /\ sharedBuffers' =
                IF Shared(r) THEN sharedBuffers - Charge(r) ELSE sharedBuffers

HoldAccount(r, u) ==
    /\ account' = [account EXCEPT ![r] = u]
    /\ byAccount' = [byAccount EXCEPT ![u] = @ + 1]

ReleaseAccount(r) ==
    IF account[r] = NoAccount
    THEN UNCHANGED holding
    ELSE /\ account' = [account EXCEPT ![r] = NoAccount]
         /\ byAccount' = [byAccount EXCEPT ![account[r]] = @ - 1]

SharedQueued == {q \in Range(queue) : Shared(q)}

\* Mutant: the queue takes one ticket more than its size.
QueueFullOffByOne(r) ==
    Len(queue) > QueueSize

QueueFull(r) ==
    LET sameKey == {q \in Range(queue) : KeyOf[q] = KeyOf[r]}
        limit == IF Shared(r) THEN AtMost(UserQueue, KeyQueue) ELSE KeyQueue
    IN  \/ Shared(r) /\ Cardinality(SharedQueued) >= SharedQueue
        \/ Cardinality(sameKey) >= limit
        \/ Len(queue) >= QueueSize

Position(r) == CHOOSE i \in DOMAIN queue : queue[i] = r

Without(r) ==
    IF r \in Range(queue)
    THEN RemoveAt(queue, Position(r))
    ELSE queue

\* Mutant: a key's turn is never forgotten.
RemoveTicketKeepsTurn(r) ==
    /\ ReleaseAccount(r)
    /\ ReleaseBuffer(r)
    /\ IF r \in running
       THEN LeaveSlot(r) /\ UNCHANGED queue
       ELSE queue' = Without(r) /\ UNCHANGED slots
    /\ UNCHANGED <<served, sequence>>

\* removeLocked: what a ticket holds, and its place in the queue, are given
\* up; the key's turn is forgotten with its last ticket.
RemoveTicket(r) ==
    /\ ReleaseAccount(r)
    /\ ReleaseBuffer(r)
    /\ IF r \in running
       THEN LeaveSlot(r) /\ UNCHANGED queue
       ELSE queue' = Without(r) /\ UNCHANGED slots
    /\ served' = IF /\ byKey'[KeyOf[r]] = 0
                    /\ \A q \in Range(queue') : KeyOf[q] # KeyOf[r]
                 THEN [served EXCEPT ![KeyOf[r]] = 0]
                 ELSE served
    /\ UNCHANGED sequence

-----------------------------------------------------------------------------
\* dispatchLocked

Scanned == {r \in Range(queue) : r \in ready /\ Room(r)}

\* The tickets that a dispatch asks for an account while some are ready.
Asked(S) == {r \in S : NeedsAccount(r) /\ Open(r) # {}}

\* What their selectors answer: the account settled on, or NoAccount for a
\* control of the session that cannot be met, which is then dropped.  Unless
\* the session changed, the account settled on before is kept while it is ready.
Picks(S) ==
    {w \in [Asked(S) -> usable \cup {NoAccount}] : \A r \in Asked(S) :
        /\ w[r] = NoAccount => r \in steered
        /\ w[r] # NoAccount =>
            /\ w[r] \in Open(r)
            /\ r \notin steered /\ preferred[r] \in Open(r) => w[r] = preferred[r]}

Refusals(w) == {r \in DOMAIN w : w[r] = NoAccount}
Prefer(w) ==
    [r \in Requests |-> IF r \in DOMAIN w \ Refusals(w) THEN w[r] ELSE preferred[r]]
Refused(w) == (refused \ DOMAIN w) \cup Refusals(w)

\* Mutant: a control that cannot be met is refused but not dropped.
LookedInVain(w) ==
    /\ preferred' = Prefer(w)
    /\ refused' = Refused(w)
    /\ steered' = steered \ (DOMAIN w \ Refusals(w))

\* The selectors have looked and answered w.
Looked(w) ==
    /\ preferred' = Prefer(w)
    /\ refused' = Refused(w)
    /\ steered' = steered \ DOMAIN w

\* A selector fails when no account is ready, and the ticket is started to
\* report that; it answers nothing now when it drops a control or when the
\* account it settled on is busy.
Startable(w) ==
    {r \in Scanned : \/ ~NeedsAccount(r)
                     \/ Open(r) = {}
                     \/ r \notin Refusals(w) /\ Prefer(w)[r] \notin Busy}

Before(r, q) ==
    LET br == byKey[KeyOf[r]]
        bq == byKey[KeyOf[q]]
        sr == served[KeyOf[r]]
        sq == served[KeyOf[q]]
    IN  \/ br < bq
        \/ br = bq /\ sr < sq
        \/ br = bq /\ sr = sq /\ Position(r) <= Position(q)

Scanning == mu[2] \in {"unlock", "acquire", "bind"}

DispatchOne ==
    /\ Scanning
    /\ active < Capacity
    /\ \E w \in Picks(Scanned) : \E r \in Startable(w) :
        /\ \A q \in Startable(w) : Before(r, q)
        /\ queue' = Without(r)
        /\ EnterSlot(r)
        /\ Stamp(r)
        /\ ReserveBuffer(r)
        /\ Looked(w)
        /\ failed' = IF NeedsAccount(r)
                     THEN IF Open(r) = {} THEN failed \cup {r} ELSE failed \ {r}
                     ELSE failed
        /\ IF NeedsAccount(r) /\ Open(r) # {}
           THEN HoldAccount(r, Prefer(w)[r])
           ELSE UNCHANGED holding
    /\ UNCHANGED <<chooses, control, env, ready, released, mu, pc>>

\* The loop ends; the operation that ran it goes on.
DispatchEnd ==
    /\ Scanning
    /\ \/ active >= Capacity /\ UNCHANGED <<preferred, steered, refused>>
       \/ /\ active < Capacity
          /\ \E w \in Picks(Scanned) : Startable(w) = {} /\ Looked(w)
    /\ mu' = IF mu[2] = "unlock" THEN Free
             ELSE <<mu[1], IF mu[2] = "acquire" THEN "admit" ELSE "take">>
    /\ UNCHANGED <<slots, stamps, memory, holding, chooses, failed, control,
                   env, queue, ready, released, pc>>

-----------------------------------------------------------------------------
\* Operations of a request

\* acquireWithBudget without limits: count the request and let it run.
AcquireUnlimited(r) ==
    /\ mu = Free
    /\ pc[r] = "idle"
    /\ EnterSlot(r)
    /\ pc' = [pc EXCEPT ![r] = "held"]
    /\ UNCHANGED <<stamps, memory, holding, choice, control, env, queue, ready,
                   released, mu>>

\* acquireWithBudget with limits: a charge that can never fit is refused; otherwise the
\* waiting tickets are dispatched first.
AcquireLimited(r) ==
    /\ mu = Free
    /\ pc[r] = "idle"
    /\ IF \/ Charge(r) > BufferBudget
          \/ Shared(r) /\ Charge(r) > SharedBufferBudget
       THEN pc' = [pc EXCEPT ![r] = "gone"] /\ UNCHANGED mu
       ELSE mu' = <<r, "acquire">> /\ UNCHANGED pc
    /\ UNCHANGED <<slots, stamps, memory, holding, choice, control, env, queue,
                   ready, released>>

Acquire(r) == IF Unlimited THEN AcquireUnlimited(r) ELSE AcquireLimited(r)

\* The rest of acquireWithBudget: run, wait or be refused.
Admit(r) ==
    /\ mu = <<r, "admit">>
    /\ mu' = Free
    /\ IF active < Capacity /\ Room(r)
       THEN /\ EnterSlot(r)
            /\ Stamp(r)
            /\ ReserveBuffer(r)
            /\ pc' = [pc EXCEPT ![r] = "admitting"]
            /\ UNCHANGED queue
       ELSE /\ queue' = IF QueueFull(r) THEN queue ELSE Append(queue, r)
            /\ pc' = [pc EXCEPT ![r] = IF QueueFull(r) THEN "gone" ELSE "admitting"]
            /\ UNCHANGED <<slots, stamps, memory>>
    /\ UNCHANGED <<holding, choice, control, env, ready, released>>

Waiting == {"admitting", "waiting"}

\* Mutant: a failed selection is not noticed.
StartAnyway(r) ==
    /\ mu = Free
    /\ pc[r] \in Waiting
    /\ r \in running
    /\ pc' = [pc EXCEPT ![r] = "held"]
    /\ UNCHANGED <<slots, stamps, memory, holding, choice, control, env, queue,
                   ready, released, mu>>

\* await sees its ticket running.  A ticket started only to report that no
\* account can be selected goes on to release itself.
Start(r) ==
    /\ mu = Free
    /\ pc[r] \in Waiting
    /\ r \in running
    /\ pc' = [pc EXCEPT ![r] = IF r \in failed THEN "failing" ELSE "held"]
    /\ UNCHANGED <<slots, stamps, memory, holding, choice, control, env, queue,
                   ready, released, mu>>

\* Mutant: an abandoned ticket keeps what it holds.
GiveUpKeepsTicket(r) ==
    /\ mu = Free
    /\ pc[r] \in Waiting
    /\ pc' = [pc EXCEPT ![r] = IF @ = "admitting" THEN "gone" ELSE "dropped"]
    /\ UNCHANGED <<slots, stamps, memory, holding, choice, control, env, queue,
                   ready, released, mu>>

\* await gives up: its context ended, or the wait ran out before it started.
GiveUp(r) ==
    /\ mu = Free
    /\ pc[r] \in Waiting
    /\ RemoveTicket(r)
    /\ mu' = <<r, "unlock">>
    /\ pc' = [pc EXCEPT ![r] = IF @ = "admitting" THEN "gone" ELSE "dropped"]
    /\ UNCHANGED <<choice, control, env, ready, released>>

\* Mutant: await without its ticker.
TickNever(r) == pc[r] = "idle" /\ pc[r] = "gone" /\ UNCHANGED vars

\* await's ticker dispatches again: memory and accounts recover unannounced.
\* (A dispatch that starts nothing and learns nothing changes nothing.)
Tick(r) ==
    /\ mu = Free
    /\ pc[r] \in Waiting
    /\ r \notin running
    /\ active < Capacity
    /\ \E w \in Picks(Scanned) : 
        \/ Startable(w) # {}
        \/ <<Prefer(w), Refused(w), steered \ DOMAIN w>> # <<preferred, refused, steered>>
    /\ mu' = <<r, "unlock">>
    /\ UNCHANGED <<slots, stamps, memory, holding, choice, control, env, queue,
                   ready, released, pc>>

\* bindProviderAccount without limits: choose, then swap the account counted.
\* A selector that fails or drops a control leaves the account as it is.
BindUnlimited(r) ==
    /\ mu = Free
    /\ pc[r] = "held"
    /\ binds[r] < MaxBinds
    /\ binds' = [binds EXCEPT ![r] = @ + 1]
    /\ \/ (Open(r) = {} \/ r \in Steerable) /\ UNCHANGED holding
       \/ \E u \in Open(r) :
            /\ account' = [account EXCEPT ![r] = u]
            /\ byAccount' = [v \in Accounts |->
                 byAccount[v] + (IF v = u THEN 1 ELSE 0)
                              - (IF v = account[r] THEN 1 ELSE 0)]
    /\ UNCHANGED <<slots, stamps, memory, choice, paces, env, queue, ready,
                   released, mu, pc>>

\* bindProviderAccount with limits: everything held is returned before the dispatch.
BindLimited(r) ==
    /\ mu = Free
    /\ pc[r] = "held"
    /\ r \in running /\ r \notin released
    /\ binds[r] < MaxBinds
    /\ binds' = [binds EXCEPT ![r] = @ + 1]
    /\ ReleaseAccount(r)
    /\ ReleaseBuffer(r)
    /\ LeaveSlot(r)
    /\ chooses' = chooses \cup {r}
    /\ failed' = failed \ {r}
    /\ \E u \in Scope[r] \cup {NoAccount} : preferred' = [preferred EXCEPT ![r] = u]
    /\ steered' \in {steered \ {r}, steered \cup ({r} \cap Steerable)}
    /\ refused' = refused \ {r}
    /\ mu' = <<r, "bind">>
    /\ pc' = [pc EXCEPT ![r] = "binding"]
    /\ UNCHANGED <<stamps, paces, env, queue, ready, released>>

Bind(r) == IF Unlimited THEN BindUnlimited(r) ELSE BindLimited(r)

\* The rest of bindProviderAccount: slot and account are taken together, or
\* the ticket waits.  An error leaves the lease without a slot.
TakeAccount(r) ==
    /\ mu = <<r, "take">>
    /\ mu' = Free
    /\ \E w \in Picks({q \in {r} : active < Capacity /\ Room(q)}) :
        /\ Looked(w)
        /\ \/ /\ active < Capacity /\ Room(r) /\ Open(r) = {}
              /\ failed' = failed \cup {r}
              /\ pc' = [pc EXCEPT ![r] = "dropped"]
              /\ UNCHANGED <<slots, stamps, memory, holding, queue>>
           \/ /\ active < Capacity /\ Room(r) /\ Open(r) # {}
              /\ r \notin Refusals(w) /\ Prefer(w)[r] \notin Busy
              /\ HoldAccount(r, Prefer(w)[r])
              /\ EnterSlot(r)
              /\ Stamp(r)
              /\ ReserveBuffer(r)
              /\ pc' = [pc EXCEPT ![r] = "waiting"]
              /\ UNCHANGED <<failed, queue>>
           \/ /\ \/ ~(active < Capacity /\ Room(r))
                 \/ r \in Refusals(w)
                 \/ Open(r) # {} /\ Prefer(w)[r] \in Busy
              /\ queue' = IF QueueFull(r) THEN queue ELSE Append(queue, r)
              /\ pc' = [pc EXCEPT ![r] = IF QueueFull(r) THEN "dropped" ELSE "waiting"]
              /\ UNCHANGED <<slots, stamps, memory, holding, failed>>
    /\ UNCHANGED <<chooses, control, env, ready, released>>

\* throttle: wait for the account's pacing without a slot.  The account and
\* the buffer stay reserved.  A full queue refuses and the slot is kept.
Pace(r) ==
    /\ ~Unlimited
    /\ mu = Free
    /\ pc[r] = "held"
    /\ r \in running /\ r \notin released
    /\ paces[r] < MaxPaces
    /\ paces' = [paces EXCEPT ![r] = @ + 1]
    /\ IF QueueFull(r)
       THEN UNCHANGED <<slots, queue, ready, mu, pc>>
       ELSE /\ queue' = Append(queue, r)
            /\ ready' = ready \ {r}
            /\ LeaveSlot(r)
            /\ mu' = <<r, "unlock">>
            /\ pc' = [pc EXCEPT ![r] = "pacing"]
    /\ UNCHANGED <<stamps, memory, holding, choice, binds, env, released>>

PaceDone(r) ==
    /\ mu = Free
    /\ pc[r] = "pacing"
    /\ ready' = ready \cup {r}
    /\ mu' = <<r, "unlock">>
    /\ pc' = [pc EXCEPT ![r] = "waiting"]
    /\ UNCHANGED <<slots, stamps, memory, holding, choice, control, env, queue,
                   released>>

\* The pacing wait fails or used up the wait budget: throttle releases.
PaceFail(r) ==
    /\ pc[r] = "pacing"
    /\ pc' = [pc EXCEPT ![r] = "failing"]
    /\ UNCHANGED <<slots, stamps, memory, holding, choice, control, env, queue,
                   ready, released, mu>>

\* Mutant: release without the dispatch that hands the slot on.
ReleaseSilently(r) ==
    /\ mu = Free
    /\ pc[r] \in {"failing", "held", "dropped"}
    /\ pc' = [pc EXCEPT ![r] = IF @ = "failing" THEN "dropped" ELSE "gone"]
    /\ released' = released \cup {r}
    /\ RemoveTicket(r)
    /\ UNCHANGED <<choice, control, env, ready, mu>>

\* release, from an error path ("failing") or deferred by the handler.
Release(r) ==
    /\ mu = Free
    /\ pc[r] \in {"failing", "held", "dropped"}
    /\ pc' = [pc EXCEPT ![r] = IF @ = "failing" THEN "dropped" ELSE "gone"]
    /\ IF r \in released
       THEN UNCHANGED <<slots, stamps, memory, holding, queue, released, mu>>
       ELSE /\ released' = released \cup {r}
            /\ RemoveTicket(r)
            /\ mu' = <<r, "unlock">>
    /\ UNCHANGED <<choice, control, env, ready>>

\* While r waits its session is bound to another account or given a control
\* (reselect, switch), or one it has can no longer be met.
Steer(r) ==
    /\ r \in Steerable \ steered
    /\ r \in Range(queue) /\ NeedsAccount(r)
    /\ steered' = steered \cup {r}
    /\ UNCHANGED env

\* Memory pressure, account readiness and sessions change on their own.
Environment ==
    /\ \/ MemoryGuard /\ high' = ~high /\ UNCHANGED <<usable, steered>>
       \/ /\ Volatile
          /\ \E u \in Accounts :
                usable' = IF u \in usable THEN usable \ {u} ELSE usable \cup {u}
          /\ UNCHANGED <<high, steered>>
       \/ \E r \in Requests : Steer(r)
    /\ UNCHANGED <<slots, stamps, memory, holding, chooses, failed, preferred, refused,
                   control, queue, ready, released, mu, pc>>

-----------------------------------------------------------------------------

Init ==
    /\ active = 0 /\ sharedActive = 0
    /\ byKey = [k \in Keys |-> 0]
    /\ byModel = [m \in Models |-> 0]
    /\ byAccount = [u \in Accounts |-> 0]
    /\ buffers = 0 /\ sharedBuffers = 0
    /\ queue = <<>>
    /\ served = [k \in Keys |-> 0]
    /\ sequence = 0
    /\ running = {} /\ chooses = {} /\ failed = {} /\ buffered = {} /\ released = {}
    /\ steered = {} /\ refused = {}
    /\ ready = Requests
    /\ account = [r \in Requests |-> NoAccount]
    /\ preferred = [r \in Requests |-> NoAccount]
    /\ mu = Free
    /\ pc = [r \in Requests |-> "idle"]
    /\ binds = [r \in Requests |-> 0]
    /\ paces = [r \in Requests |-> 0]
    /\ usable \in SUBSET Accounts
    /\ high = FALSE

Operation(r) ==
    \/ Acquire(r) \/ Admit(r)
    \/ Start(r) \/ GiveUp(r) \/ Tick(r)
    \/ Bind(r) \/ TakeAccount(r)
    \/ Pace(r) \/ PaceDone(r) \/ PaceFail(r)
    \/ Release(r)

\* Every request has been served and nothing is left to do.
Finished ==
    /\ mu = Free
    /\ \A r \in Requests : pc[r] = "gone"
    /\ UNCHANGED vars

Next ==
    \/ DispatchOne
    \/ DispatchEnd
    \/ \E r \in Requests : Operation(r)
    \/ Environment
    \/ Finished

\* The holder of the mutex goes on and, since operations are finite, the
\* mutex is free again for good; a handler ends, pacing ends, the ticker
\* ticks.  Giving up is never assumed.
Fairness ==
    /\ WF_vars(DispatchOne \/ DispatchEnd)
    /\ \A r \in Requests :
        /\ WF_vars(Admit(r) \/ TakeAccount(r))
        /\ WF_vars(Start(r))
        /\ WF_vars(Tick(r))
        /\ WF_vars(PaceDone(r) \/ PaceFail(r))
        /\ WF_vars(Release(r))

Spec == Init /\ [][Next]_vars
FairSpec == Spec /\ Fairness

-----------------------------------------------------------------------------
\* Properties

Phases == {"unlock", "acquire", "bind", "admit", "take"}
Places == {"idle", "admitting", "waiting", "held", "binding", "pacing",
           "failing", "dropped", "gone"}

SlotsTyped ==
    /\ active \in Nat /\ sharedActive \in Nat
    /\ byKey \in [Keys -> Nat] /\ byModel \in [Models -> Nat]
    /\ running \subseteq Requests

MemoryTyped ==
    /\ buffers \in Nat /\ sharedBuffers \in Nat
    /\ buffered \subseteq Requests

HoldingTyped ==
    /\ byAccount \in [Accounts -> Nat]
    /\ account \in [Requests -> Accounts \cup {NoAccount}]

QueueTyped == queue \in Seq(Requests)

ControlTyped ==
    /\ served \in [Keys -> Nat] /\ sequence \in Nat
    /\ ready \subseteq Requests /\ chooses \subseteq Requests
    /\ failed \subseteq Requests /\ released \subseteq Requests
    /\ preferred \in [Requests -> Accounts \cup {NoAccount}]
    /\ steered \subseteq Requests /\ refused \subseteq Requests
    /\ mu \in {Free} \cup (Requests \X Phases)
    /\ pc \in [Requests -> Places]
    /\ binds \in [Requests -> 0..MaxBinds] /\ paces \in [Requests -> 0..MaxPaces]
    /\ usable \subseteq Accounts /\ high \in BOOLEAN

\* Types: the counters of modelAdmission are never negative, the queue holds
\* tickets, and the mutex is free or held by a request.
TypeOK ==
    SlotsTyped /\ MemoryTyped /\ HoldingTyped /\ QueueTyped /\ ControlTyped

\* The slot counters say exactly which tickets run: over every order of
\* admission, binding, pacing, cancellation and double release, none is
\* counted twice and none is lost (active, byKey, sharedActive, byModel).
SlotsExact ==
    /\ active = Cardinality(running)
    /\ sharedActive = Cardinality({r \in running : Shared(r)})
    /\ \A k \in Keys : byKey[k] = Cardinality({r \in running : KeyOf[r] = k})
    /\ \A m \in Models : byModel[m] =
          Cardinality({r \in running : Shared(r) /\ ModelOf[r] = m})

\* byAccount counts exactly the tickets that hold the account, through
\* rebinding to another account and through pacing, which keeps it.
AccountsExact ==
    \A u \in Accounts : byAccount[u] = Cardinality({r \in Requests : account[r] = u})

\* The reserved response bytes are the charges of the tickets that hold a
\* reservation, in total and for the portal's share: a ticket that paces and
\* starts again is charged once, a streaming one half as much.
ChargeOf(S) == 4 * ResponseLimit * Cardinality(S \ Streaming)
               + 2 * ResponseLimit * Cardinality(S \cap Streaming)
BuffersExact ==
    /\ buffers = ChargeOf(buffered)
    /\ sharedBuffers = ChargeOf({r \in buffered : Shared(r)})

\* Nothing is counted twice or lost: slots, accounts and response buffers.
CountsMatch == SlotsExact /\ AccountsExact /\ BuffersExact

SlotLimits ==
    /\ active <= Capacity
    /\ sharedActive <= SharedCapacity
    /\ \A r \in running : byKey[KeyOf[r]] <= Limit(r)
MemoryLimits == buffers <= BufferBudget /\ sharedBuffers <= SharedBufferBudget
HoldingLimits == \A u \in Accounts : byAccount[u] <= AccountLimit
QueueLimits ==
    /\ Len(queue) <= QueueSize
    /\ Cardinality(SharedQueued) <= SharedQueue

\* No limit of the configuration is ever exceeded, even between the steps of
\* an operation: slots, the portal's slots, the key's limit, an account's
\* permits, both buffer budgets, and the room of the queue, of which portal
\* tickets leave a place to private ones.
WithinLimits ==
    ~Unlimited => SlotLimits /\ MemoryLimits /\ HoldingLimits /\ QueueLimits

\* No lost wakeup: whenever the mutex is free, a ready ticket that has room is
\* still queued only if the account its selector settled on is busy, or if the
\* selector looked at it last to drop a control of its session: accounts may
\* then be free, and the ticket has its next chance with the next dispatch.
\* (With the accounts and the memory stable; that the ticker repairs this and
\* what those do is EventuallyServed.)
WorkConserving ==
    mu = Free /\ active < Capacity /\ ~Volatile /\ ~MemoryGuard =>
        \A r \in Scanned : /\ NeedsAccount(r) /\ Open(r) # {}
                           /\ preferred[r] \in Busy \/ r \in refused

\* "Shared execution always leaves private capacity available": while no
\* other private request holds a slot or a buffer, a private ticket that is
\* ready and has its account waits for nothing, whatever portal users do.
\* (With the memory guard it may wait for the ticker after the pressure.)
PrivateReserve ==
    \A r \in Range(queue) :
        /\ mu = Free /\ Capacity > 1 /\ ~MemoryGuard
        /\ ~Shared(r) /\ r \in ready /\ ~NeedsAccount(r)
        => \E q \in (running \cup buffered) \ {r} : ~Shared(q)

\* A handler that has control back from admission, binding or pacing holds
\* its slot and its buffer, and the account it bound.
LeaseBacked ==
    \A r \in Requests : pc[r] = "held" =>
        /\ r \in running
        /\ ~Unlimited => r \in buffered
        /\ ~Unlimited /\ r \in chooses => account[r] # NoAccount

QueueDistinct == \A i, j \in DOMAIN queue : queue[i] = queue[j] => i = j

\* The turn of a key is forgotten with its last lease: the served map does
\* not grow with the keys that ever called.
TurnsForgotten ==
    \A k \in Keys : served[k] # 0 =>
        \E r \in Requests : KeyOf[r] = k /\ pc[r] \notin {"idle", "gone"}

\* What the queue promises: no wakeup is lost, private capacity stays reserved
\* and no turn of a key outlives its leases.
QueueFair == WorkConserving /\ PrivateReserve /\ TurnsForgotten

\* When every request is gone, nothing is held or queued any more.
NothingLeaks ==
    (\A r \in Requests : pc[r] \in {"idle", "gone"}) /\ mu = Free =>
        /\ active = 0 /\ buffers = 0 /\ queue = <<>>
        /\ \A u \in Accounts : byAccount[u] = 0

\* A request that waits is answered without relying on its timeout or its
\* client giving up, once memory pressure has passed, the accounts have
\* stopped to come and go and waiting sessions are no longer given controls.
Settled ==
    /\ \E U \in SUBSET Accounts : <>[](~high /\ usable = U)
    /\ <>[][~\E r \in Requests : Steer(r)]_vars
EventuallyServed ==
    Settled => \A r \in Requests : pc[r] \in Waiting ~> pc[r] \notin Waiting
=============================================================================
