\* Four requests contend for slots, buffers and places in the queue; a service updates itself;
\* usage records are trimmed while calls are logged.
CONSTANTS
    r3 = r3 r4 = r4 app = app user1 = user1 user2 = user2 m1 = m1
    NoAccount = NoAccount
    Requests = {r1, r2, r3, r4}
    Keys = {app, user1, user2}
    Models = {m1}
    Accounts = {a1}
    KeyOf <- ThreeKeys
    ModelOf <- OneModel
    Portal = {user1, user2}
    Streaming = {r1, r3}
    KeyLimit <- UserLimit1
    Scope <- AnyAccount
    Capacity = 2
    QueueSize = 3
    KeyQueue = 2
    UserQueue = 2
    PortalShared = 2
    PortalQueue = 3
    AccountLimit = 1
    ResponseLimit = 1
    BufferBudget = 8
    Unlimited = FALSE
    MemoryGuard = FALSE
    Volatile = FALSE
    Steerable = {}
    MaxBinds = 0
    MaxPaces = 1
    Writes = {w1, w2}
    Film = film
SPECIFICATION GatesSpec
INVARIANTS WithinLimits QueueFair UpdatesSafe UpkeepFits
CHECK_DEADLOCK FALSE
