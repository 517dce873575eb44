\* Five requests of three applications share one slot; nobody binds or paces.
CONSTANTS
    r1 = r1 r2 = r2 r3 = r3 r4 = r4 r5 = r5
    appA = appA appB = appB appC = appC m1 = m1
    NoAccount = NoAccount
    Requests = {r1, r2, r3, r4, r5}
    Keys = {appA, appB, appC}
    Models = {m1}
    Accounts = {}
    KeyOf <- Callers
    ModelOf <- OneModel
    Portal = {}
    Streaming = {}
    KeyLimit <- NoKeyLimit
    Scope <- NoScope
    Capacity = 1
    QueueSize = 4
    KeyQueue = 4
    UserQueue = 4
    PortalShared = 1
    PortalQueue = 4
    AccountLimit = 1
    ResponseLimit = 1
    BufferBudget = 20
    Unlimited = FALSE
    MemoryGuard = FALSE
    Volatile = FALSE
    Steerable = {}
    MaxBinds = 0
    MaxPaces = 0
SPECIFICATION FairnessSpec
INVARIANT RotatesBetweenKeys
