\* Waiting ends although memory pressure, accounts and proxies come and go.
CONSTANTS
    r2 = r2 app = app user1 = user1 m1 = m1
    NoAccount = NoAccount
    Requests = {r1, r2}
    Keys = {app, user1}
    Models = {m1}
    Accounts = {a1}
    KeyOf <- TwoKeys
    ModelOf <- OneModel
    Portal = {user1}
    Streaming = {r1}
    KeyLimit <- NoKeyLimit
    Scope <- AnyAccount
    Capacity = 2
    QueueSize = 2
    KeyQueue = 2
    UserQueue = 1
    PortalShared = 2
    PortalQueue = 2
    AccountLimit = 1
    ResponseLimit = 1
    BufferBudget = 8
    Unlimited = FALSE
    MemoryGuard = TRUE
    Volatile = TRUE
    Steerable = {r1}
    MaxBinds = 1
    MaxPaces = 1
    Upstream = upstream_key
    Proxy = p1
    Spare = p2
    Film = film
    Tracker = tracker
    Viewer = viewer
SPECIFICATION ServiceSpec
PROPERTIES WaitsEnd KeysLeaveDeadProxies
CHECK_DEADLOCK FALSE
