\* Binding and failing over between two accounts with one permit each; two accounts are asked for
\* their models.
CONSTANTS
    r1 = r1 r2 = r2 app = app user1 = user1 m1 = m1 a1 = a1
    NoAccount = NoAccount
    Requests = {r1, r2, r3}
    Keys = {app, user1}
    Models = {m1}
    Accounts = {a1, a2}
    KeyOf <- TwoKeys
    ModelOf <- OneModel
    Portal = {user1}
    Streaming = {r1, r3}
    KeyLimit <- NoKeyLimit
    Scope <- Scoped
    Capacity = 2
    QueueSize = 2
    KeyQueue = 2
    UserQueue = 1
    PortalShared = 2
    PortalQueue = 2
    AccountLimit = 1
    ResponseLimit = 1
    BufferBudget = 8
    Unlimited = FALSE
    MemoryGuard = FALSE
    Volatile = FALSE
    Steerable = {r2}
    MaxBinds = 2
    MaxPaces = 0
    Own = own
    Other = other
    Plain = plain
    Reasoning = reasoning
    AutoModel = auto
    NoPrice = NoPrice
SPECIFICATION ModesSpec
INVARIANTS TypeOK CountsMatch ModesSound NothingLeaks LeaseBacked CatalogConfirmed
