CONSTANTS
    Absent = absent
    Owner = Owner
    Admin = Admin
    Users = {Owner, Admin}
    Secrets = {s1, s2}
    Secret = s1
    Codes = {}
    Code = c1
    Clients = {k1, k2}
    NoCode = NoCode
    Recovery = Recovery
    Settled <- Team
    Limits = {0, 1, 2}
    SessionCap = 1
    AdminCap = 1
    MaxOps = 4
    MaxTokens = 2
    Lenders = {u1, u2}
    Tasks = {t1, t2}
    Handlers = {h1, h2}
    Lent = lent
    Workers = {w1}
    Calls = {r1, r2, r3}
    Checked = {a1, a2}
    CheckSlots = 1
    CheckChanges = 1
    LimitRequests = 2
    LimitTokens = 3
    CallTokens = 2
    LastDay = 2
    BodySlots = 1
    BodyWaiting = 1
    Budget = 4
    MaxBody = 3
    HeavySlots = 1
    ChatModel = chat
    VisionModel = vision
    Common = shared
    Private = mine
    Members = {chat, vision}
    Hosts = {shared, mine}
    Serves <- AccountOf
    Own = {mine}
    Apps = {key}
    Lists <- KeyLists
    Policies <- AccessPolicies
    Lineups <- OneOrBoth
    Questions = {question}
    MaxEdits = 2
SPECIFICATION GatewaySpec
SYMMETRY Alike
INVARIANTS DispatchesLawful ToldTruthful ChecksFit BooksExact IdentitiesProven
PROPERTIES SharedByConsent OwnershipStands
CHECK_DEADLOCK FALSE
