\* Two callers of each part. Router: one entry in the map and two adverse events.
CONSTANTS
    NoAccount = NoAccount
    Calls = {c1, c2}
    Keys = {k1, k2}
    Accounts = {a1, a2}
    International = {a1}
    MaxEntries = 1
    Retries = 1
    Attempts = 2
    Unlimited = FALSE
    MaxEvents = 2
    UpstreamKeys = {u1, u2}
    ZenKey = zen_key
    GoKey = go_key
    Proxy = p1
    Third = a3
    Torn = torn
SPECIFICATION MCSpec
SYMMETRY Alike
INVARIANTS SessionsExact AnswersKept RotationsKept SendsFit CheckinsFit BridgesFit
PROPERTIES ControlHonoured ImportsKept
CHECK_DEADLOCK FALSE
