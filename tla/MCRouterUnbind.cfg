\* A call unbinds a session that another call has bound meanwhile.
CONSTANTS
    NoAccount = NoAccount
    Calls = {c1, c2}
    Keys = {k1}
    Accounts = {a1, a2}
    International = {a1}
    MaxEntries = 1
    Retries = 1
    Attempts = 2
    Unlimited = TRUE
    MaxEvents = 2
SPECIFICATION Spec
PROPERTIES UnbindsWhatFailed
