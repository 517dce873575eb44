CONSTANTS
  Requests = {user}
  Portal = {user}
  Unchecked = {}
  Accounts = {a1, a2}
  NoAccount = none
  MaxAttempts = 4
  MaxEvents = 1
  CreditAccounts = {a1}
  Calls = {c1}
  Timers = {t1}
  Worker = w
  Soft = 1
  Long = 3
  Interval = 2
  Backlog = 2
  MaxClock = 2
  CreditEvents = 2
  Callers = {k1, k2}
  MaxManagers = 2
  MaxTokens = 3
  TokenEvents = 1
  SessionCalls = {s1, s2}
  Sessions = {key}
  SessionAccounts = {a1, a2}
  International = {a1}
  MaxEntries = 1
  Retries = 1
  SessionAttempts = 2
  SessionEvents = 1
SPECIFICATION LiveSpec
PROPERTIES CallsEnd RechecksEnd
