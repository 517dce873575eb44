CONSTANTS
  Requests = {user, key, admin_key}
  Portal = {user}
  Unchecked = {admin_key}
  Accounts = {a1, a2}
  NoAccount = none
  MaxAttempts = 5
  MaxEvents = 1
  CreditAccounts = {a1}
  Calls = {c1}
  Timers = {t1}
  Worker = w
  Soft = 1
  Long = 3
  Interval = 2
  Backlog = 2
  MaxClock = 2
  CreditEvents = 4
  Callers = {k1, k2}
  MaxManagers = 2
  MaxTokens = 3
  TokenEvents = 2
SPECIFICATION MCSpec
INVARIANTS BudgetKept QueueSound LoginsFit
PROPERTIES DispatchesSafe RejectionsStand
