SPECIFICATION TokensSpec
CONSTANTS
  Request = {r1, r2}
  User = {ann, bob}
  AccessLife = 1
  RefreshLife = 2
  MaxTime = 2
  MaxSaves = 2
INVARIANTS
  TokensTypeOK
  RowsReplaced
  LoggedOutStaysOut
\* The clock and the log-ins are bounded.
CHECK_DEADLOCK FALSE
