SPECIFICATION PaymentSpec
CONSTANTS
  p1 = p1
  p2 = p2
  p3 = p3
  ann = ann
  bob = bob
  Callback = {t1, t2, t3}
  Payment = {p1, p2, p3}
  User = {ann, bob}
  UserOf <- MCUserOf
  Amount <- MCAmount
  MaxCallbacks = 4
  None = None
INVARIANTS
  PaymentTypeOK
  NoUnexplainedMoney
  BalanceIsJournal
  CompletedIsCredited
\* The bank may stop.
CHECK_DEADLOCK FALSE
