SPECIFICATION CodesSpec
CONSTANTS
  Request = {r1}
  User = {ann, bob}
  Login = {l1}
  Password = {p1}
  Code = {c1}
  CodeLife = 1
  PermissionLife = 2
  MaxTime = 3
  None = None
INVARIANTS
  CodesTypeOK
  ResetWindow
\* The clock is bounded.
CHECK_DEADLOCK FALSE
